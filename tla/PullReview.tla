----------------------------- MODULE PullReview -----------------------------
(***************************************************************************)
(* The reviews of one pull request: draft reviews, their comments and      *)
(* threads, reactions to comments, and the requests for a review that a    *)
(* review answers.  Rows of reviews and comments go with what they belong  *)
(* to (foreign keys that cascade); reactions have no foreign key and are   *)
(* swept by the handlers.  Each handler is split where it awaits.          *)
(***************************************************************************)
EXTENDS Handlers, FiniteSets

CONSTANTS
  Reviewers,   \* who may review: not the author of the pull request
  Reviews, Comments    \* ids of rows: bounds of the tables

ASSUME NoneIsNoId == None \notin Reviewers \cup Reviews \cup Comments

VARIABLES
  reviews,     \* PullRequestReview: author and state, None without a row
  comments,    \* PullRequestReviewComment: its review and the comment it replies to
  resolved,    \* comments with resolvedAt
  reacted,     \* comments with a reaction
  asked,       \* PullRequestReviewerRequest of each reviewer
  used,        \* ids that rows have or had: no id comes back
  task,        \* the requests in progress
  crashes,     \* bound
  answered,    \* history: reviewers whose last request was followed by a review
  missed,      \* history: reviewers whose request and review crossed, or were cut off
  stray        \* history: comments that went unlisted, or were reacted to while they went

reviewVars == <<reviews, comments, resolved, reacted, asked, used, task, crashes, answered, missed, stray>>

Verdicts == {"approved", "changes_requested", "commented"}
Free(rows) == rows \ used
Rows(table, rows) == {id \in rows : table[id] # None}
InReview(r) == {c \in Rows(comments, Comments) : comments[c].review = r}
Replies(c) == {d \in Rows(comments, Comments) : comments[d].root = c}
SelfRoot(c) == c  \* mutant: a reply hangs on the comment it answers
RootOf(c) == IF comments[c].root = None THEN c ELSE comments[c].root

Idling == [pc |-> "new", user |-> None, review |-> None, comment |-> None, listed |-> {}]
Working == {q \in Requests : task[q].pc \notin {"new", "done"}}

ReviewTypeOK ==
  /\ reviews \in [Reviews -> [by: Reviewers, state: Verdicts \cup {"pending"}] \cup {None}]
  /\ comments \in [Comments -> [review: Reviews, root: Comments \cup {None}] \cup {None}]
  /\ resolved \subseteq Comments /\ reacted \subseteq Comments
  /\ used \subseteq Reviews \cup Comments
  /\ asked \in [Reviewers -> {"never", "pending", "fulfilled", "dismissed"}]
  /\ task \in [Requests -> [pc: {"new", "create", "add", "submit", "fulfil", "list", "delete", "sweep",
                                 "reply", "react", "resolve", "own", "done"},
                            user: Reviewers \cup {None}, review: Reviews \cup {None},
                            comment: Comments \cup {None}, listed: SUBSET Comments]]
  /\ crashes \in 0..MaxFaults
  /\ answered \subseteq Reviewers /\ missed \subseteq Reviewers /\ stray \subseteq Comments

ReviewInit ==
  /\ reviews = [r \in Reviews |-> None] /\ comments = [c \in Comments |-> None]
  /\ resolved = {} /\ reacted = {} /\ used = {}
  /\ asked = [v \in Reviewers |-> "never"]
  /\ task = [q \in Requests |-> Idling]
  /\ crashes = 0
  /\ answered = {} /\ missed = {} /\ stray = {}

Goes(q, t) == task' = [task EXCEPT ![q] = t]
Done(q) == Goes(q, [Idling EXCEPT !.pc = "done"])

-----------------------------------------------------------------------------
(***************************************************************************)
(* A comment on a line: into the reviewer's draft, which it may have to    *)
(* create                                                                  *)
(***************************************************************************)
FindDraft(q, v) ==
  /\ task[q].pc = "new"
  /\ LET drafts == {r \in Rows(reviews, Reviews) : reviews[r] = [by |-> v, state |-> "pending"]} IN
     IF drafts = {} THEN Goes(q, [Idling EXCEPT !.pc = "create", !.user = v])
     ELSE \E r \in drafts : Goes(q, [Idling EXCEPT !.pc = "add", !.user = v, !.review = r])
  /\ UNCHANGED <<reviews, comments, resolved, reacted, asked, crashes, answered, missed, stray, used>>

CreateDraft(q) ==
  /\ task[q].pc = "create"
  /\ \E r \in Free(Reviews) :
       /\ reviews' = [reviews EXCEPT ![r] = [by |-> task[q].user, state |-> "pending"]]
       /\ used' = used \cup {r}
       /\ Goes(q, [task[q] EXCEPT !.pc = "add", !.review = r])
  /\ UNCHANGED <<comments, resolved, reacted, asked, crashes, answered, missed, stray>>

\* The foreign key refuses a comment whose review is gone.
AddComment(q) ==
  /\ task[q].pc = "add"
  /\ IF reviews[task[q].review] = None THEN UNCHANGED <<comments, used>>
     ELSE \E c \in Free(Comments) :
            /\ comments' = [comments EXCEPT ![c] = [review |-> task[q].review, root |-> None]]
            /\ used' = used \cup {c}
  /\ Done(q)
  /\ UNCHANGED <<reviews, resolved, reacted, asked, crashes, answered, missed, stray>>

-----------------------------------------------------------------------------
(***************************************************************************)
(* Submitting a review, at once or from a draft                            *)
(***************************************************************************)
Answers(v) == answered' = answered \cup {v}

\* POST .../reviews, with a verdict or as a draft.
PostReview(q, v, state) ==
  /\ task[q].pc = "new"
  /\ \E r \in Free(Reviews) : /\ reviews' = [reviews EXCEPT ![r] = [by |-> v, state |-> state]]
                             /\ used' = used \cup {r}
  /\ IF state = "pending" THEN Done(q) /\ UNCHANGED answered
     ELSE Goes(q, [Idling EXCEPT !.pc = "fulfil", !.user = v]) /\ Answers(v)
  /\ UNCHANGED <<comments, resolved, reacted, asked, crashes, missed, stray>>

\* PUT .../reviews/:id: the state is checked, the head is read, then the row is updated by id.
BeginSubmit(q, r) ==
  /\ task[q].pc = "new" /\ reviews[r] # None /\ reviews[r].state = "pending"
  /\ Goes(q, [Idling EXCEPT !.pc = "submit", !.user = reviews[r].by, !.review = r])
  /\ UNCHANGED <<reviews, comments, resolved, reacted, asked, crashes, answered, missed, stray, used>>

Submit(q, verdict) == LET r == task[q].review IN
  /\ task[q].pc = "submit"
  /\ IF reviews[r] = None THEN Done(q) /\ UNCHANGED <<reviews, answered>>
     ELSE /\ reviews' = [reviews EXCEPT ![r].state = verdict]
          /\ Goes(q, [task[q] EXCEPT !.pc = "fulfil", !.review = None])
          /\ Answers(task[q].user)
  /\ UNCHANGED <<comments, resolved, reacted, asked, crashes, missed, stray, used>>

Fulfilled(state) == IF state = "pending" THEN "fulfilled" ELSE state

\* fulfillReviewerRequest: whichever request is active by then.
Fulfil(q) == LET v == task[q].user IN
  /\ task[q].pc = "fulfil"
  /\ asked' = [asked EXCEPT ![v] = Fulfilled(@)]
  /\ missed' = IF asked[v] = "pending" /\ v \notin answered THEN missed \cup {v} ELSE missed
  /\ Done(q)
  /\ UNCHANGED <<reviews, comments, resolved, reacted, crashes, answered, stray, used>>

-----------------------------------------------------------------------------
(***************************************************************************)
(* Requests for a review                                                   *)
(***************************************************************************)
\* mutant: the revived row keeps its fulfilledAt
AskAgain(v) ==
  /\ asked' = [asked EXCEPT ![v] = IF @ = "fulfilled" THEN @ ELSE "pending"]
  /\ answered' = answered \ {v} /\ missed' = missed \ {v}
  /\ UNCHANGED <<reviews, comments, resolved, reacted, task, crashes, stray, used>>

\* POST .../requested-reviewers creates the row or revives it.
Ask(v) ==
  /\ asked' = [asked EXCEPT ![v] = "pending"]
  /\ answered' = answered \ {v} /\ missed' = missed \ {v}
  /\ UNCHANGED <<reviews, comments, resolved, reacted, task, crashes, stray, used>>

Withdraw(v) ==
  /\ asked[v] \in {"pending", "fulfilled"}
  /\ asked' = [asked EXCEPT ![v] = "dismissed"]
  /\ UNCHANGED <<reviews, comments, resolved, reacted, task, crashes, answered, missed, stray, used>>

\* applyCodeownersReviewers: only who has no row is requested.
FindOwner(q, v) ==
  /\ task[q].pc = "new" /\ asked[v] = "never"
  /\ Goes(q, [Idling EXCEPT !.pc = "own", !.user = v])
  /\ UNCHANGED <<reviews, comments, resolved, reacted, asked, crashes, answered, missed, stray, used>>

\* The row is created, or the unique key refuses it.
RequestOwner(q) == LET v == task[q].user IN
  /\ task[q].pc = "own"
  /\ IF asked[v] = "never"
     THEN asked' = [asked EXCEPT ![v] = "pending"] /\ answered' = answered \ {v}
     ELSE UNCHANGED <<asked, answered>>
  /\ Done(q)
  /\ UNCHANGED <<reviews, comments, resolved, reacted, crashes, missed, stray, used>>

-----------------------------------------------------------------------------
(***************************************************************************)
(* Threads                                                                 *)
(***************************************************************************)
FindRoot(q, c, what) ==
  /\ task[q].pc = "new" /\ comments[c] # None
  /\ Goes(q, [Idling EXCEPT !.pc = what, !.comment = RootOf(c), !.review = comments[RootOf(c)].review])
  /\ UNCHANGED <<reviews, comments, resolved, reacted, asked, crashes, answered, missed, stray, used>>

Reply(q) ==
  /\ task[q].pc = "reply"
  /\ IF comments[task[q].comment] = None THEN UNCHANGED <<comments, used>>
     ELSE \E c \in Free(Comments) :
            /\ comments' = [comments EXCEPT ![c] = [review |-> task[q].review, root |-> task[q].comment]]
            /\ used' = used \cup {c}
  /\ Done(q)
  /\ UNCHANGED <<reviews, resolved, reacted, asked, crashes, answered, missed, stray>>

\* Resolves or unresolves; the update of a comment that is gone fails.
Resolve(q) == LET c == task[q].comment IN
  /\ task[q].pc = "resolve"
  /\ IF comments[c] = None THEN UNCHANGED resolved
     ELSE resolved' \in {resolved \cup {c}, resolved \ {c}}
  /\ Done(q)
  /\ UNCHANGED <<reviews, comments, reacted, asked, crashes, answered, missed, stray, used>>

\* PUT and DELETE .../reactions: the comment is looked up, then the reaction is stored or removed.
BeginReact(q, c) ==
  /\ task[q].pc = "new" /\ comments[c] # None
  /\ Goes(q, [Idling EXCEPT !.pc = "react", !.comment = c])
  /\ UNCHANGED <<reviews, comments, resolved, reacted, asked, crashes, answered, missed, stray, used>>

React(q) == LET c == task[q].comment IN
  /\ task[q].pc = "react"
  /\ \/ /\ reacted' = reacted \cup {c}
        /\ stray' = IF comments[c] = None THEN stray \cup {c} ELSE stray
     \/ reacted' = reacted \ {c} /\ UNCHANGED stray
  /\ Done(q)
  /\ UNCHANGED <<reviews, comments, resolved, asked, crashes, answered, missed, used>>

-----------------------------------------------------------------------------
(***************************************************************************)
(* Discarding a draft, and deleting a comment                              *)
(***************************************************************************)
BeginDiscard(q, r) ==
  /\ task[q].pc = "new" /\ reviews[r] # None /\ reviews[r].state = "pending"
  /\ Goes(q, [Idling EXCEPT !.pc = "list", !.review = r])
  /\ UNCHANGED <<reviews, comments, resolved, reacted, asked, crashes, answered, missed, stray, used>>

BeginDelete(q, c) ==
  /\ task[q].pc = "new" /\ comments[c] # None
  /\ Goes(q, [Idling EXCEPT !.pc = "list", !.comment = c])
  /\ UNCHANGED <<reviews, comments, resolved, reacted, asked, crashes, answered, missed, stray, used>>

\* What the row takes with it.
Cascade(t) == IF t.comment = None THEN InReview(t.review)
              ELSE {c \in {t.comment} : comments[c] # None} \cup Replies(t.comment)

ListCascade(q) ==
  /\ task[q].pc = "list"
  /\ Goes(q, [task[q] EXCEPT !.pc = "delete",
                             !.listed = Cascade(task[q]) \cup ({task[q].comment} \ {None})])
  /\ UNCHANGED <<reviews, comments, resolved, reacted, asked, crashes, answered, missed, stray, used>>

\* A row that is gone already makes the handler fail, and the sweep with it.
Delete(q) == LET t == task[q]  gone == Cascade(task[q]) IN
  /\ t.pc = "delete"
  /\ IF (IF t.comment = None THEN reviews[t.review] ELSE comments[t.comment]) = None
     THEN Done(q) /\ UNCHANGED <<reviews, comments, resolved, stray>>
     ELSE /\ comments' = [c \in Comments |-> IF c \in gone THEN None ELSE comments[c]]
          /\ reviews' = IF t.comment = None THEN [reviews EXCEPT ![t.review] = None] ELSE reviews
          /\ resolved' = resolved \ gone
          /\ stray' = stray \cup ((gone \cap reacted) \ t.listed)
          /\ Goes(q, [t EXCEPT !.pc = "sweep"])
  /\ UNCHANGED <<reacted, asked, crashes, answered, missed, used>>

Sweep(q) ==
  /\ task[q].pc = "sweep"
  /\ reacted' = reacted \ task[q].listed
  /\ Done(q)
  /\ UNCHANGED <<reviews, comments, resolved, asked, crashes, answered, missed, stray, used>>

\* A request that stops half way: the process ends, or a best-effort write fails.
CutOff(q) ==
  /\ q \in Working /\ crashes < MaxFaults
  /\ crashes' = crashes + 1
  /\ missed' = IF task[q].pc = "fulfil" THEN missed \cup {task[q].user} ELSE missed
  /\ stray' = IF task[q].pc = "sweep" THEN stray \cup task[q].listed ELSE stray
  /\ Done(q)
  /\ UNCHANGED <<reviews, comments, resolved, reacted, asked, answered, used>>

ReviewNext ==
  \/ \E q \in Requests :
       \/ \E v \in Reviewers : FindDraft(q, v) \/ FindOwner(q, v)
                               \/ \E state \in Verdicts \cup {"pending"} : PostReview(q, v, state)
       \/ CreateDraft(q) \/ AddComment(q) \/ Fulfil(q) \/ RequestOwner(q)
       \/ \E r \in Reviews : BeginSubmit(q, r) \/ BeginDiscard(q, r)
       \/ \E verdict \in Verdicts : Submit(q, verdict)
       \/ \E c \in Comments : FindRoot(q, c, "reply") \/ FindRoot(q, c, "resolve")
                              \/ BeginReact(q, c) \/ BeginDelete(q, c)
       \/ Reply(q) \/ Resolve(q) \/ React(q) \/ ListCascade(q) \/ Delete(q) \/ Sweep(q) \/ CutOff(q)
  \/ \E v \in Reviewers : Ask(v) \/ Withdraw(v)

ReviewSpec == ReviewInit /\ [][ReviewNext]_reviewVars

-----------------------------------------------------------------------------
(***************************************************************************)
(* What the comments refer to is there, however replies, resolutions,      *)
(* reactions and deletions overlap.  A thread is a root and its replies,   *)
(* all in one review, and only a root is resolved.  No reaction outlives   *)
(* its comment once nothing is in progress, save one that was stored while *)
(* its comment went, one to a comment that was added to what was being     *)
(* deleted, and one whose sweep was cut off.                               *)
(***************************************************************************)
ThreadsAreFlat ==
  /\ \A c \in Rows(comments, Comments) : comments[c].root # None =>
       /\ comments[comments[c].root] # None
       /\ comments[comments[c].root].root = None
       /\ comments[comments[c].root].review = comments[c].review
  /\ \A c \in resolved : comments[c] # None /\ comments[c].root = None
ReactionsAreSwept == Working = {} => \A c \in reacted \ stray : comments[c] # None
CommentsHoldTogether == ThreadsAreFlat /\ ReactionsAreSwept

(***************************************************************************)
(* Once nothing is in progress, a request for a review is pending exactly  *)
(* when its reviewer has submitted no review since it was made, unless it  *)
(* was withdrawn.  The exception: a request made between the submission    *)
(* and its last step, which fulfils whatever is active, or a cut-off.      *)
(***************************************************************************)
PendingMeansUnanswered ==
  Working = {} => \A v \in Reviewers \ missed :
    /\ asked[v] = "pending" => v \notin answered
    /\ asked[v] = "fulfilled" => v \in answered
=============================================================================

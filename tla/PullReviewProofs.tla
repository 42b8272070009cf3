-------------------------- MODULE PullReviewProofs --------------------------
(***************************************************************************)
(* Reviews, threads and requests for a review, for any reviewers, any      *)
(* number of rows and of requests at once.                                 *)
(***************************************************************************)
EXTENDS PullReview, TLAPS

Tasks == [pc: {"new", "create", "add", "submit", "fulfil", "list", "delete", "sweep",
               "reply", "react", "resolve", "own", "done"},
          user: Reviewers \cup {None}, review: Reviews \cup {None},
          comment: Comments \cup {None}, listed: SUBSET Comments]

CommentRows == [review: Reviews, root: Comments \cup {None}]

\* What a task needs it has.
Equipped(t) ==
  /\ t.pc \in {"create", "add", "submit", "fulfil", "own"} => t.user \in Reviewers
  /\ t.pc \in {"add", "submit", "reply"} => t.review \in Reviews
  /\ t.pc \in {"reply", "resolve", "react"} => t.comment \in Comments
  /\ t.pc \in {"list", "delete"} /\ t.comment = None => t.review \in Reviews

TaskTypes == task \in [Requests -> Tasks] /\ \A q \in Requests : Equipped(task[q])

TableTypes ==
  /\ reviews \in [Reviews -> [by: Reviewers, state: Verdicts \cup {"pending"}] \cup {None}]
  /\ comments \in [Comments -> CommentRows \cup {None}]
  /\ resolved \subseteq Comments /\ reacted \subseteq Comments
  /\ used \subseteq Reviews \cup Comments
  /\ asked \in [Reviewers -> {"never", "pending", "fulfilled", "dismissed"}]
  /\ crashes \in 0..MaxFaults
  /\ answered \subseteq Reviewers /\ missed \subseteq Reviewers /\ stray \subseteq Comments

\* An id that has a row, or had one when a task read it, is not given out again; so the
\* root that a reply or a resolution found is still that root, or gone.
IdsAreUsed == \A c \in Comments : comments[c] # None => c \in used
RootKept(t) == t.pc \in {"reply", "resolve"} =>
  /\ t.comment \in used
  /\ comments[t.comment] # None => comments[t.comment] = [review |-> t.review, root |-> None]
RootsKept == \A q \in Requests : RootKept(task[q])

\* A reaction without its comment is about to be swept.
Sweeping(c) == \E q \in Requests : task[q].pc = "sweep" /\ c \in task[q].listed
ReactionsFollow == \A c \in reacted \ stray : comments[c] # None \/ Sweeping(c)

\* An answered request that is still pending is about to be fulfilled.
Fulfilling(v) == \E q \in Requests : task[q].pc = "fulfil" /\ task[q].user = v
RequestsFollow == \A v \in Reviewers \ missed :
  /\ asked[v] = "pending" /\ v \in answered => Fulfilling(v)
  /\ asked[v] = "fulfilled" => v \in answered

ReviewInv ==
  /\ TableTypes /\ TaskTypes
  /\ IdsAreUsed /\ RootsKept /\ ThreadsAreFlat
  /\ ReactionsFollow /\ RequestsFollow

LEMMA TypesInParts == TableTypes /\ TaskTypes => ReviewTypeOK
  BY DEF TableTypes, TaskTypes, ReviewTypeOK, Tasks, CommentRows

LEMMA IdlingFits ==
  /\ Idling \in Tasks /\ Equipped(Idling) /\ Idling.pc = "new"
  /\ LET d == [Idling EXCEPT !.pc = "done"] IN d \in Tasks /\ Equipped(d) /\ d.pc = "done"
  BY DEF Idling, Tasks, Equipped

LEMMA ReviewInvInit == ReviewInit => ReviewInv
  <1> SUFFICES ASSUME ReviewInit PROVE ReviewInv
    OBVIOUS
  <1> USE DEF ReviewInit
  <1>1. TableTypes
    BY FaultBound DEF TableTypes
  <1>2. TaskTypes
    BY IdlingFits DEF TaskTypes
  <1>3. IdsAreUsed
    BY DEF IdsAreUsed
  <1>4. RootsKept
    BY IdlingFits DEF RootsKept, RootKept
  <1>5. ThreadsAreFlat
    BY DEF ThreadsAreFlat, Rows
  <1>6. ReactionsFollow
    BY DEF ReactionsFollow
  <1>7. RequestsFollow
    BY DEF RequestsFollow
  <1> QED
    BY <1>1, <1>2, <1>3, <1>4, <1>5, <1>6, <1>7 DEF ReviewInv

-----------------------------------------------------------------------------
(***************************************************************************)
(* One task moves                                                          *)
(***************************************************************************)
LEMMA TaskMoves ==
  ASSUME TaskTypes, NEW q \in Requests, NEW t, Goes(q, t)
  PROVE  task'[q] = t /\ \A p \in Requests : p # q => task'[p] = task[p]
  BY DEF TaskTypes, Goes

LEMMA TaskFits ==
  ASSUME TaskTypes, NEW q \in Requests, NEW t, Goes(q, t), t \in Tasks, Equipped(t)
  PROVE  TaskTypes'
  BY DEF TaskTypes, Goes, Equipped

LEMMA DoneFits == ASSUME TaskTypes, NEW q \in Requests, Done(q) PROVE TaskTypes'
  BY IdlingFits, TaskFits DEF Done

LEMMA RootOfIsComment ==
  ASSUME TableTypes, NEW c \in Comments, comments[c] # None, ThreadsAreFlat
  PROVE  /\ RootOf(c) \in Comments /\ comments[RootOf(c)] # None
         /\ comments[RootOf(c)] = [review |-> comments[RootOf(c)].review, root |-> None]
         /\ comments[RootOf(c)].review \in Reviews
  <1>1. comments[c] \in CommentRows
    BY DEF TableTypes
  <1>2. CASE comments[c].root = None
    BY <1>1, <1>2 DEF RootOf, CommentRows
  <1>3. CASE comments[c].root # None
    <2>1. RootOf(c) = comments[c].root /\ RootOf(c) \in Comments
      BY <1>1, <1>3 DEF RootOf, CommentRows
    <2>2. comments[RootOf(c)] # None /\ comments[RootOf(c)].root = None
      BY <1>3, <2>1 DEF ThreadsAreFlat, Rows
    <2>3. comments[RootOf(c)] \in CommentRows
      BY <2>1, <2>2 DEF TableTypes
    <2> QED
      BY <2>1, <2>2, <2>3 DEF CommentRows
  <1> QED
    BY <1>2, <1>3

LEMMA CascadeIsComments == ASSUME NEW t \in Tasks PROVE Cascade(t) \subseteq Comments
  BY DEF Cascade, InReview, Replies, Rows, Tasks

LEMMA TasksStep == ReviewInv /\ [ReviewNext]_reviewVars => TaskTypes'
  <1> SUFFICES ASSUME ReviewInv, [ReviewNext]_reviewVars PROVE TaskTypes'
    OBVIOUS
  <1>0. TaskTypes /\ TableTypes /\ ThreadsAreFlat
    BY DEF ReviewInv
  <1>1. ASSUME NEW q \in Requests, NEW v \in Reviewers, FindDraft(q, v) PROVE TaskTypes'
    <2>1. CASE Goes(q, [Idling EXCEPT !.pc = "create", !.user = v])
      <3> DEFINE t == [Idling EXCEPT !.pc = "create", !.user = v]
      <3>1. t \in Tasks /\ Equipped(t)
        BY DEF Idling, Tasks, Equipped
      <3> HIDE DEF t
      <3> QED
        BY <1>0, <2>1, <3>1, TaskFits DEF t
    <2>2. ASSUME NEW r \in Reviews, Goes(q, [Idling EXCEPT !.pc = "add", !.user = v, !.review = r]) PROVE TaskTypes'
      <3> DEFINE t == [Idling EXCEPT !.pc = "add", !.user = v, !.review = r]
      <3>1. t \in Tasks /\ Equipped(t)
        BY DEF Idling, Tasks, Equipped
      <3> HIDE DEF t
      <3> QED
        BY <1>0, <2>2, <3>1, TaskFits DEF t
    <2> QED
      BY <1>1, <2>1, <2>2 DEF FindDraft, Rows
  <1>2. ASSUME NEW q \in Requests, CreateDraft(q) PROVE TaskTypes'
    <2>1. PICK r \in Reviews : Goes(q, [task[q] EXCEPT !.pc = "add", !.review = r])
      BY <1>2 DEF CreateDraft, Free
    <2> DEFINE t == [task[q] EXCEPT !.pc = "add", !.review = r]
    <2>2. task[q] \in Tasks /\ task[q].user \in Reviewers
      BY <1>0, <1>2 DEF TaskTypes, CreateDraft, Equipped
    <2>3. t \in Tasks /\ Equipped(t)
      BY <2>2 DEF Tasks, Equipped
    <2> HIDE DEF t
    <2> QED
      BY <1>0, <2>1, <2>3, TaskFits DEF t
  <1>3. ASSUME NEW q \in Requests, NEW v \in Reviewers, NEW state, PostReview(q, v, state) PROVE TaskTypes'
    <2>1. CASE Done(q)
      BY <1>0, <2>1, DoneFits
    <2>2. CASE Goes(q, [Idling EXCEPT !.pc = "fulfil", !.user = v])
      <3> DEFINE t == [Idling EXCEPT !.pc = "fulfil", !.user = v]
      <3>1. t \in Tasks /\ Equipped(t)
        BY DEF Idling, Tasks, Equipped
      <3> HIDE DEF t
      <3> QED
        BY <1>0, <2>2, <3>1, TaskFits DEF t
    <2> QED
      BY <1>3, <2>1, <2>2 DEF PostReview
  <1>4. ASSUME NEW q \in Requests, NEW r \in Reviews, BeginSubmit(q, r) PROVE TaskTypes'
    <2> DEFINE t == [Idling EXCEPT !.pc = "submit", !.user = reviews[r].by, !.review = r]
    <2>1. reviews[r].by \in Reviewers
      BY <1>0, <1>4 DEF BeginSubmit, TableTypes
    <2>2. t \in Tasks /\ Equipped(t)
      BY <2>1 DEF Idling, Tasks, Equipped
    <2>3. Goes(q, t)
      BY <1>4 DEF BeginSubmit
    <2> HIDE DEF t
    <2> QED
      BY <1>0, <2>2, <2>3, TaskFits
  <1>5. ASSUME NEW q \in Requests, NEW verdict, Submit(q, verdict) PROVE TaskTypes'
    <2>1. CASE Done(q)
      BY <1>0, <2>1, DoneFits
    <2>2. CASE Goes(q, [task[q] EXCEPT !.pc = "fulfil", !.review = None])
      <3> DEFINE t == [task[q] EXCEPT !.pc = "fulfil", !.review = None]
      <3>1. task[q] \in Tasks /\ task[q].user \in Reviewers
        BY <1>0, <1>5 DEF TaskTypes, Submit, Equipped
      <3>2. t \in Tasks /\ Equipped(t)
        BY <3>1 DEF Tasks, Equipped
      <3> HIDE DEF t
      <3> QED
        BY <1>0, <2>2, <3>2, TaskFits DEF t
    <2> QED
      BY <1>5, <2>1, <2>2 DEF Submit
  <1>6. ASSUME NEW q \in Requests, NEW v \in Reviewers, FindOwner(q, v) PROVE TaskTypes'
    <2> DEFINE t == [Idling EXCEPT !.pc = "own", !.user = v]
    <2>1. t \in Tasks /\ Equipped(t)
      BY DEF Idling, Tasks, Equipped
    <2>2. Goes(q, t)
      BY <1>6 DEF FindOwner
    <2> HIDE DEF t
    <2> QED
      BY <1>0, <2>1, <2>2, TaskFits
  <1>7. ASSUME NEW q \in Requests, NEW c \in Comments, NEW what \in {"reply", "resolve"}, FindRoot(q, c, what)
        PROVE  TaskTypes'
    <2> DEFINE t == [Idling EXCEPT !.pc = what, !.comment = RootOf(c), !.review = comments[RootOf(c)].review]
    <2>1. RootOf(c) \in Comments /\ comments[RootOf(c)].review \in Reviews
      BY <1>0, <1>7, RootOfIsComment DEF FindRoot
    <2>2. t \in Tasks /\ Equipped(t)
      BY <2>1 DEF Idling, Tasks, Equipped
    <2>3. Goes(q, t)
      BY <1>7 DEF FindRoot
    <2> HIDE DEF t
    <2> QED
      BY <1>0, <2>2, <2>3, TaskFits
  <1>8. ASSUME NEW q \in Requests, NEW c \in Comments, BeginReact(q, c) PROVE TaskTypes'
    <2> DEFINE t == [Idling EXCEPT !.pc = "react", !.comment = c]
    <2>1. t \in Tasks /\ Equipped(t)
      BY DEF Idling, Tasks, Equipped
    <2>2. Goes(q, t)
      BY <1>8 DEF BeginReact
    <2> HIDE DEF t
    <2> QED
      BY <1>0, <2>1, <2>2, TaskFits
  <1>9. ASSUME NEW q \in Requests, NEW r \in Reviews, BeginDiscard(q, r) PROVE TaskTypes'
    <2> DEFINE t == [Idling EXCEPT !.pc = "list", !.review = r]
    <2>1. t \in Tasks /\ Equipped(t)
      BY DEF Idling, Tasks, Equipped
    <2>2. Goes(q, t)
      BY <1>9 DEF BeginDiscard
    <2> HIDE DEF t
    <2> QED
      BY <1>0, <2>1, <2>2, TaskFits
  <1>10. ASSUME NEW q \in Requests, NEW c \in Comments, BeginDelete(q, c) PROVE TaskTypes'
    <2> DEFINE t == [Idling EXCEPT !.pc = "list", !.comment = c]
    <2>1. t \in Tasks /\ Equipped(t)
      BY NoneIsNoId DEF Idling, Tasks, Equipped
    <2>2. Goes(q, t)
      BY <1>10 DEF BeginDelete
    <2> HIDE DEF t
    <2> QED
      BY <1>0, <2>1, <2>2, TaskFits
  <1>11. ASSUME NEW q \in Requests, ListCascade(q) PROVE TaskTypes'
    <2> DEFINE listed == Cascade(task[q]) \cup ({task[q].comment} \ {None})
               t == [task[q] EXCEPT !.pc = "delete", !.listed = listed]
    <2>1. task[q] \in Tasks /\ Equipped(task[q]) /\ task[q].pc = "list"
      BY <1>0, <1>11 DEF TaskTypes, ListCascade
    <2>2. listed \subseteq Comments
      BY <1>0, <2>1, CascadeIsComments DEF Tasks
    <2>3. Goes(q, t)
      BY <1>11 DEF ListCascade
    <2> HIDE DEF listed
    <2>4. t \in Tasks /\ Equipped(t)
      BY <2>1, <2>2 DEF Tasks, Equipped
    <2> HIDE DEF t
    <2> QED
      BY <1>0, <2>3, <2>4, TaskFits
  <1>12. ASSUME NEW q \in Requests, Delete(q) PROVE TaskTypes'
    <2>1. CASE Done(q)
      BY <1>0, <2>1, DoneFits
    <2>2. CASE Goes(q, [task[q] EXCEPT !.pc = "sweep"])
      <3> DEFINE t == [task[q] EXCEPT !.pc = "sweep"]
      <3>1. task[q] \in Tasks
        BY <1>0 DEF TaskTypes
      <3>2. t \in Tasks /\ Equipped(t)
        BY <3>1 DEF Tasks, Equipped
      <3> HIDE DEF t
      <3> QED
        BY <1>0, <2>2, <3>2, TaskFits DEF t
    <2> QED
      BY <1>12, <2>1, <2>2 DEF Delete
  <1>13. ASSUME NEW q \in Requests,
                \/ AddComment(q) \/ Fulfil(q) \/ RequestOwner(q) \/ Reply(q) \/ Resolve(q)
                \/ React(q) \/ Sweep(q) \/ CutOff(q)
         PROVE  TaskTypes'
    <2>1. Done(q)
      BY <1>13 DEF AddComment, Fulfil, RequestOwner, Reply, Resolve, React, Sweep, CutOff
    <2> QED
      BY <1>0, <2>1, DoneFits
  <1>14. ASSUME (\E v \in Reviewers : Ask(v) \/ Withdraw(v)) \/ UNCHANGED reviewVars PROVE TaskTypes'
    <2>1. UNCHANGED task
      BY <1>14 DEF Ask, Withdraw, reviewVars
    <2> QED
      BY <1>0, <2>1 DEF TaskTypes, Equipped
  <1> QED
    BY <1>1, <1>2, <1>3, <1>4, <1>5, <1>6, <1>7, <1>8, <1>9, <1>10, <1>11, <1>12, <1>13, <1>14 DEF ReviewNext

LEMMA TablesStep == ReviewInv /\ [ReviewNext]_reviewVars => TableTypes'
  <1> SUFFICES ASSUME ReviewInv, [ReviewNext]_reviewVars PROVE TableTypes'
    OBVIOUS
  <1>0. TaskTypes /\ TableTypes
    BY DEF ReviewInv
  <1>1. ASSUME NEW q \in Requests,
               \/ \E v \in Reviewers : FindDraft(q, v) \/ FindOwner(q, v)
               \/ \E r \in Reviews : BeginSubmit(q, r) \/ BeginDiscard(q, r)
               \/ \E c \in Comments : FindRoot(q, c, "reply") \/ FindRoot(q, c, "resolve")
                                      \/ BeginReact(q, c) \/ BeginDelete(q, c)
               \/ ListCascade(q)
        PROVE  TableTypes'
    <2>1. UNCHANGED <<reviews, comments, resolved, reacted, asked, crashes, answered, missed, stray, used>>
      BY <1>1 DEF FindDraft, FindOwner, BeginSubmit, BeginDiscard, FindRoot, BeginReact, BeginDelete, ListCascade
    <2> QED
      BY <1>0, <2>1 DEF TableTypes
  <1>2. ASSUME NEW q \in Requests, CreateDraft(q) PROVE TableTypes'
    <2>1. task[q].user \in Reviewers
      BY <1>0, <1>2 DEF TaskTypes, CreateDraft, Equipped
    <2> QED
      BY <1>0, <1>2, <2>1 DEF CreateDraft, Free, TableTypes
  <1>3. ASSUME NEW q \in Requests, AddComment(q) PROVE TableTypes'
    <2>1. task[q].review \in Reviews
      BY <1>0, <1>3 DEF TaskTypes, AddComment, Equipped
    <2> QED
      BY <1>0, <1>3, <2>1 DEF AddComment, Free, TableTypes, CommentRows
  <1>4. ASSUME NEW q \in Requests, NEW v \in Reviewers, NEW state \in Verdicts \cup {"pending"},
               PostReview(q, v, state)
        PROVE  TableTypes'
    BY <1>0, <1>4 DEF PostReview, Answers, Free, TableTypes
  <1>5. ASSUME NEW q \in Requests, NEW verdict \in Verdicts, Submit(q, verdict) PROVE TableTypes'
    <2>1. task[q].review \in Reviews /\ task[q].user \in Reviewers
      BY <1>0, <1>5 DEF TaskTypes, Submit, Equipped
    <2>2. answered' \subseteq Reviewers
      BY <1>0, <1>5, <2>1 DEF Submit, Answers, TableTypes
    <2>3. reviews' \in [Reviews -> [by: Reviewers, state: Verdicts \cup {"pending"}] \cup {None}]
      <3>1. CASE reviews[task[q].review] = None
        BY <1>0, <1>5, <3>1 DEF Submit, TableTypes
      <3>2. CASE reviews[task[q].review] # None
        <4>1. reviews[task[q].review] \in [by: Reviewers, state: Verdicts \cup {"pending"}]
          BY <1>0, <2>1, <3>2 DEF TableTypes
        <4>2. reviews' = [reviews EXCEPT ![task[q].review].state = verdict]
          BY <1>5, <3>2 DEF Submit
        <4> QED
          BY <1>0, <2>1, <4>1, <4>2 DEF TableTypes
      <3> QED
        BY <3>1, <3>2
    <2> QED
      BY <1>0, <1>5, <2>2, <2>3 DEF Submit, TableTypes
  <1>6. ASSUME NEW q \in Requests, Fulfil(q) PROVE TableTypes'
    <2>1. task[q].user \in Reviewers
      BY <1>0, <1>6 DEF TaskTypes, Fulfil, Equipped
    <2> QED
      BY <1>0, <1>6, <2>1 DEF Fulfil, Fulfilled, TableTypes
  <1>7. ASSUME NEW q \in Requests, RequestOwner(q) PROVE TableTypes'
    BY <1>0, <1>7 DEF RequestOwner, TableTypes
  <1>8. ASSUME NEW q \in Requests, Reply(q) PROVE TableTypes'
    <2>1. task[q].review \in Reviews /\ task[q].comment \in Comments
      BY <1>0, <1>8 DEF TaskTypes, Reply, Equipped
    <2> QED
      BY <1>0, <1>8, <2>1 DEF Reply, Free, TableTypes, CommentRows
  <1>9. ASSUME NEW q \in Requests, Resolve(q) PROVE TableTypes'
    <2>1. task[q].comment \in Comments
      BY <1>0, <1>9 DEF TaskTypes, Resolve, Equipped
    <2> QED
      BY <1>0, <1>9, <2>1 DEF Resolve, TableTypes
  <1>10. ASSUME NEW q \in Requests, React(q) PROVE TableTypes'
    <2>1. task[q].comment \in Comments
      BY <1>0, <1>10 DEF TaskTypes, React, Equipped
    <2> QED
      BY <1>0, <1>10, <2>1 DEF React, TableTypes
  <1>11. ASSUME NEW q \in Requests, Delete(q) PROVE TableTypes'
    BY <1>0, <1>11 DEF Delete, TableTypes
  <1>12. ASSUME NEW q \in Requests, Sweep(q) PROVE TableTypes'
    BY <1>0, <1>12 DEF Sweep, TableTypes
  <1>13. ASSUME NEW q \in Requests, CutOff(q) PROVE TableTypes'
    <2>1. task[q] \in Tasks /\ Equipped(task[q])
      BY <1>0 DEF TaskTypes
    <2>2. missed' \subseteq Reviewers
      BY <1>0, <1>13, <2>1 DEF CutOff, Equipped, TableTypes
    <2>3. stray' \subseteq Comments
      BY <1>0, <1>13, <2>1 DEF CutOff, Tasks, TableTypes
    <2>4. crashes' \in 0..MaxFaults
      BY <1>0, <1>13, FaultBound DEF CutOff, TableTypes
    <2> QED
      BY <1>0, <1>13, <2>2, <2>3, <2>4 DEF CutOff, TableTypes
  <1>14. ASSUME NEW v \in Reviewers, Ask(v) \/ Withdraw(v) PROVE TableTypes'
    BY <1>0, <1>14 DEF Ask, Withdraw, TableTypes
  <1>15. CASE UNCHANGED reviewVars
    BY <1>0, <1>15 DEF reviewVars, TableTypes
  <1> QED
    BY <1>1, <1>2, <1>3, <1>4, <1>5, <1>6, <1>7, <1>8, <1>9, <1>10, <1>11, <1>12, <1>13, <1>14, <1>15
       DEF ReviewNext

-----------------------------------------------------------------------------
(***************************************************************************)
(* Where tasks come from and go to                                         *)
(***************************************************************************)
Quiet == {"new", "create", "add", "submit", "list", "delete", "react", "own", "done"}
Places == Quiet \cup {"fulfil", "sweep", "reply", "resolve"}
Passes(q, from, to) ==
  /\ task[q].pc \in from /\ task'[q].pc \in to
  /\ \A p \in Requests : p # q => task'[p] = task[p]

LEMMA DonePasses ==
  ASSUME TaskTypes, NEW q \in Requests, Done(q)
  PROVE  task'[q].pc = "done" /\ \A p \in Requests : p # q => task'[p] = task[p]
  BY TaskMoves, IdlingFits DEF Done

LEMMA GoesPasses ==
  ASSUME TaskTypes, NEW q \in Requests, NEW t, Goes(q, t)
  PROVE  task'[q].pc = t.pc /\ \A p \in Requests : p # q => task'[p] = task[p]
  BY TaskMoves

LEMMA QuietPasses ==
  ASSUME TaskTypes, NEW q \in Requests,
         \/ \E v \in Reviewers : FindDraft(q, v) \/ FindOwner(q, v)
         \/ \E r \in Reviews : BeginSubmit(q, r) \/ BeginDiscard(q, r)
         \/ \E c \in Comments : BeginReact(q, c) \/ BeginDelete(q, c)
         \/ ListCascade(q) \/ CreateDraft(q) \/ AddComment(q) \/ RequestOwner(q) \/ React(q)
  PROVE  Passes(q, Quiet, Quiet)
  <1>0. task[q] \in Tasks
    BY DEF TaskTypes
  <1>1. task[q].pc \in Quiet
    BY DEF FindDraft, FindOwner, BeginSubmit, BeginDiscard, BeginReact, BeginDelete, ListCascade, CreateDraft,
           AddComment, RequestOwner, React, Quiet
  <1>2. ASSUME AddComment(q) \/ RequestOwner(q) \/ React(q)
        PROVE  task'[q].pc \in Quiet /\ \A p \in Requests : p # q => task'[p] = task[p]
    BY <1>2, DonePasses DEF AddComment, RequestOwner, React, Quiet
  <1> DEFINE Calls == task'[q].pc \in Quiet /\ \A p \in Requests : p # q => task'[p] = task[p]
  <1>3. ASSUME ListCascade(q) PROVE Calls
    <2> DEFINE t == [task[q] EXCEPT !.pc = "delete",
                              !.listed = Cascade(task[q]) \cup ({task[q].comment} \ {None})]
    <2>1. t.pc = "delete"
      BY <1>0 DEF Tasks
    <2>2. Goes(q, t)
      BY <1>3 DEF ListCascade
    <2> HIDE DEF t
    <2> QED
      BY <2>1, <2>2, GoesPasses DEF Quiet
  <1>4. ASSUME CreateDraft(q) PROVE Calls
    <2>1. PICK r : Goes(q, [task[q] EXCEPT !.pc = "add", !.review = r])
      BY <1>4 DEF CreateDraft
    <2> DEFINE t == [task[q] EXCEPT !.pc = "add", !.review = r]
    <2>2. t.pc = "add"
      BY <1>0 DEF Tasks
    <2>3. Goes(q, t)
      BY <2>1
    <2> HIDE DEF t
    <2> QED
      BY <2>2, <2>3, GoesPasses DEF Quiet
  <1>5. ASSUME NEW v \in Reviewers, FindDraft(q, v) PROVE Calls
    <2>1. PICK t : Goes(q, t) /\ (t = [Idling EXCEPT !.pc = "create", !.user = v]
                                 \/ \E r : t = [Idling EXCEPT !.pc = "add", !.user = v, !.review = r])
      BY <1>5 DEF FindDraft
    <2>2. t.pc \in Quiet
      BY <2>1 DEF Idling, Quiet
    <2> QED
      BY <2>1, <2>2, GoesPasses
  <1>6. ASSUME NEW v \in Reviewers, FindOwner(q, v) PROVE Calls
    <2> DEFINE t == [Idling EXCEPT !.pc = "own", !.user = v]
    <2>1. t.pc = "own"
      BY DEF Idling
    <2>2. Goes(q, t)
      BY <1>6 DEF FindOwner
    <2> HIDE DEF t
    <2> QED
      BY <2>1, <2>2, GoesPasses DEF Quiet
  <1>7. ASSUME NEW r \in Reviews, BeginSubmit(q, r) PROVE Calls
    <2> DEFINE t == [Idling EXCEPT !.pc = "submit", !.user = reviews[r].by, !.review = r]
    <2>1. t.pc = "submit"
      BY DEF Idling
    <2>2. Goes(q, t)
      BY <1>7 DEF BeginSubmit
    <2> HIDE DEF t
    <2> QED
      BY <2>1, <2>2, GoesPasses DEF Quiet
  <1>8. ASSUME NEW r \in Reviews, BeginDiscard(q, r) PROVE Calls
    <2> DEFINE t == [Idling EXCEPT !.pc = "list", !.review = r]
    <2>1. t.pc = "list"
      BY DEF Idling
    <2>2. Goes(q, t)
      BY <1>8 DEF BeginDiscard
    <2> HIDE DEF t
    <2> QED
      BY <2>1, <2>2, GoesPasses DEF Quiet
  <1>9. ASSUME NEW c \in Comments, BeginReact(q, c) PROVE Calls
    <2> DEFINE t == [Idling EXCEPT !.pc = "react", !.comment = c]
    <2>1. t.pc = "react"
      BY DEF Idling
    <2>2. Goes(q, t)
      BY <1>9 DEF BeginReact
    <2> HIDE DEF t
    <2> QED
      BY <2>1, <2>2, GoesPasses DEF Quiet
  <1>10. ASSUME NEW c \in Comments, BeginDelete(q, c) PROVE Calls
    <2> DEFINE t == [Idling EXCEPT !.pc = "list", !.comment = c]
    <2>1. t.pc = "list"
      BY DEF Idling
    <2>2. Goes(q, t)
      BY <1>10 DEF BeginDelete
    <2> HIDE DEF t
    <2> QED
      BY <2>1, <2>2, GoesPasses DEF Quiet
  <1> QED
    BY <1>1, <1>2, <1>3, <1>4, <1>5, <1>6, <1>7, <1>8, <1>9, <1>10 DEF Passes

LEMMA OtherPasses ==
  ASSUME TaskTypes, NEW q \in Requests
  PROVE  /\ \A v \in Reviewers : \A state : PostReview(q, v, state) => Passes(q, Quiet, Quiet \cup {"fulfil"})
         /\ \A verdict : Submit(q, verdict) => Passes(q, Quiet, Quiet \cup {"fulfil"})
         /\ Fulfil(q) => Passes(q, {"fulfil"}, {"done"})
         /\ \A c, what : FindRoot(q, c, what) => Passes(q, Quiet, {what})
         /\ Reply(q) \/ Resolve(q) => Passes(q, {"reply", "resolve"}, Quiet)
         /\ Delete(q) => Passes(q, {"delete"}, {"done", "sweep"})
         /\ Sweep(q) => Passes(q, {"sweep"}, {"done"})
         /\ CutOff(q) => Passes(q, Places, {"done"})
  <1>0. task[q] \in Tasks
    BY DEF TaskTypes
  <1>1. ASSUME NEW v \in Reviewers, NEW state, PostReview(q, v, state) PROVE Passes(q, Quiet, Quiet \cup {"fulfil"})
    <2>1. CASE Done(q)
      BY <1>1, <2>1, DonePasses DEF PostReview, Passes, Quiet
    <2>2. CASE Goes(q, [Idling EXCEPT !.pc = "fulfil", !.user = v])
      <3>1. [Idling EXCEPT !.pc = "fulfil", !.user = v].pc = "fulfil"
        BY DEF Idling
      <3> QED
        BY <1>1, <2>2, <3>1, GoesPasses DEF PostReview, Passes, Quiet
    <2> QED
      BY <1>1, <2>1, <2>2 DEF PostReview
  <1>2. ASSUME NEW verdict, Submit(q, verdict) PROVE Passes(q, Quiet, Quiet \cup {"fulfil"})
    <2>1. CASE Done(q)
      BY <1>2, <2>1, DonePasses DEF Submit, Passes, Quiet
    <2>2. CASE Goes(q, [task[q] EXCEPT !.pc = "fulfil", !.review = None])
      <3>1. [task[q] EXCEPT !.pc = "fulfil", !.review = None].pc = "fulfil"
        BY <1>0 DEF Tasks
      <3> QED
        BY <1>2, <2>2, <3>1, GoesPasses DEF Submit, Passes, Quiet
    <2> QED
      BY <1>2, <2>1, <2>2 DEF Submit
  <1>3. Fulfil(q) => Passes(q, {"fulfil"}, {"done"})
    BY DonePasses DEF Fulfil, Passes
  <1>4. ASSUME NEW c, NEW what, FindRoot(q, c, what) PROVE Passes(q, Quiet, {what})
    <2> DEFINE t == [Idling EXCEPT !.pc = what, !.comment = RootOf(c), !.review = comments[RootOf(c)].review]
    <2>1. t.pc = what
      BY DEF Idling
    <2>2. Goes(q, t) /\ task[q].pc = "new"
      BY <1>4 DEF FindRoot
    <2> HIDE DEF t
    <2> QED
      BY <2>1, <2>2, GoesPasses DEF Passes, Quiet
  <1>5. Reply(q) \/ Resolve(q) => Passes(q, {"reply", "resolve"}, Quiet)
    BY DonePasses DEF Reply, Resolve, Passes, Quiet
  <1>6. ASSUME Delete(q) PROVE Passes(q, {"delete"}, {"done", "sweep"})
    <2>1. CASE Done(q)
      BY <1>6, <2>1, DonePasses DEF Delete, Passes
    <2>2. CASE Goes(q, [task[q] EXCEPT !.pc = "sweep"])
      <3>1. [task[q] EXCEPT !.pc = "sweep"].pc = "sweep"
        BY <1>0 DEF Tasks
      <3> QED
        BY <1>6, <2>2, <3>1, GoesPasses DEF Delete, Passes
    <2> QED
      BY <1>6, <2>1, <2>2 DEF Delete
  <1>7. Sweep(q) => Passes(q, {"sweep"}, {"done"})
    BY DonePasses DEF Sweep, Passes
  <1>8. CutOff(q) => Passes(q, Places, {"done"})
    BY <1>0, DonePasses DEF CutOff, Passes, Tasks, Places, Quiet
  <1> QED
    BY <1>1, <1>2, <1>3, <1>4, <1>5, <1>6, <1>7, <1>8

-----------------------------------------------------------------------------
(***************************************************************************)
(* Threads                                                                 *)
(***************************************************************************)
Threads == IdsAreUsed /\ RootsKept /\ ThreadsAreFlat

\* A step that leaves the comments alone, and no task where it relies on one.
LEMMA CommentsAlone ==
  ASSUME Threads, UNCHANGED <<comments, resolved>>, used \subseteq used',
         \A p \in Requests : task'[p].pc \in {"reply", "resolve"} => task'[p] = task[p]
  PROVE  Threads'
  <1>1. IdsAreUsed'
    BY DEF Threads, IdsAreUsed
  <1>2. ThreadsAreFlat'
    BY DEF Threads, ThreadsAreFlat, Rows
  <1>3. ASSUME NEW p \in Requests PROVE RootKept(task[p])'
    BY <1>3 DEF Threads, RootsKept, RootKept
  <1> QED
    BY <1>1, <1>2, <1>3 DEF Threads, RootsKept

\* A new comment takes an id that nobody refers to.
LEMMA CommentAdded ==
  ASSUME Threads, TableTypes, NEW c \in Comments, c \notin used, NEW row,
         comments' = [comments EXCEPT ![c] = row], used' = used \cup {c}, UNCHANGED resolved,
         row.root # None => /\ row.root \in Comments /\ comments[row.root] # None
                            /\ comments[row.root].root = None
                            /\ comments[row.root].review = row.review,
         \A p \in Requests : task'[p].pc \in {"reply", "resolve"} => task'[p] = task[p]
  PROVE  Threads'
  <1>1. comments[c] = None /\ c \notin resolved
    BY DEF Threads, IdsAreUsed, ThreadsAreFlat, TableTypes
  <1>2. comments'[c] = row /\ \A d \in Comments : d # c => comments'[d] = comments[d]
    BY DEF TableTypes
  <1>3. IdsAreUsed'
    BY <1>2 DEF Threads, IdsAreUsed
  <1>4. ASSUME NEW p \in Requests PROVE RootKept(task[p])'
    <2>1. CASE task'[p].pc \in {"reply", "resolve"}
      <3>1. task'[p] = task[p] /\ RootKept(task[p])
        BY <2>1 DEF Threads, RootsKept
      <3>2. task[p].comment \in used /\ task[p].comment # c
        BY <2>1, <3>1 DEF RootKept
      <3>3. comments'[task[p].comment] = comments[task[p].comment]
        BY <3>2
      <3> QED
        BY <3>1, <3>2, <3>3 DEF RootKept
    <2>2. CASE task'[p].pc \notin {"reply", "resolve"}
      BY <2>2 DEF RootKept
    <2> QED
      BY <2>1, <2>2
  <1>5. ThreadsAreFlat'
    <2>1. ASSUME NEW d \in Comments, comments'[d] # None, comments'[d].root # None
          PROVE  /\ comments'[comments'[d].root] # None
                 /\ comments'[comments'[d].root].root = None
                 /\ comments'[comments'[d].root].review = comments'[d].review
      <3>1. CASE d = c
        BY <1>1, <1>2, <2>1, <3>1
      <3>2. CASE d # c
        <4>1. comments'[d] = comments[d] /\ comments[d] \in CommentRows
          BY <1>2, <2>1, <3>2 DEF TableTypes
        <4>2. /\ comments[comments[d].root] # None
              /\ comments[comments[d].root].root = None
              /\ comments[comments[d].root].review = comments[d].review
          BY <2>1, <4>1 DEF Threads, ThreadsAreFlat, Rows
        <4>3. comments[d].root \in Comments /\ comments[d].root # c
          BY <1>1, <2>1, <4>1, <4>2 DEF CommentRows
        <4> QED
          BY <1>2, <4>1, <4>2, <4>3
      <3> QED
        BY <3>1, <3>2
    <2>2. ASSUME NEW d \in resolved' PROVE comments'[d] # None /\ comments'[d].root = None
      BY <1>1, <1>2, <2>2 DEF Threads, ThreadsAreFlat, TableTypes
    <2> QED
      BY <2>1, <2>2 DEF ThreadsAreFlat, Rows
  <1> QED
    BY <1>3, <1>4, <1>5 DEF Threads, RootsKept

LEMMA CascadeTakesThreads ==
  ASSUME Threads, TableTypes, NEW t \in Tasks, Equipped(t), t.pc = "delete",
         NEW d \in Comments, comments[d] # None, comments[d].root # None, d \notin Cascade(t)
  PROVE  comments[d].root \in Comments \ Cascade(t)
  <1>1. comments[d] \in CommentRows /\ comments[d].root \in Comments
    BY DEF TableTypes, CommentRows
  <1>2. comments[comments[d].root].review = comments[d].review /\ comments[comments[d].root].root = None
    BY DEF Threads, ThreadsAreFlat, Rows
  <1>3. CASE t.comment = None
    BY <1>1, <1>2, <1>3 DEF Cascade, InReview, Rows
  <1>4. CASE t.comment # None
    BY <1>1, <1>2, <1>4 DEF Cascade, Replies, Rows
  <1> QED
    BY <1>3, <1>4

LEMMA DeleteKeepsThreads ==
  ASSUME ReviewInv, NEW q \in Requests, Delete(q)
  PROVE  Threads'
  <1> DEFINE gone == Cascade(task[q])
  <1>0. Threads /\ TableTypes /\ TaskTypes /\ task[q] \in Tasks /\ Equipped(task[q]) /\ task[q].pc = "delete"
    BY DEF ReviewInv, Threads, TaskTypes, Delete
  <1>1. \A p \in Requests : task'[p].pc \in {"reply", "resolve"} => task'[p] = task[p]
    BY <1>0, OtherPasses DEF Passes
  <1>2. UNCHANGED used
    BY DEF Delete
  <1>3. CASE UNCHANGED <<comments, resolved>>
    BY <1>0, <1>1, <1>2, <1>3, CommentsAlone
  <1>4. CASE comments' = [c \in Comments |-> IF c \in gone THEN None ELSE comments[c]] /\ resolved' = resolved \ gone
    <2> HIDE DEF gone
    <2>0. \A c \in Comments : comments'[c] # None => comments'[c] = comments[c] /\ c \notin gone
      BY <1>4
    <2>1. IdsAreUsed'
      BY <1>0, <1>2, <2>0 DEF Threads, IdsAreUsed
    <2>2. ASSUME NEW p \in Requests PROVE RootKept(task[p])'
      <3>1. CASE task'[p].pc \in {"reply", "resolve"}
        <4>1. task'[p] = task[p] /\ RootKept(task[p]) /\ task'[p].comment \in Comments
          BY <1>0, <1>1, <3>1 DEF Threads, RootsKept, TaskTypes, Equipped
        <4> QED
          BY <1>2, <2>0, <3>1, <4>1 DEF RootKept
      <3>2. CASE task'[p].pc \notin {"reply", "resolve"}
        BY <3>2 DEF RootKept
      <3> QED
        BY <3>1, <3>2
    <2>3. ASSUME NEW d \in Comments, comments'[d] # None, comments'[d].root # None
          PROVE  /\ comments'[comments'[d].root] # None
                 /\ comments'[comments'[d].root].root = None
                 /\ comments'[comments'[d].root].review = comments'[d].review
      <3>1. comments'[d] = comments[d] /\ d \notin gone
        BY <2>0, <2>3
      <3>2. comments[d].root \in Comments \ gone
        BY <1>0, <2>3, <3>1, CascadeTakesThreads DEF gone
      <3>3. comments'[comments[d].root] = comments[comments[d].root]
        BY <1>4, <3>2
      <3> QED
        BY <1>0, <2>3, <3>1, <3>3 DEF Threads, ThreadsAreFlat, Rows
    <2>4. ASSUME NEW d \in resolved' PROVE comments'[d] # None /\ comments'[d].root = None
      <3>1. d \in resolved /\ d \in Comments /\ d \notin gone
        BY <1>0, <1>4, <2>4 DEF TableTypes
      <3>2. comments'[d] = comments[d]
        BY <1>4, <3>1
      <3> QED
        BY <1>0, <3>1, <3>2 DEF Threads, ThreadsAreFlat
    <2> QED
      BY <2>1, <2>2, <2>3, <2>4 DEF Threads, RootsKept, ThreadsAreFlat, Rows
  <1> QED
    BY <1>3, <1>4 DEF Delete

LEMMA ThreadsStep == ReviewInv /\ [ReviewNext]_reviewVars => Threads'
  <1> SUFFICES ASSUME ReviewInv, [ReviewNext]_reviewVars PROVE Threads'
    OBVIOUS
  <1>0. Threads /\ TableTypes /\ TaskTypes
    BY DEF ReviewInv, Threads
  <1>1. ASSUME NEW q \in Requests,
               \/ \E v \in Reviewers : FindDraft(q, v) \/ FindOwner(q, v)
               \/ \E r \in Reviews : BeginSubmit(q, r) \/ BeginDiscard(q, r)
               \/ \E c \in Comments : BeginReact(q, c) \/ BeginDelete(q, c)
               \/ ListCascade(q) \/ CreateDraft(q) \/ RequestOwner(q) \/ React(q)
        PROVE  Threads'
    <2>1. UNCHANGED <<comments, resolved>> /\ used \subseteq used'
      BY <1>1 DEF FindDraft, FindOwner, BeginSubmit, BeginDiscard, BeginReact, BeginDelete, ListCascade,
                  CreateDraft, RequestOwner, React
    <2>2. Passes(q, Quiet, Quiet)
      BY <1>0, <1>1, QuietPasses
    <2> QED
      BY <1>0, <2>1, <2>2, CommentsAlone DEF Passes, Quiet
  <1>2. ASSUME NEW q \in Requests,
               \/ \E v \in Reviewers, state \in Verdicts \cup {"pending"} : PostReview(q, v, state)
               \/ \E verdict \in Verdicts : Submit(q, verdict)
               \/ Fulfil(q) \/ Sweep(q) \/ CutOff(q)
        PROVE  Threads'
    <2>1. UNCHANGED <<comments, resolved>> /\ used \subseteq used'
      BY <1>2 DEF PostReview, Submit, Fulfil, Sweep, CutOff
    <2>2. task'[q].pc \notin {"reply", "resolve"} /\ \A p \in Requests : p # q => task'[p] = task[p]
      BY <1>0, <1>2, OtherPasses DEF Passes, Quiet
    <2> QED
      BY <1>0, <2>1, <2>2, CommentsAlone
  <1>3. ASSUME NEW q \in Requests, AddComment(q) PROVE Threads'
    <2>1. \A p \in Requests : task'[p].pc \in {"reply", "resolve"} => task'[p] = task[p]
      BY <1>0, <1>3, QuietPasses DEF Passes, Quiet
    <2>2. UNCHANGED resolved
      BY <1>3 DEF AddComment
    <2>3. CASE UNCHANGED <<comments, used>>
      BY <1>0, <2>1, <2>2, <2>3, CommentsAlone
    <2>4. ASSUME NEW c \in Free(Comments),
                 comments' = [comments EXCEPT ![c] = [review |-> task[q].review, root |-> None]],
                 used' = used \cup {c}
          PROVE  Threads'
      <3>1. c \in Comments /\ c \notin used
        BY DEF Free
      <3> QED
        BY <1>0, <2>1, <2>2, <2>4, <3>1, CommentAdded
    <2> QED
      BY <1>3, <2>3, <2>4 DEF AddComment
  <1>4. ASSUME NEW q \in Requests, Reply(q) PROVE Threads'
    <2>1. \A p \in Requests : task'[p].pc \in {"reply", "resolve"} => task'[p] = task[p]
      BY <1>0, <1>4, OtherPasses DEF Passes, Quiet
    <2>2. UNCHANGED resolved
      BY <1>4 DEF Reply
    <2>3. CASE UNCHANGED <<comments, used>>
      BY <1>0, <2>1, <2>2, <2>3, CommentsAlone
    <2>4. ASSUME NEW c \in Free(Comments), comments[task[q].comment] # None,
                 comments' = [comments EXCEPT ![c] = [review |-> task[q].review, root |-> task[q].comment]],
                 used' = used \cup {c}
          PROVE  Threads'
      <3>1. c \in Comments /\ c \notin used
        BY DEF Free
      <3>2. task[q].comment \in Comments /\ comments[task[q].comment] = [review |-> task[q].review, root |-> None]
        BY <1>0, <1>4, <2>4 DEF Threads, RootsKept, RootKept, TaskTypes, Equipped, Reply
      <3> DEFINE row == [review |-> task[q].review, root |-> task[q].comment]
      <3>3. /\ row.root = task[q].comment /\ row.review = task[q].review
            /\ comments[task[q].comment].root = None /\ comments[task[q].comment].review = task[q].review
        BY <3>2
      <3>4. comments' = [comments EXCEPT ![c] = row]
        BY <2>4
      <3> HIDE DEF row
      <3> QED
        BY <1>0, <2>1, <2>2, <2>4, <3>1, <3>2, <3>3, <3>4, CommentAdded
    <2> QED
      BY <1>4, <2>3, <2>4 DEF Reply
  <1>5. ASSUME NEW q \in Requests, Resolve(q) PROVE Threads'
    <2>1. \A p \in Requests : task'[p].pc \in {"reply", "resolve"} => task'[p] = task[p]
      BY <1>0, <1>5, OtherPasses DEF Passes, Quiet
    <2>2. UNCHANGED <<comments, used>>
      BY <1>5 DEF Resolve
    <2>3. ASSUME NEW d \in resolved' PROVE comments[d] # None /\ comments[d].root = None
      <3>1. d \in resolved \/ (d = task[q].comment /\ comments[d] # None)
        BY <1>5, <2>3 DEF Resolve
      <3>2. comments[task[q].comment] # None => comments[task[q].comment].root = None
        <4>1. RootKept(task[q]) /\ task[q].pc = "resolve"
          BY <1>0, <1>5 DEF Threads, RootsKept, Resolve
        <4>2. comments[task[q].comment] # None
              => comments[task[q].comment] = [review |-> task[q].review, root |-> None]
          BY <4>1 DEF RootKept
        <4> QED
          BY <4>2
      <3> QED
        BY <1>0, <3>1, <3>2 DEF Threads, ThreadsAreFlat
    <2>4. ThreadsAreFlat'
      BY <1>0, <2>2, <2>3 DEF Threads, ThreadsAreFlat, Rows
    <2>5. ASSUME NEW p \in Requests PROVE RootKept(task[p])'
      BY <1>0, <2>1, <2>2 DEF Threads, RootsKept, RootKept
    <2>6. IdsAreUsed'
      BY <1>0, <2>2 DEF Threads, IdsAreUsed
    <2> QED
      BY <2>4, <2>5, <2>6 DEF Threads, RootsKept
  <1>6. ASSUME NEW q \in Requests, NEW c \in Comments, NEW what \in {"reply", "resolve"}, FindRoot(q, c, what)
        PROVE  Threads'
    <2> DEFINE t == [Idling EXCEPT !.pc = what, !.comment = RootOf(c), !.review = comments[RootOf(c)].review]
    <2>1. /\ RootOf(c) \in Comments /\ comments[RootOf(c)] # None
          /\ comments[RootOf(c)] = [review |-> comments[RootOf(c)].review, root |-> None]
      BY <1>0, <1>6, RootOfIsComment DEF FindRoot, Threads
    <2>2. RootOf(c) \in used
      BY <1>0, <2>1 DEF Threads, IdsAreUsed
    <2>3. t.comment = RootOf(c) /\ t.review = comments[RootOf(c)].review
      BY DEF Idling
    <2>4. UNCHANGED <<comments, resolved, used>> /\ Goes(q, t)
      BY <1>6 DEF FindRoot
    <2> HIDE DEF t
    <2>5. task'[q] = t /\ \A p \in Requests : p # q => task'[p] = task[p]
      BY <1>0, <2>4, TaskMoves
    <2>6. ASSUME NEW p \in Requests PROVE RootKept(task[p])'
      <3>1. CASE p = q
        BY <2>1, <2>2, <2>3, <2>4, <2>5, <3>1 DEF RootKept
      <3>2. CASE p # q
        BY <1>0, <2>4, <2>5, <3>2 DEF Threads, RootsKept, RootKept
      <3> QED
        BY <3>1, <3>2
    <2>7. ThreadsAreFlat' /\ IdsAreUsed'
      BY <1>0, <2>4 DEF Threads, ThreadsAreFlat, Rows, IdsAreUsed
    <2> QED
      BY <2>6, <2>7 DEF Threads, RootsKept
  <1>7. ASSUME (\E v \in Reviewers : Ask(v) \/ Withdraw(v)) \/ UNCHANGED reviewVars PROVE Threads'
    <2>1. UNCHANGED <<comments, resolved, used, task>>
      BY <1>7 DEF Ask, Withdraw, reviewVars
    <2> QED
      BY <1>0, <2>1, CommentsAlone
  <1> QED
    BY <1>1, <1>2, <1>3, <1>4, <1>5, <1>6, <1>7, DeleteKeepsThreads DEF ReviewNext

-----------------------------------------------------------------------------
(***************************************************************************)
(* Reactions                                                               *)
(***************************************************************************)
\* A step that takes no comment away, and no sweep.
LEMMA ReactionsAlone ==
  ASSUME ReactionsFollow, TableTypes, UNCHANGED reacted, stray \subseteq stray',
         \A c \in Comments : comments[c] # None => comments'[c] # None,
         \A p \in Requests : task[p].pc = "sweep" => task'[p] = task[p]
  PROVE  ReactionsFollow'
  <1> SUFFICES ASSUME NEW c \in reacted' \ stray' PROVE comments'[c] # None \/ Sweeping(c)'
    BY DEF ReactionsFollow
  <1>1. c \in reacted \ stray /\ c \in Comments
    BY DEF TableTypes
  <1>2. CASE comments[c] # None
    BY <1>1, <1>2
  <1>3. CASE Sweeping(c)
    BY <1>3 DEF Sweeping
  <1> QED
    BY <1>1, <1>2, <1>3 DEF ReactionsFollow

LEMMA DeleteKeepsReactions ==
  ASSUME ReviewInv, NEW q \in Requests, Delete(q)
  PROVE  ReactionsFollow'
  <1> DEFINE gone == Cascade(task[q])
  <1>0. TableTypes /\ TaskTypes /\ ReactionsFollow /\ task[q] \in Tasks /\ task[q].pc = "delete"
    BY DEF ReviewInv, TaskTypes, Delete
  <1>1. \A p \in Requests : task[p].pc = "sweep" => task'[p] = task[p]
    BY <1>0, OtherPasses DEF Passes
  <1>2. UNCHANGED reacted
    BY DEF Delete
  <1>3. CASE UNCHANGED <<comments, stray>>
    BY <1>0, <1>1, <1>2, <1>3, ReactionsAlone
  <1>4. CASE /\ comments' = [c \in Comments |-> IF c \in gone THEN None ELSE comments[c]]
             /\ stray' = stray \cup ((gone \cap reacted) \ task[q].listed)
             /\ Goes(q, [task[q] EXCEPT !.pc = "sweep"])
    <2> DEFINE t == [task[q] EXCEPT !.pc = "sweep"]
    <2>1. t.pc = "sweep" /\ t.listed = task[q].listed
      BY <1>0 DEF Tasks
    <2>2. Goes(q, t)
      BY <1>4
    <2> HIDE DEF t
    <2>3. task'[q] = t
      BY <1>0, <2>2, TaskMoves
    <2> SUFFICES ASSUME NEW c \in reacted' \ stray' PROVE comments'[c] # None \/ Sweeping(c)'
      BY DEF ReactionsFollow
    <2>4. c \in Comments /\ c \in reacted \ stray
      BY <1>0, <1>2, <1>4 DEF TableTypes
    <2>5. CASE c \in gone
      <3>1. c \in task[q].listed
        BY <1>4, <2>4, <2>5
      <3> QED
        BY <2>1, <2>3, <3>1 DEF Sweeping
    <2>6. CASE c \notin gone /\ comments[c] # None
      BY <1>4, <2>4, <2>6
    <2>7. CASE Sweeping(c)
      BY <1>1, <2>7 DEF Sweeping
    <2> HIDE DEF gone
    <2> QED
      BY <1>0, <2>4, <2>5, <2>6, <2>7 DEF ReactionsFollow
  <1> QED
    BY <1>3, <1>4 DEF Delete

LEMMA ReactionsStep == ReviewInv /\ [ReviewNext]_reviewVars => ReactionsFollow'
  <1> SUFFICES ASSUME ReviewInv, [ReviewNext]_reviewVars PROVE ReactionsFollow'
    OBVIOUS
  <1>0. ReactionsFollow /\ TableTypes /\ TaskTypes /\ IdsAreUsed
    BY DEF ReviewInv
  <1>1. ASSUME NEW q \in Requests,
               \/ \E v \in Reviewers : FindDraft(q, v) \/ FindOwner(q, v)
               \/ \E r \in Reviews : BeginSubmit(q, r) \/ BeginDiscard(q, r)
               \/ \E c \in Comments : BeginReact(q, c) \/ BeginDelete(q, c)
               \/ ListCascade(q) \/ CreateDraft(q) \/ RequestOwner(q)
        PROVE  ReactionsFollow'
    <2>1. UNCHANGED <<comments, reacted, stray>>
      BY <1>1 DEF FindDraft, FindOwner, BeginSubmit, BeginDiscard, BeginReact, BeginDelete, ListCascade,
                  CreateDraft, RequestOwner
    <2>2. Passes(q, Quiet, Quiet)
      BY <1>0, <1>1, QuietPasses
    <2> QED
      BY <1>0, <2>1, <2>2, ReactionsAlone DEF Passes, Quiet
  <1>2. ASSUME NEW q \in Requests,
               \/ \E v \in Reviewers, state \in Verdicts \cup {"pending"} : PostReview(q, v, state)
               \/ \E verdict \in Verdicts : Submit(q, verdict)
               \/ Fulfil(q) \/ Resolve(q)
               \/ \E c \in Comments : FindRoot(q, c, "reply") \/ FindRoot(q, c, "resolve")
        PROVE  ReactionsFollow'
    <2>1. UNCHANGED <<comments, reacted, stray>>
      BY <1>2 DEF PostReview, Submit, Fulfil, Resolve, FindRoot
    <2>2. task[q].pc # "sweep" /\ \A p \in Requests : p # q => task'[p] = task[p]
      BY <1>0, <1>2, OtherPasses DEF Passes, Quiet
    <2> QED
      BY <1>0, <2>1, <2>2, ReactionsAlone
  <1>3. ASSUME NEW q \in Requests, AddComment(q) \/ Reply(q) PROVE ReactionsFollow'
    <2>1. \A p \in Requests : task[p].pc = "sweep" => task'[p] = task[p]
      BY <1>0, <1>3, QuietPasses, OtherPasses DEF Passes, Quiet
    <2>2. UNCHANGED <<reacted, stray>>
      BY <1>3 DEF AddComment, Reply
    <2>3. \A c \in Comments : comments[c] # None => comments'[c] # None
      <3>1. UNCHANGED comments \/ \E d \in Free(Comments) : \E row : comments' = [comments EXCEPT ![d] = row]
        BY <1>3 DEF AddComment, Reply
      <3> QED
        BY <1>0, <3>1 DEF Free, IdsAreUsed, TableTypes
    <2> QED
      BY <1>0, <2>1, <2>2, <2>3, ReactionsAlone
  <1>4. ASSUME NEW q \in Requests, React(q) PROVE ReactionsFollow'
    <2>1. \A p \in Requests : task[p].pc = "sweep" => task'[p] = task[p]
      BY <1>0, <1>4, QuietPasses DEF Passes, Quiet
    <2> SUFFICES ASSUME NEW c \in reacted' \ stray' PROVE comments'[c] # None \/ Sweeping(c)'
      BY DEF ReactionsFollow
    <2>2. c \in reacted \ stray \/ comments[c] # None
      BY <1>4 DEF React
    <2>3. UNCHANGED comments
      BY <1>4 DEF React
    <2> QED
      BY <1>0, <2>1, <2>2, <2>3 DEF ReactionsFollow, Sweeping
  <1>5. ASSUME NEW q \in Requests, Sweep(q) PROVE ReactionsFollow'
    <2>1. \A p \in Requests : p # q => task'[p] = task[p]
      BY <1>0, <1>5, OtherPasses DEF Passes
    <2> SUFFICES ASSUME NEW c \in reacted' \ stray' PROVE comments'[c] # None \/ Sweeping(c)'
      BY DEF ReactionsFollow
    <2>2. c \in reacted \ stray /\ c \notin task[q].listed /\ UNCHANGED comments
      BY <1>5 DEF Sweep
    <2> QED
      BY <1>0, <2>1, <2>2 DEF ReactionsFollow, Sweeping
  <1>6. ASSUME NEW q \in Requests, CutOff(q) PROVE ReactionsFollow'
    <2>1. \A p \in Requests : p # q => task'[p] = task[p]
      BY <1>0, <1>6, OtherPasses DEF Passes
    <2> SUFFICES ASSUME NEW c \in reacted' \ stray' PROVE comments'[c] # None \/ Sweeping(c)'
      BY DEF ReactionsFollow
    <2>2. c \in reacted \ stray /\ (task[q].pc = "sweep" => c \notin task[q].listed) /\ UNCHANGED comments
      BY <1>6 DEF CutOff
    <2> QED
      BY <1>0, <2>1, <2>2 DEF ReactionsFollow, Sweeping
  <1>7. ASSUME (\E v \in Reviewers : Ask(v) \/ Withdraw(v)) \/ UNCHANGED reviewVars PROVE ReactionsFollow'
    <2>1. UNCHANGED <<comments, reacted, stray, task>>
      BY <1>7 DEF Ask, Withdraw, reviewVars
    <2> QED
      BY <1>0, <2>1, ReactionsAlone
  <1> QED
    BY <1>1, <1>2, <1>3, <1>4, <1>5, <1>6, <1>7, DeleteKeepsReactions DEF ReviewNext

-----------------------------------------------------------------------------
(***************************************************************************)
(* Requests for a review                                                   *)
(***************************************************************************)
LEMMA RequestsAlone ==
  ASSUME RequestsFollow, UNCHANGED <<asked, answered>>, missed \subseteq missed',
         \A p \in Requests : task[p].pc = "fulfil" => task'[p] = task[p]
  PROVE  RequestsFollow'
  BY DEF RequestsFollow, Fulfilling

\* A review is submitted, and what it answers is about to be fulfilled.
LEMMA RequestsAnswered ==
  ASSUME RequestsFollow, NEW q \in Requests, NEW v, answered' = answered \cup {v},
         UNCHANGED <<asked, missed>>,
         task'[q].pc = "fulfil", task'[q].user = v, task[q].pc # "fulfil",
         \A p \in Requests : p # q => task'[p] = task[p]
  PROVE  RequestsFollow'
  <1> SUFFICES ASSUME NEW w \in Reviewers \ missed
               PROVE  /\ asked[w] = "pending" /\ w \in answered' => Fulfilling(w)'
                      /\ asked[w] = "fulfilled" => w \in answered'
    BY DEF RequestsFollow
  <1>1. CASE w = v
    BY <1>1 DEF Fulfilling
  <1>2. CASE w # v
    BY <1>2 DEF RequestsFollow, Fulfilling
  <1> QED
    BY <1>1, <1>2

LEMMA RequestsStep == ReviewInv /\ [ReviewNext]_reviewVars => RequestsFollow'
  <1> SUFFICES ASSUME ReviewInv, [ReviewNext]_reviewVars PROVE RequestsFollow'
    OBVIOUS
  <1>0. RequestsFollow /\ TableTypes /\ TaskTypes
    BY DEF ReviewInv
  <1>1. ASSUME NEW q \in Requests,
               \/ \E v \in Reviewers : FindDraft(q, v) \/ FindOwner(q, v)
               \/ \E r \in Reviews : BeginSubmit(q, r) \/ BeginDiscard(q, r)
               \/ \E c \in Comments : BeginReact(q, c) \/ BeginDelete(q, c)
               \/ ListCascade(q) \/ CreateDraft(q) \/ AddComment(q) \/ React(q)
        PROVE  RequestsFollow'
    <2>1. UNCHANGED <<asked, answered, missed>>
      BY <1>1 DEF FindDraft, FindOwner, BeginSubmit, BeginDiscard, BeginReact, BeginDelete, ListCascade,
                  CreateDraft, AddComment, React
    <2>2. Passes(q, Quiet, Quiet)
      BY <1>0, <1>1, QuietPasses
    <2> QED
      BY <1>0, <2>1, <2>2, RequestsAlone DEF Passes, Quiet
  <1>2. ASSUME NEW q \in Requests,
               \/ Reply(q) \/ Resolve(q) \/ Delete(q) \/ Sweep(q)
               \/ \E c \in Comments : FindRoot(q, c, "reply") \/ FindRoot(q, c, "resolve")
        PROVE  RequestsFollow'
    <2>1. UNCHANGED <<asked, answered, missed>>
      BY <1>2 DEF Reply, Resolve, Delete, Sweep, FindRoot
    <2>2. task[q].pc # "fulfil" /\ \A p \in Requests : p # q => task'[p] = task[p]
      BY <1>0, <1>2, OtherPasses DEF Passes, Quiet
    <2> QED
      BY <1>0, <2>1, <2>2, RequestsAlone
  <1>3. ASSUME NEW q \in Requests, NEW v \in Reviewers, NEW state, PostReview(q, v, state) PROVE RequestsFollow'
    <2>1. task[q].pc # "fulfil" /\ \A p \in Requests : p # q => task'[p] = task[p]
      BY <1>0, <1>3, OtherPasses DEF Passes, Quiet
    <2>2. UNCHANGED <<asked, missed>>
      BY <1>3 DEF PostReview
    <2>3. CASE UNCHANGED answered
      BY <1>0, <2>1, <2>2, <2>3, RequestsAlone
    <2>4. CASE Goes(q, [Idling EXCEPT !.pc = "fulfil", !.user = v]) /\ Answers(v)
      <3> DEFINE t == [Idling EXCEPT !.pc = "fulfil", !.user = v]
      <3>1. t.pc = "fulfil" /\ t.user = v
        BY DEF Idling
      <3>2. Goes(q, t)
        BY <2>4
      <3> HIDE DEF t
      <3>3. task'[q] = t
        BY <1>0, <3>2, TaskMoves
      <3>4. answered' = answered \cup {v}
        BY <2>4 DEF Answers
      <3> QED
        BY <1>0, <2>1, <2>2, <3>1, <3>3, <3>4, RequestsAnswered
    <2> QED
      BY <1>3, <2>3, <2>4 DEF PostReview
  <1>4. ASSUME NEW q \in Requests, NEW verdict, Submit(q, verdict) PROVE RequestsFollow'
    <2>1. task[q].pc # "fulfil" /\ \A p \in Requests : p # q => task'[p] = task[p]
      BY <1>0, <1>4, OtherPasses DEF Passes, Quiet
    <2>2. UNCHANGED <<asked, missed>>
      BY <1>4 DEF Submit
    <2>3. CASE UNCHANGED answered
      BY <1>0, <2>1, <2>2, <2>3, RequestsAlone
    <2>4. CASE Goes(q, [task[q] EXCEPT !.pc = "fulfil", !.review = None]) /\ Answers(task[q].user)
      <3> DEFINE t == [task[q] EXCEPT !.pc = "fulfil", !.review = None]
      <3>1. task[q] \in Tasks
        BY <1>0 DEF TaskTypes
      <3>2. t.pc = "fulfil" /\ t.user = task[q].user
        BY <3>1 DEF Tasks
      <3>3. Goes(q, t)
        BY <2>4
      <3> HIDE DEF t
      <3>4. task'[q] = t
        BY <1>0, <3>3, TaskMoves
      <3>5. PICK v : v = task[q].user
        OBVIOUS
      <3>6. answered' = answered \cup {v}
        BY <2>4, <3>5 DEF Answers
      <3> QED
        BY <1>0, <2>1, <2>2, <3>2, <3>4, <3>5, <3>6, RequestsAnswered
    <2> QED
      BY <1>4, <2>3, <2>4 DEF Submit
  <1>5. ASSUME NEW q \in Requests, Fulfil(q) PROVE RequestsFollow'
    <2>1. task[q].pc = "fulfil" /\ task[q].user \in Reviewers /\ \A p \in Requests : p # q => task'[p] = task[p]
      BY <1>0, <1>5, OtherPasses DEF Passes, TaskTypes, Equipped
    <2>2. PICK v \in Reviewers : v = task[q].user
      BY <2>1
    <2>3. /\ asked' = [asked EXCEPT ![v] = Fulfilled(asked[v])] /\ UNCHANGED answered
          /\ missed' = IF asked[v] = "pending" /\ v \notin answered THEN missed \cup {v} ELSE missed
      BY <2>2, <1>5 DEF Fulfil
    <2> SUFFICES ASSUME NEW w \in Reviewers \ missed'
                 PROVE  /\ asked'[w] = "pending" /\ w \in answered => Fulfilling(w)'
                        /\ asked'[w] = "fulfilled" => w \in answered
      BY <2>3 DEF RequestsFollow
    <2>4. w \notin missed
      BY <2>3
    <2>5. CASE w = v
      <3>1. asked'[w] = Fulfilled(asked[w])
        BY <1>0, <2>3, <2>5 DEF TableTypes
      <3>2. asked'[w] # "pending"
        BY <3>1 DEF Fulfilled
      <3>3. asked'[w] = "fulfilled" => asked[w] = "pending" \/ asked[w] = "fulfilled"
        BY <3>1 DEF Fulfilled
      <3>4. asked[w] = "pending" => w \in answered
        BY <2>3, <2>5
      <3>5. asked[w] = "fulfilled" => w \in answered
        BY <1>0, <2>4 DEF RequestsFollow
      <3> QED
        BY <3>2, <3>3, <3>4, <3>5
    <2>6. CASE w # v
      <3>1. asked'[w] = asked[w]
        BY <1>0, <2>3, <2>6 DEF TableTypes
      <3>2. Fulfilling(w) => Fulfilling(w)'
        BY <2>1, <2>2, <2>6 DEF Fulfilling
      <3> QED
        BY <1>0, <2>4, <3>1, <3>2 DEF RequestsFollow
    <2> QED
      BY <2>5, <2>6
  <1>6. ASSUME NEW q \in Requests, RequestOwner(q) PROVE RequestsFollow'
    <2>1. \A p \in Requests : task[p].pc = "fulfil" => task'[p] = task[p]
      BY <1>0, <1>6, QuietPasses DEF Passes, Quiet
    <2>2. UNCHANGED missed
      BY <1>6 DEF RequestOwner
    <2>3. CASE UNCHANGED <<asked, answered>>
      BY <1>0, <2>1, <2>2, <2>3, RequestsAlone
    <2>4. ASSUME NEW v, asked' = [asked EXCEPT ![v] = "pending"], answered' = answered \ {v} PROVE RequestsFollow'
      BY <1>0, <2>1, <2>2, <2>4 DEF RequestsFollow, Fulfilling, TableTypes
    <2> QED
      BY <1>6, <2>3, <2>4 DEF RequestOwner
  <1>7. ASSUME NEW q \in Requests, CutOff(q) PROVE RequestsFollow'
    <2>1. \A p \in Requests : p # q => task'[p] = task[p]
      BY <1>0, <1>7, OtherPasses DEF Passes
    <2>2. UNCHANGED <<asked, answered>>
      BY <1>7 DEF CutOff
    <2>3. missed \subseteq missed' /\ (task[q].pc = "fulfil" => task[q].user \in missed')
      BY <1>7 DEF CutOff
    <2> QED
      BY <1>0, <2>1, <2>2, <2>3 DEF RequestsFollow, Fulfilling
  <1>8. ASSUME NEW v \in Reviewers, Ask(v) PROVE RequestsFollow'
    <2>1. /\ asked' = [asked EXCEPT ![v] = "pending"] /\ UNCHANGED task
          /\ answered' = answered \ {v} /\ missed' = missed \ {v}
      BY <1>8 DEF Ask
    <2> QED
      BY <1>0, <2>1 DEF RequestsFollow, Fulfilling, TableTypes
  <1>9. ASSUME NEW v \in Reviewers, Withdraw(v) PROVE RequestsFollow'
    BY <1>0, <1>9 DEF Withdraw, RequestsFollow, Fulfilling, TableTypes
  <1>10. CASE UNCHANGED reviewVars
    BY <1>0, <1>10, RequestsAlone DEF reviewVars
  <1> QED
    BY <1>1, <1>2, <1>3, <1>4, <1>5, <1>6, <1>7, <1>8, <1>9, <1>10 DEF ReviewNext

-----------------------------------------------------------------------------
LEMMA ReviewInvStep == ReviewInv /\ [ReviewNext]_reviewVars => ReviewInv'
  BY TasksStep, TablesStep, ThreadsStep, ReactionsStep, RequestsStep DEF ReviewInv, Threads

LEMMA ReviewInvHolds == ReviewSpec => []ReviewInv
  BY ReviewInvInit, ReviewInvStep, PTL DEF ReviewSpec

LEMMA NobodyWaits ==
  ASSUME Working = {}
  PROVE  (\A c : ~Sweeping(c)) /\ (\A v : ~Fulfilling(v))
  BY DEF Working, Sweeping, Fulfilling

(***************************************************************************)
(* However replies, resolutions, reactions and deletions overlap, threads  *)
(* stay one level deep within a review, and reactions go with what they    *)
(* react to (routes/pr-comments.ts).                                       *)
(***************************************************************************)
THEOREM CommentsHold == ReviewSpec => []CommentsHoldTogether
  <1>1. ReviewInv => CommentsHoldTogether
    BY NobodyWaits DEF ReviewInv, ReactionsFollow, ReactionsAreSwept, CommentsHoldTogether
  <1> QED
    BY <1>1, ReviewInvHolds, PTL

(***************************************************************************)
(* A request for a review is pending while unanswered and fulfilled once   *)
(* answered, whatever is submitted, withdrawn or asked again meanwhile     *)
(* (routes/pr-comments.ts, fulfillReviewerRequest).                        *)
(***************************************************************************)
THEOREM PendingUnanswered == ReviewSpec => []PendingMeansUnanswered
  <1>1. ReviewInv => PendingMeansUnanswered
    BY NobodyWaits DEF ReviewInv, RequestsFollow, PendingMeansUnanswered
  <1> QED
    BY <1>1, ReviewInvHolds, PTL

(***************************************************************************)
(* Rows keep the types and keys of the schema, and tasks the places of     *)
(* their handlers.                                                         *)
(***************************************************************************)
THEOREM ReviewTypes == ReviewSpec => []ReviewTypeOK
  <1>1. ReviewInv => ReviewTypeOK
    BY TypesInParts DEF ReviewInv
  <1> QED
    BY <1>1, ReviewInvHolds, PTL
=============================================================================

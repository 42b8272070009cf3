----------------------------- MODULE PullMerge -----------------------------
(***************************************************************************)
(* One pull request from open to merged: the merge endpoint, the conflict  *)
(* resolution endpoint and auto-merge, which share a merge executor and    *)
(* race with pushes, reviews, CI results and edits of the pull request.    *)
(* Every handler is split where another step may come in between, the      *)
(* reads of its gates taken as one.  The head branch only advances; its    *)
(* versions are numbered, and a later version contains the earlier.        *)
(***************************************************************************)
EXTENDS Naturals, Sequences, FiniteSets

CONSTANTS
  Calls,              \* merge requests and auto-merge evaluations in progress
  Editors,            \* requests that edit the pull request
  Reviewers,
  Methods,            \* allowed merge methods: a subset of merge, squash, rebase
  RequiredApprovals,  \* of the protection rule of the target branch; 0 for none
  RequireGreen,       \* whether that rule requires green checks
  DeleteOnMerge,      \* Repo.deleteBranchOnMerge
  Conflicts,          \* whether a merge may stop on a conflict
  Events,             \* bound: which of the events below the instance has
  MaxHead,            \* bound: versions of the head branch
  MaxTip,             \* bound: commits on the base branch
  MaxFaults,          \* bound: crashes and refused writes
  None

Edits == {"close", "reopen", "ready", "draft", "arm", "disarm"}
AllEvents == Edits \cup {"merge", "resolve", "override", "push", "pushBase", "ci", "review", "armer"}

ASSUME EventsAssumption == Events \subseteq AllEvents
ASSUME MethodsAssumption == Methods \subseteq {"merge", "squash", "rebase"} /\ None \notin Methods
ASSUME BoundsAssumption ==
  MaxHead \in Nat \ {0} /\ MaxTip \in Nat /\ MaxFaults \in Nat /\ RequiredApprovals \in Nat
ASSUME ReviewersAssumption == IsFiniteSet(Reviewers)
ASSUME NoneAssumption == None \notin Nat

VARIABLES
  \* the PullRequest row
  state, draft, armed, mergeSha, range,
  armer,      \* the arming user and the policy: "ok", "refused" or "gone"
  \* the bare repository
  head,       \* version of the head branch, or None once it is deleted
  base,       \* commits of the base branch: the version each brings, and how
  \* what the gates read
  checks,     \* rollup of the checks of each version
  review,     \* latest submitted review of each reviewer
  \* requests and evaluations in progress
  call, edit,
  signals,    \* auto-merge signals under way
  inFlight,   \* auto-merge.ts inFlight
  \* bounds and history
  faults,
  raced,      \* history: calls during which something they depend on changed
  reopened    \* history: a close or reopen overwrote MERGED

row == <<state, draft, armed, mergeSha, range>>
git == <<head, base>>
gates == <<checks, review>>
vars == <<row, armer, git, gates, call, edit, signals, inFlight, faults, raced, reopened>>

Versions == 1..MaxHead
\* a review that only comments counts for no gate, like no review at all
Verdicts == {"neutral", "approved", "changes_requested"}
Idle == [pc |-> "idle", kind |-> None, method |-> None, override |-> FALSE,
         seen |-> None, range |-> None, tip |-> 0, work |-> None, sha |-> 0]
Resting == [op |-> None, arg |-> None, open |-> FALSE]
Pcs == {"idle", "read", "disarm", "head", "gate", "range", "clone", "push", "record", "sweep"}
Busy == {c \in Calls : call[c].pc # "idle"}
Evaluations == {c \in Busy : call[c].kind = "auto"}

TypeOK ==
  /\ state \in {"OPEN", "CLOSED", "MERGED"} /\ draft \in BOOLEAN
  /\ armed \in Methods \cup {None} /\ armer \in {"ok", "refused", "gone"}
  /\ mergeSha \in 0..MaxTip /\ range \in Versions \cup {None}
  /\ head \in Versions \cup {None}
  /\ base \in Seq([work: Versions \cup {None}, how: {"merge", "squash", "replay", "ff", "other"}]) /\ Len(base) <= MaxTip
  /\ checks \in [Versions -> {"none", "pending", "success", "failure"}]
  /\ review \in [Reviewers -> [verdict: Verdicts, at: Versions \cup {None}]]
  /\ call \in [Calls -> [pc: Pcs, kind: {"merge", "resolve", "auto", None},
                         method: Methods \cup {"merge", None}, override: BOOLEAN,
                         seen: Versions \cup {None}, range: Versions \cup {None},
                         tip: 0..MaxTip, work: Versions \cup {None}, sha: 0..MaxTip]]
  /\ edit \in [Editors -> [op: Edits \cup {None},
                           arg: Methods \cup {None}, open: BOOLEAN]]
  /\ signals \subseteq ({"review", "ready", "arm", "ci"} \X (Versions \cup {None}))
  /\ inFlight \in BOOLEAN /\ faults \in 0..MaxFaults
  /\ raced \subseteq Busy /\ reopened \in BOOLEAN

Init ==
  /\ state = "OPEN" /\ draft \in BOOLEAN /\ armed = None /\ armer = "ok"
  /\ mergeSha = 0 /\ range = None
  /\ head = 1 /\ base = <<>>
  /\ checks = [h \in Versions |-> "none"]
  /\ review = [u \in Reviewers |-> [verdict |-> "neutral", at |-> None]]
  /\ call = [c \in Calls |-> Idle] /\ edit = [e \in Editors |-> Resting]
  /\ signals = {} /\ inFlight = FALSE
  /\ faults = 0 /\ raced = {} /\ reopened = FALSE

-----------------------------------------------------------------------------
(***************************************************************************)
(* Git: what the base branch contains, and what a merge would add.         *)
(***************************************************************************)

Tip == Len(base)

\* version h, or one that contains it, is an ancestor of the tip
IsAncestor(h) == \E i \in 1..Tip : base[i].how \in {"merge", "ff"} /\ base[i].work >= h

\* the changes of version h are on the base branch, whatever the commits
Carried(h) == \E i \in 1..Tip : base[i].how # "other" /\ base[i].work >= h

\* what is left to commit by each method when h is not an ancestor of the tip: a merge
\* commit always, a squash or a replay only what the base does not carry yet
AddsAlways(method, h) == TRUE  \* mutant: an empty squash is committed all the same
Adds(method, h) == method = "merge" \/ ~Carried(h)

\* A replay keeps the commits as they are when the head already contains the tip.
Result(method) ==
  IF method # "rebase" THEN method
  ELSE IF \A i \in 1..Tip : base[i].how = "ff" THEN "ff" ELSE "replay"

(***************************************************************************)
(* The gates: computeReviewSummary, checkSummaryForCommit and              *)
(* evaluateMergeProtection, for the version h of the head (None: unknown). *)
(***************************************************************************)
EverSubmitted(verdict, h) == {u \in Reviewers : review[u].verdict = verdict}  \* mutant: stale reviews count
Current(verdict, h) == {u \in Reviewers : review[u].verdict = verdict /\ (h = None \/ review[u].at = h)}
ChangesRequested(h) == Current("changes_requested", h) # {}
NotGreen(h) == h # None /\ checks[h] \in {"pending", "failure"}
ProtectionBlocks(h) ==
  \/ RequiredApprovals > 0 /\ (Cardinality(Current("approved", h)) < RequiredApprovals
                               \/ ChangesRequested(h))
  \/ RequireGreen /\ NotGreen(h)
EndpointPasses(c) ==
  /\ ~ProtectionBlocks(call[c].seen)
  /\ call[c].override \/ ~ChangesRequested(head)  \* reviewGate resolves the head again
AutoPasses(h) == ~ChangesRequested(h) /\ ~NotGreen(h) /\ ~ProtectionBlocks(h)

\* everything a call depends on has just changed under the calls in progress
Disturb == raced' = Busy

-----------------------------------------------------------------------------
(***************************************************************************)
(* A merge call, split at its awaits.                                      *)
(***************************************************************************)
To(c, pc) == call' = [call EXCEPT ![c].pc = pc]

\* The call ends; maybeAutoMergePr leaves the in-flight set in its finally.
KeepLatch(c) == call' = [call EXCEPT ![c] = Idle] /\ UNCHANGED inFlight  \* mutant: no finally
Leave(c) ==
  /\ call' = [call EXCEPT ![c] = Idle]
  /\ inFlight' = IF call[c].kind = "auto" THEN FALSE ELSE inFlight
Finish(c) == Leave(c) /\ raced' = raced \ {c}

\* POST .../merge and .../merge-resolve read the pull request
Begin(c, kind, method, override) ==
  /\ call[c].pc = "idle"
  /\ state = "OPEN" /\ ~draft
  /\ call' = [call EXCEPT ![c] = [Idle EXCEPT !.pc = "head", !.kind = kind,
                                  !.method = method, !.override = override]]
  /\ UNCHANGED <<row, armer, git, gates, edit, signals, inFlight, faults, raced, reopened>>

Request(c) ==
  \E override \in BOOLEAN :
    /\ override => "override" \in Events
    /\ \/ "merge" \in Events /\ \E m \in Methods : Begin(c, "merge", m, override)
       \/ "resolve" \in Events /\ Begin(c, "resolve", "merge", override)

\* maybeAutoMergePr up to its first await: an evaluation in flight makes it bail.  The
\* signal of a CI run counts only for the current head of an armed pull request.
Signal(s) ==
  /\ s \in signals
  /\ signals' = signals \ {s}
  /\ IF inFlight \/ (s[1] = "ci" /\ (state # "OPEN" \/ armed = None \/ s[2] # head))
     THEN UNCHANGED <<call, inFlight>>
     ELSE \E c \in Calls \ Busy :
            /\ call' = [call EXCEPT ![c] = [Idle EXCEPT !.pc = "read", !.kind = "auto"]]
            /\ inFlight' = TRUE
  /\ UNCHANGED <<row, armer, git, gates, edit, faults, raced, reopened>>

\* maybeAutoMergePr reads the pull request, the repository and the armer; the draft flag
\* it will test is the one it reads here.  A missing armer disarms.
AutoRead(c) ==
  /\ call[c].pc = "read"
  /\ \/ /\ state = "OPEN" /\ armed # None /\ armer = "ok" /\ ~draft
        /\ call' = [call EXCEPT ![c].pc = "head", ![c].method = armed]
        /\ UNCHANGED <<inFlight, raced>>
     \/ /\ state = "OPEN" /\ armed # None /\ armer = "gone"
        /\ To(c, "disarm") /\ UNCHANGED <<inFlight, raced>>
     \/ /\ state # "OPEN" \/ armed = None \/ armer = "refused" \/ (armer = "ok" /\ draft)
        /\ Finish(c)
  /\ UNCHANGED <<row, armer, git, gates, edit, signals, faults, reopened>>

\* the armer is gone: the intent is cleared, whoever may have armed meanwhile
Disarm(c) ==
  /\ call[c].pc = "disarm"
  /\ armed' = None
  /\ Leave(c) /\ raced' = Busy \ {c}
  /\ UNCHANGED <<state, draft, mergeSha, range, armer, git, gates, edit, signals, faults, reopened>>

\* resolveBranchSha of the head
ReadHead(c) ==
  /\ call[c].pc = "head"
  /\ call' = [call EXCEPT ![c].pc = "gate", ![c].seen = head]
  /\ UNCHANGED <<row, armer, git, gates, edit, signals, inFlight, faults, raced, reopened>>

\* the reviews, the checks and the rule, read as one
Gate(c) ==
  /\ call[c].pc = "gate"
  /\ IF IF call[c].kind = "auto" THEN AutoPasses(call[c].seen) ELSE EndpointPasses(c)
     THEN call' = [call EXCEPT ![c].pc = "range", ![c].seen = None] /\ UNCHANGED <<inFlight, raced>>
     ELSE Finish(c)
  /\ UNCHANGED <<row, armer, git, gates, edit, signals, faults, reopened>>

\* executePullMerge: liveRange
ReadRange(c) ==
  /\ call[c].pc = "range"
  /\ call' = [call EXCEPT ![c].pc = "clone", ![c].range = head]
  /\ UNCHANGED <<row, armer, git, gates, edit, signals, inFlight, faults, raced, reopened>>

\* performMerge, performSquashMerge, performRebaseMerge: clone, then build the commit in
\* the clone.  A merged branch, a conflict, an empty squash and a missing branch end it;
\* a replay with nothing left to replay goes on to push nothing.
Clone(c) ==
  LET m == call[c].method IN
  /\ call[c].pc = "clone"
  /\ \/ head = None /\ Finish(c)
     \/ head # None /\ IsAncestor(head) /\ Finish(c)
     \/ Conflicts /\ Finish(c)
     \/ head # None /\ m = "squash" /\ ~Adds(m, head) /\ Finish(c)
     \/ /\ head # None /\ ~IsAncestor(head) /\ (Adds(m, head) \/ m = "rebase")
        /\ call' = [call EXCEPT ![c].pc = "push", ![c].tip = Tip, ![c].work = head]
        /\ UNCHANGED <<inFlight, raced>>
  /\ UNCHANGED <<row, armer, git, gates, edit, signals, faults, reopened>>

\* mutant: the exit status of the push is not looked at
PushUnchecked(c) ==
  LET k == call[c] IN
  /\ call[c].pc = "push"
  /\ IF Tip = k.tip /\ Adds(k.method, k.work)
     THEN Tip < MaxTip /\ base' = Append(base, [work |-> k.work, how |-> Result(k.method)])
     ELSE UNCHANGED base
  /\ call' = [call EXCEPT ![c].pc = "record", ![c].sha = Len(base')]
  /\ UNCHANGED <<row, armer, head, gates, edit, signals, inFlight, faults, raced, reopened>>

\* git push: refused when the base branch is not where the clone found it
Push(c) ==
  LET k == call[c] IN
  /\ call[c].pc = "push"
  /\ \/ Tip # k.tip /\ Finish(c) /\ UNCHANGED base
     \/ /\ Tip = k.tip /\ Adds(k.method, k.work) /\ Tip < MaxTip
        /\ base' = Append(base, [work |-> k.work, how |-> Result(k.method)])
        /\ call' = [call EXCEPT ![c].pc = "record", ![c].sha = Tip + 1]
        /\ UNCHANGED <<inFlight, raced>>
     \/ /\ Tip = k.tip /\ ~Adds(k.method, k.work)
        /\ call' = [call EXCEPT ![c].pc = "record", ![c].sha = Tip]
        /\ UNCHANGED <<base, inFlight, raced>>
  /\ UNCHANGED <<row, armer, head, gates, edit, signals, faults, reopened>>

\* mutant: the update asks for an open pull request
RecordIfOpen(c) ==
  /\ call[c].pc = "record"
  /\ IF state = "OPEN" THEN state' = "MERGED" /\ mergeSha' = call[c].sha /\ range' = call[c].range
                       ELSE UNCHANGED <<state, mergeSha, range>>
  /\ Leave(c) /\ raced' = Busy \ {c}
  /\ UNCHANGED <<draft, armed, armer, git, gates, edit, signals, faults, reopened>>

\* the update of the row: by id, whatever the state has become.  executePullMerge clears
\* the armed intent; the resolution endpoint does not.
Record(c) ==
  /\ call[c].pc = "record"
  /\ state' = "MERGED" /\ mergeSha' = call[c].sha /\ range' = call[c].range
  /\ armed' = IF call[c].kind = "resolve" THEN armed ELSE None
  /\ IF DeleteOnMerge /\ call[c].kind # "resolve"
     THEN To(c, "sweep") /\ Disturb /\ UNCHANGED inFlight
     ELSE Leave(c) /\ raced' = Busy \ {c}
  /\ UNCHANGED <<draft, armer, git, gates, edit, signals, faults, reopened>>

\* deleteMergedHeadBranch: git branch -D, wherever the branch has moved to; a default, a
\* protected or a still used branch is kept
Sweep(c) ==
  /\ call[c].pc = "sweep"
  /\ head' \in {head, None}
  /\ Leave(c) /\ raced' = Busy \ {c}
  /\ UNCHANGED <<row, armer, base, gates, edit, signals, faults, reopened>>

CallStep(c) ==
  AutoRead(c) \/ Disarm(c) \/ ReadHead(c) \/ Gate(c) \/ ReadRange(c) \/ Clone(c) \/ Push(c) \/ Record(c) \/ Sweep(c)

-----------------------------------------------------------------------------
(***************************************************************************)
(* Edits of the row: read, answer 409 or go on, then update by id.         *)
(***************************************************************************)
Allowed(op) ==
  CASE op \in {"close", "reopen"} -> state # "MERGED"
    [] op = "ready"  -> state = "OPEN" /\ draft
    [] op = "draft"  -> state = "OPEN" /\ ~draft
    [] op = "arm"    -> state = "OPEN"
    [] op = "disarm" -> armed # None

EditRead(e, op, m) ==
  /\ op \in Events /\ edit[e] = Resting
  /\ Allowed(op)
  /\ edit' = [edit EXCEPT ![e] = [op |-> op, arg |-> m, open |-> state = "OPEN"]]
  /\ UNCHANGED <<row, armer, git, gates, call, signals, inFlight, faults, raced, reopened>>

EditBegins(e) ==
  \/ \E op \in Edits \ {"arm"} : EditRead(e, op, None)
  \/ \E m \in Methods : EditRead(e, "arm", m)

RawState(op) == IF op \in {"close", "reopen"} THEN op ELSE state  \* mutant: stored as received
NewState(op) == CASE op = "close" -> "CLOSED" [] op = "reopen" -> "OPEN" [] OTHER -> state

EditWrite(e) ==
  LET op == edit[e].op IN
  /\ op # None
  /\ state' = NewState(op)
  /\ draft' = IF op \in {"ready", "draft"} THEN op = "draft" ELSE draft
  /\ armed' = IF op = "arm" THEN edit[e].arg
              ELSE IF op \in {"close", "draft", "disarm"} THEN None ELSE armed
  /\ range' = CASE op = "close" /\ edit[e].open -> head [] op = "reopen" -> None [] OTHER -> range
  /\ armer' = IF op = "arm" THEN "ok" ELSE armer
  /\ signals' = IF op \in {"ready", "arm"} THEN signals \cup {<<op, None>>} ELSE signals
  /\ edit' = [edit EXCEPT ![e] = Resting]
  /\ reopened' = (reopened \/ (state = "MERGED" /\ state' # "MERGED"))
  /\ Disturb
  /\ UNCHANGED <<mergeSha, git, gates, call, inFlight, faults>>

-----------------------------------------------------------------------------
(***************************************************************************)
(* What happens around the pull request.                                   *)
(***************************************************************************)

\* A push to the head branch; its CI runs are created after the push is accepted.
PushHead ==
  /\ "push" \in Events /\ head # None /\ head < MaxHead
  /\ head' = head + 1
  /\ Disturb
  /\ UNCHANGED <<row, armer, base, gates, call, edit, signals, inFlight, faults, reopened>>

\* A push or another merge moves the base branch.
PushBase ==
  /\ "pushBase" \in Events /\ Tip < MaxTip
  /\ base' = Append(base, [work |-> None, how |-> "other"])
  /\ UNCHANGED <<row, armer, head, gates, call, edit, signals, inFlight, faults, raced, reopened>>

\* A run is created for a version; a red one may be run again.
CheckStarts(h) ==
  /\ "ci" \in Events /\ head # None /\ h <= head
  /\ checks[h] \in {"none", "failure"}
  /\ checks' = [checks EXCEPT ![h] = "pending"]
  /\ Disturb
  /\ UNCHANGED <<row, armer, git, review, call, edit, signals, inFlight, faults, reopened>>

CheckEnds(h) ==
  /\ checks[h] = "pending"
  /\ \/ /\ checks' = [checks EXCEPT ![h] = "success"]
        /\ signals' = signals \cup {<<"ci", h>>}
     \/ /\ checks' = [checks EXCEPT ![h] = "failure"]
        /\ UNCHANGED signals
  /\ Disturb
  /\ UNCHANGED <<row, armer, git, review, call, edit, inFlight, faults, reopened>>

Reached == IF head = None THEN Versions ELSE 1..head

\* A review is stored against the head its handler read, which may have moved since.
SubmitReview(u, verdict, h) ==
  /\ "review" \in Events /\ h \in Reached
  /\ review' = [review EXCEPT ![u] =
                  [verdict |-> verdict, at |-> IF verdict = "neutral" THEN None ELSE h]]
  /\ signals' = signals \cup {<<"review", None>>}
  /\ Disturb
  /\ UNCHANGED <<row, armer, git, checks, call, edit, inFlight, faults, reopened>>

\* The armer loses write access or the method is no longer allowed, and back; or the
\* account is deleted.
ArmerChanges ==
  /\ "armer" \in Events /\ armer # "gone"
  /\ armer' \in {"ok", "refused", "gone"} \ {armer}
  /\ Disturb
  /\ UNCHANGED <<row, git, gates, call, edit, signals, inFlight, faults, reopened>>

\* The row update of a merge is refused: 500, after the base branch has moved.
RecordRefused(c) ==
  /\ call[c].pc = "record"
  /\ faults < MaxFaults /\ faults' = faults + 1
  /\ Finish(c)
  /\ UNCHANGED <<row, armer, git, gates, edit, signals, reopened>>

Crash ==
  /\ faults < MaxFaults /\ faults' = faults + 1
  /\ call' = [c \in Calls |-> Idle] /\ edit' = [e \in Editors |-> Resting]
  /\ signals' = {} /\ inFlight' = FALSE /\ raced' = {}
  /\ UNCHANGED <<row, armer, git, gates, reopened>>

Surroundings ==
  \/ PushHead \/ PushBase \/ ArmerChanges \/ Crash
  \/ \E h \in Versions : CheckStarts(h) \/ CheckEnds(h)
  \/ \E u \in Reviewers, v \in Verdicts, h \in Versions : SubmitReview(u, v, h)

Next ==
  \/ \E c \in Calls : Request(c) \/ CallStep(c) \/ RecordRefused(c)
  \/ \E s \in signals : Signal(s)
  \/ \E e \in Editors : EditBegins(e) \/ EditWrite(e)
  \/ Surroundings

Spec == Init /\ [][Next]_vars

\* What has begun goes on; nobody has to push, review, edit or merge.
Fairness ==
  /\ \A c \in Calls : WF_vars(CallStep(c))
  /\ WF_vars(\E s \in signals : Signal(s))
  /\ \A e \in Editors : WF_vars(EditWrite(e))
  /\ \A h \in Versions : WF_vars(CheckEnds(h))

FairSpec == Spec /\ Fairness

-----------------------------------------------------------------------------
(***************************************************************************)
(* Properties.                                                             *)
(***************************************************************************)

\* The commits that brought the pull request to the base branch.
Landings == {i \in 1..Tip : base[i].how # "other"}

\* A merged pull request is on the base branch, at or before the commit its row names,
\* and so is the range its row records (the order push, then update, in executePullMerge
\* and merge-resolve, whichever of two racing merges writes last).
MergedRowIsBacked ==
  state = "MERGED" =>
    /\ mergeSha \in 1..Tip
    /\ \E i \in Landings : i <= mergeSha /\ (range # None => range <= base[i].work)

\* No version is brought in twice by racing merges; the one exception is a merge commit
\* over a squash or a replay, which leaves the head's own commits unmerged
\* (alreadyMerged, the empty squash, the empty replay, and the push that is refused when
\* the base branch moved).
NoWorkLandsTwice ==
  \A i, j \in Landings :
    i < j /\ base[j].work <= base[i].work => base[j].how = "merge" /\ base[i].how \in {"squash", "replay"}

\* What landed is recorded: a pull request on the base branch reads MERGED, or a call is
\* about to write it, unless the process crashed or the write was refused, or a close or
\* reopen that had read the row before overwrote it.
LandingIsRecorded ==
  Landings # {} /\ faults = 0 /\ ~reopened =>
    state = "MERGED" \/ \E c \in Busy : call[c].pc = "record"

\* One evaluation at a time, and the latch is released on every way out: were it kept,
\* auto-merge would be dead for the pull request until the next restart (inFlight).
OneEvaluation == Cardinality(Evaluations) = IF inFlight THEN 1 ELSE 0

\* When nothing a call depends on changed since it began, what it lands is what the rules
\* allow at that moment: an open, ready pull request at the version that was judged, with
\* enough approvals of that very version, no objection to it and no check of it that is
\* not green (the gates of the endpoints and of evaluateAutoMergeGates together with
\* isReviewStale; only an endpoint's override may pass over objections).
Verdict(v) == {u \in Reviewers : review[u] = [verdict |-> v, at |-> head]}
Landable(k) ==
  /\ state = "OPEN" /\ ~draft /\ head = k.work
  /\ RequiredApprovals > 0 =>
       Cardinality(Verdict("approved")) >= RequiredApprovals /\ Verdict("changes_requested") = {}
  /\ RequireGreen \/ k.kind = "auto" => checks[head] \in {"none", "success"}
  /\ k.override \/ Verdict("changes_requested") = {}
  /\ k.kind = "auto" => armed = k.method /\ armer = "ok"
GatesHoldUnlessRaced ==
  [][\A c \in Calls \ raced :
       call[c].pc = "push" /\ call'[c].pc = "record" => Landable(call[c])]_vars

-----------------------------------------------------------------------------
(***************************************************************************)
(* A statement of the repository that the code does not keep.              *)
(***************************************************************************)

\* auto-merge.ts: an armed pull request merges itself the moment its gates are all green.
ReadyToFire ==
  /\ state = "OPEN" /\ armed # None /\ armer = "ok" /\ ~draft
  /\ head # None /\ AutoPasses(head)
ArmedFiresWhenGreen == ReadyToFire ~> ~ReadyToFire
=============================================================================

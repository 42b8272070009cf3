--------------------------- MODULE PushReception ----------------------------
(***************************************************************************)
(* What moves the head branch of a pull request, and what the server does  *)
(* once it has moved: it reports the new tip (push webhooks, push and      *)
(* pull-request CI, head_pushed, code owners) and takes back the "viewed"  *)
(* ticks of the files that changed.  A push learns what changed from two   *)
(* listings of the branch tips, before and after, between which other      *)
(* requests move them.  An editor commit, a suggestion and a fork sync     *)
(* read the tip and swap it; a merge into the branch is one external step. *)
(* One branch, one pull request from it, one of its files, one viewer.     *)
(***************************************************************************)
EXTENDS Handlers, FiniteSets

CONSTANTS
  Commits, Root,
  Parent,      \* the first parent of each commit, None of Root
  Version,     \* the file's version in each commit
  Upstream,    \* the tip of the default branch of the repository it was forked from
  Serves       \* the kinds of request that each request may be

ASSUME CommitsAreATree ==
  /\ Root \in Commits /\ Upstream \in Commits /\ None \notin Commits
  /\ Parent \in [Commits -> Commits \cup {None}]
  /\ \A c \in Commits : Version[c] # None
Kinds == {"push", "commit", "suggest", "sync", "merge"}
ASSUME KindsAreKnown == Serves \in [Requests -> SUBSET Kinds] /\ None \notin Kinds

Tips == Commits \cup {None}
VersionAt(c) == IF c = None THEN None ELSE Version[c]
Versions == {Version[c] : c \in Commits} \cup {None}

\* The commits reachable from a commit, by Parent.
FollowsParents(S) == \A d \in S : Parent[d] # None => Parent[d] \in S
Past == [c \in Commits |->
           {d \in Commits : \A S \in SUBSET Commits : c \in S /\ FollowsParents(S) => d \in S}]
FastForward(old, new) == old = None \/ (new # None /\ old \in Past[new])
ASSUME NoneIsItsOwnAncestor == \A c \in Commits : Parent[c] # None => c \notin Past[Parent[c]]

Fresh(made, c) == {d \in Commits \ made : Parent[d] = c}

VARIABLES
  tip,       \* the branch, None when there is none
  made,      \* the commits that exist
  req,       \* the requests in progress
  resets,    \* resetViewedFilesForPush calls under way, as <<old tip, new tip>>
  open,      \* whether the pull request is open
  page,      \* the version the viewer's page shows
  tick,      \* the viewer's tick, as the version that was on the page; None without one
  failures,  \* bound
  told,      \* history: the tip has been reported since it moved there
  unseen,    \* history: the tip was set where no report can tell that it moved
  blind,     \* history: why the tick may vouch for another version than the tip's
  returned   \* history: the tip went back to a commit it does not follow

refsVars == <<tip, made, req, resets, open, page, tick, failures, told, unseen, blind, returned>>

Waiting == [pc |-> "new", kind |-> None, before |-> None, base |-> None, new |-> None, read |-> None]
Going == {q \in Requests : req[q].pc \notin {"new", "done"}}

RefsTypeOK ==
  /\ tip \in Tips /\ made \subseteq Commits
  /\ req \in [Requests -> [pc: {"new", "receive", "report", "swap", "read", "count", "done"},
                           kind: Kinds \cup {None}, before: Tips, base: Tips, new: Tips, read: Versions]]
  /\ resets \subseteq Tips \X Tips
  /\ open \in BOOLEAN /\ page \in Versions /\ tick \in Versions
  /\ failures \in 0..MaxFaults
  /\ told \in BOOLEAN /\ unseen \in BOOLEAN /\ blind \in BOOLEAN /\ returned \in BOOLEAN
  \* Every commit that is named exists, and one about to be swapped in follows its base.
  /\ {tip} \cup UNION {{req[q].before, req[q].base, req[q].new} : q \in Requests} \subseteq made \cup {None}
  /\ \A q \in Requests : req[q].pc = "swap" /\ req[q].kind \in {"commit", "suggest"} =>
       Parent[req[q].new] = IF req[q].base = None THEN Root ELSE req[q].base

RefsInit ==
  /\ tip = Root /\ made = {Root, Upstream}
  /\ req = [q \in Requests |-> Waiting]
  /\ resets = {} /\ open = TRUE /\ page = None /\ tick = None
  /\ failures = 0
  /\ told = TRUE /\ unseen = FALSE /\ blind = FALSE /\ returned = FALSE

Step(q, r) == req' = [req EXCEPT ![q] = r]
Finish(q) == Step(q, [Waiting EXCEPT !.pc = "done"])
MayFail == failures < MaxFaults /\ failures' = failures + 1

-----------------------------------------------------------------------------
(***************************************************************************)
(* Moving the tip, with what its mover saw before                          *)
(***************************************************************************)
\* A mover whose report compares with "before" sees nothing when it lands there;
\* it takes back no tick when the file is there as it was before.
MovesTo(new, before, resetsTicks) ==
  /\ tip' = new
  /\ told' = FALSE
  /\ unseen' = (new = before)
  /\ returned' = (returned \/ ~FastForward(tip, new))
  /\ blind' = (blind \/ /\ VersionAt(new) # VersionAt(tip)
                        /\ ~resetsTicks \/ VersionAt(new) = VersionAt(before))
Stays == UNCHANGED <<tip, told, unseen, returned, blind>>

\* emitPushEvents and the rest of the reports: webhooks, CI, timeline.
Reports(new) == told' = (told \/ new = tip)

-----------------------------------------------------------------------------
(***************************************************************************)
(* A push over HTTP or SSH                                                 *)
(***************************************************************************)
BeginPush(q) ==
  /\ req[q].pc = "new" /\ "push" \in Serves[q]
  /\ Step(q, [Waiting EXCEPT !.pc = "receive", !.kind = "push", !.before = tip])
  /\ UNCHANGED <<tip, made, resets, open, page, tick, failures, told, unseen, blind, returned>>

\* mutant: the tips are listed when git has finished
ReceiveThenList(q) ==
  /\ req[q].pc = "receive"
  /\ \/ Stays /\ Step(q, [req[q] EXCEPT !.pc = "report"]) /\ UNCHANGED made
     \/ \E new \in Tips \ {tip} :
          /\ MovesTo(new, req[q].before, TRUE)
          /\ Step(q, [req[q] EXCEPT !.pc = "report", !.new = new, !.before = new])
          /\ made' = made \cup ({new} \ {None})
  /\ UNCHANGED <<resets, open, page, tick, failures>>

\* receive-pack moves the branch to any commit the client has, or deletes it: the
\* hook (PushRules) and git's own comparison with the tip the client knows decide.
\* A push to another branch, or one that is refused, leaves it alone.
ReceivePack(q) ==
  /\ req[q].pc = "receive"
  /\ \/ Stays /\ Step(q, [req[q] EXCEPT !.pc = "report"]) /\ UNCHANGED made
     \/ \E new \in Tips \ {tip} :
          /\ MovesTo(new, req[q].before, TRUE)
          /\ Step(q, [req[q] EXCEPT !.pc = "report", !.new = new])
          /\ made' = made \cup ({new} \ {None})
  /\ UNCHANGED <<resets, open, page, tick, failures>>

\* runPostReceiveEffects: what differs from the first listing, among the branches that exist.
Report(q) ==
  /\ req[q].pc = "report" /\ req[q].kind \in {"push", "commit"}
  /\ Finish(q)
  /\ IF tip # None /\ tip # req[q].before
     THEN Reports(tip) /\ resets' = resets \cup {<<req[q].before, tip>>}
     ELSE UNCHANGED <<told, resets>>
  /\ UNCHANGED <<tip, made, open, page, tick, failures, unseen, blind, returned>>

\* An HTTP client that goes away: git fails, and the handler with it, before the report.
Hangup(q) ==
  /\ req[q].pc = "report" /\ req[q].kind = "push" /\ MayFail
  /\ Finish(q)
  /\ unseen' = (unseen \/ req[q].new # None)
  /\ blind' = (blind \/ req[q].new # None)
  /\ UNCHANGED <<tip, made, resets, open, page, tick, told, returned>>

-----------------------------------------------------------------------------
(***************************************************************************)
(* A commit from the web editor                                            *)
(***************************************************************************)
BeginCommit(q) ==
  /\ req[q].pc = "new" /\ "commit" \in Serves[q]
  /\ Step(q, [Waiting EXCEPT !.pc = "read", !.kind = "commit", !.before = tip])
  /\ UNCHANGED <<tip, made, resets, open, page, tick, failures, told, unseen, blind, returned>>

\* mutant: the commit follows the tip that was listed when the request came in
BuildOnListed(q) ==
  /\ req[q].pc = "read" /\ req[q].kind = "commit"
  /\ \E new \in Fresh(made, IF req[q].before = None THEN Root ELSE req[q].before) :
       /\ Step(q, [req[q] EXCEPT !.pc = "swap", !.base = tip, !.new = new])
       /\ made' = made \cup {new}
  /\ UNCHANGED <<tip, resets, open, page, tick, failures, told, unseen, blind, returned>>

\* commitChanges onto the branch itself, or onto a branch that is gone, from another one.
Build(q) ==
  /\ req[q].pc = "read" /\ req[q].kind = "commit"
  /\ \E new \in Fresh(made, IF tip = None THEN Root ELSE tip) :
       /\ Step(q, [req[q] EXCEPT !.pc = "swap", !.base = tip, !.new = new])
       /\ made' = made \cup {new}
  /\ UNCHANGED <<tip, resets, open, page, tick, failures, told, unseen, blind, returned>>

\* mutant: update-ref without the old value
SwapAnyway(q) ==
  /\ req[q].pc = "swap" /\ req[q].kind = "commit"
  /\ MovesTo(req[q].new, req[q].before, TRUE) /\ Step(q, [req[q] EXCEPT !.pc = "report"])
  /\ UNCHANGED <<made, resets, open, page, tick, failures>>

Swap(q) ==
  /\ req[q].pc = "swap" /\ req[q].kind = "commit"
  /\ IF tip = req[q].base
     THEN MovesTo(req[q].new, req[q].before, TRUE) /\ Step(q, [req[q] EXCEPT !.pc = "report"])
     ELSE Stays /\ Finish(q)
  /\ UNCHANGED <<made, resets, open, page, tick, failures>>

-----------------------------------------------------------------------------
(***************************************************************************)
(* Applying a suggestion to the head branch of an open pull request        *)
(***************************************************************************)
BeginSuggestion(q) ==
  /\ req[q].pc = "new" /\ "suggest" \in Serves[q] /\ open /\ tip # None
  /\ Step(q, [Waiting EXCEPT !.pc = "read", !.kind = "suggest", !.base = tip])
  /\ UNCHANGED <<tip, made, resets, open, page, tick, failures, told, unseen, blind, returned>>

ReadContent(q) ==
  /\ req[q].pc = "read" /\ req[q].kind = "suggest"
  /\ IF tip = None THEN Finish(q) ELSE Step(q, [req[q] EXCEPT !.pc = "count", !.read = Version[tip]])
  /\ UNCHANGED <<tip, made, resets, open, page, tick, failures, told, unseen, blind, returned>>

\* mutant: the clone may be at any tip
CommitAnywhere(q) ==
  /\ req[q].pc = "count" /\ req[q].kind = "suggest" /\ tip # None
  /\ \E new \in Fresh(made, tip) :
       /\ Step(q, [req[q] EXCEPT !.pc = "swap", !.new = new])
       /\ made' = made \cup {new}
  /\ UNCHANGED <<tip, resets, open, page, tick, failures, told, unseen, blind, returned>>

\* The clone must be at the tip that was read; the new commit replaces the file.
CommitInClone(q) ==
  /\ req[q].pc = "count" /\ req[q].kind = "suggest"
  /\ \/ /\ tip # req[q].base
        /\ Finish(q) /\ UNCHANGED made
     \/ /\ tip = req[q].base
        /\ \E new \in Fresh(made, tip) :
             /\ Step(q, [req[q] EXCEPT !.pc = "swap", !.new = new])
             /\ made' = made \cup {new}
  /\ UNCHANGED <<tip, resets, open, page, tick, failures, told, unseen, blind, returned>>

\* git push, not forced: the tip may have moved, but only to be extended.
PushSuggestion(q) ==
  /\ req[q].pc = "swap" /\ req[q].kind = "suggest"
  /\ IF FastForward(tip, req[q].new) /\ tip # req[q].new
     THEN MovesTo(req[q].new, req[q].base, TRUE) /\ Step(q, [req[q] EXCEPT !.pc = "report"])
     ELSE Stays /\ Finish(q)
  /\ UNCHANGED <<made, resets, open, page, tick, failures>>

\* After the comment is stamped: the reports name what this request did, not the tip.
ReportSuggestion(q) ==
  /\ req[q].pc = "report" /\ req[q].kind = "suggest"
  /\ Finish(q)
  /\ Reports(req[q].new)
  /\ resets' = resets \cup {<<req[q].base, req[q].new>>}
  /\ UNCHANGED <<tip, made, open, page, tick, failures, unseen, blind, returned>>

-----------------------------------------------------------------------------
(***************************************************************************)
(* Syncing the branch of a fork with its upstream, and a merge into it     *)
(***************************************************************************)
BeginSync(q) ==
  /\ req[q].pc = "new" /\ "sync" \in Serves[q]
  /\ Step(q, [Waiting EXCEPT !.pc = "count", !.kind = "sync", !.base = tip])
  /\ UNCHANGED <<tip, made, resets, open, page, tick, failures, told, unseen, blind, returned>>

\* Commits ahead and behind are counted at the branch as it is by now.
Count(q) ==
  /\ req[q].pc = "count" /\ req[q].kind = "sync"
  /\ IF req[q].base = None \/ (FastForward(tip, Upstream) /\ tip # Upstream /\ tip # None)
     THEN Step(q, [req[q] EXCEPT !.pc = "swap", !.new = Upstream])
     ELSE Finish(q)
  /\ UNCHANGED <<tip, made, resets, open, page, tick, failures, told, unseen, blind, returned>>

\* Without an old tip the ref is set whatever it is.
Sync(q) ==
  /\ req[q].pc = "swap" /\ req[q].kind = "sync"
  /\ IF req[q].base \in {None, tip}
     THEN MovesTo(Upstream, None, FALSE) /\ Step(q, [req[q] EXCEPT !.pc = "report"])
     ELSE Stays /\ Finish(q)
  /\ UNCHANGED <<made, resets, open, page, tick, failures>>

ReportSync(q) ==
  /\ req[q].pc = "report" /\ req[q].kind \in {"sync", "merge"}
  /\ Finish(q)
  /\ Reports(req[q].new)
  /\ UNCHANGED <<tip, made, resets, open, page, tick, failures, unseen, blind, returned>>

\* The merge of another pull request into this branch, and a conflict resolved on it.
MergeInto(q) ==
  /\ req[q].pc = "new" /\ "merge" \in Serves[q] /\ tip # None
  /\ \E new \in Fresh(made, tip) :
       /\ MovesTo(new, None, FALSE)
       /\ made' = made \cup {new}
       /\ Step(q, [Waiting EXCEPT !.pc = "report", !.kind = "merge", !.new = new])
  /\ UNCHANGED <<resets, open, page, tick, failures>>

-----------------------------------------------------------------------------
(***************************************************************************)
(* The branches page, the viewer, the pull request, and a restart          *)
(***************************************************************************)
\* POST .../branches: nothing is reported, and no tick is taken back.
CreateHead ==
  /\ tip = None
  /\ \E new \in made : MovesTo(new, new, FALSE)
  /\ UNCHANGED <<made, req, resets, open, page, tick, failures>>

\* DELETE .../branches/:branch, and the deletion of a merged head branch.
DeleteHead ==
  /\ tip # None
  /\ MovesTo(None, tip, TRUE)
  /\ UNCHANGED <<made, req, resets, open, page, tick, failures>>

LoadPage ==
  /\ tip # None
  /\ page' = VersionAt(tip)
  /\ UNCHANGED <<tip, made, req, resets, open, tick, failures, told, unseen, blind, returned>>

\* PUT .../viewed-files names the file, not the version that was on the page.
Tick ==
  /\ page # None
  /\ tick' = page
  /\ blind' = (page # VersionAt(tip))
  /\ UNCHANGED <<tip, made, req, resets, open, page, failures, told, unseen, returned>>

Untick ==
  /\ tick # None
  /\ tick' = None /\ blind' = FALSE
  /\ UNCHANGED <<tip, made, req, resets, open, page, failures, told, unseen, returned>>

CloseOrReopen ==
  /\ open' = ~open
  /\ UNCHANGED <<tip, made, req, resets, page, tick, failures, told, unseen, blind, returned>>

Differs(old, new) == old # None /\ Version[old] # Version[new]  \* mutant: a new branch has no diff
TakesBack(old, new) == old = None \/ Version[old] # Version[new]

\* resetViewedFilesForPush looks at open pull requests only.
Reset(old, new) ==
  /\ <<old, new>> \in resets
  /\ resets' = resets \ {<<old, new>>}
  /\ IF open /\ TakesBack(old, new)
     THEN tick' = None /\ blind' = FALSE
     ELSE /\ blind' = (blind \/ TakesBack(old, new))
          /\ UNCHANGED tick
  /\ UNCHANGED <<tip, made, req, open, page, failures, told, unseen, returned>>

\* listChangedPaths answers with no path when git fails.
ResetFails(old, new) ==
  /\ <<old, new>> \in resets /\ MayFail
  /\ resets' = resets \ {<<old, new>>}
  /\ blind' = TRUE
  /\ UNCHANGED <<tip, made, req, open, page, tick, told, unseen, returned>>

\* A restart forgets the requests in progress and what they had started.
Restart ==
  /\ Going \cup resets # {} /\ MayFail
  /\ req' = [q \in Requests |-> IF q \in Going THEN [Waiting EXCEPT !.pc = "done"] ELSE req[q]]
  /\ resets' = {}
  /\ unseen' = TRUE /\ blind' = TRUE
  /\ UNCHANGED <<tip, made, open, page, tick, told, returned>>

RefsNext ==
  \/ \E q \in Requests :
       \/ BeginPush(q) \/ ReceivePack(q) \/ Report(q) \/ Hangup(q)
       \/ BeginCommit(q) \/ Build(q) \/ Swap(q)
       \/ BeginSuggestion(q) \/ ReadContent(q) \/ CommitInClone(q) \/ PushSuggestion(q)
       \/ ReportSuggestion(q)
       \/ BeginSync(q) \/ Count(q) \/ Sync(q) \/ ReportSync(q) \/ MergeInto(q)
  \/ CreateHead \/ DeleteHead \/ LoadPage \/ Tick \/ Untick \/ CloseOrReopen
  \/ \E r \in resets : Reset(r[1], r[2]) \/ ResetFails(r[1], r[2])
  \/ Restart

RefsSpec == RefsInit /\ [][RefsNext]_refsVars

-----------------------------------------------------------------------------
(***************************************************************************)
(* When no request is in progress, where the branch points has been        *)
(* reported since it went there: no push, commit, suggestion or sync is    *)
(* lost on webhooks and CI however the listings of the tips overlap.  The  *)
(* exceptions: a branch made on the branches page, a push that brought the *)
(* tip back to where it was when that push began, a lost HTTP client, and  *)
(* a restart.                                                              *)
(***************************************************************************)
TipIsReported == Going = {} /\ tip # None /\ ~unseen => told

(***************************************************************************)
(* "A viewed tick only ever vouches for the version of the file it was     *)
(* ticked on" (pull-file-views.ts:9), once everything has settled.  The    *)
(* exceptions (blind): a tick from a page that was out of date, a merge or *)
(* a sync into the branch, a branch made on the branches page, a reset     *)
(* while the pull request was closed or that git failed, a push for which  *)
(* the file is as it was when the push began, a lost client, a restart.    *)
(***************************************************************************)
TickVouchesUnlessBlind ==
  Going = {} /\ resets = {} /\ tip # None /\ tick # None /\ ~blind => tick = Version[tip]

(***************************************************************************)
(* A commit from the editor, a suggestion and a sync never drop commits    *)
(* from the branch, whatever lands between their reads and their write.    *)
(* Two exceptions: the tip had gone back to a commit it once left, and a   *)
(* sync that found no branch.                                              *)
(***************************************************************************)
ServerNeverDiscards == [][
  \A q \in Requests : req[q].pc = "swap" /\ req'[q].pc = "report" =>
    FastForward(tip, tip') \/ returned \/ (req[q].kind = "sync" /\ req[q].base = None)]_refsVars

(***************************************************************************)
(* An applied suggestion was computed from the file as it is in the commit *)
(* it follows, though the tip and the content are read one after the other *)
(* (unless the tip had gone back to a commit it once left).                *)
(***************************************************************************)
SuggestionIsOfItsParent ==
  \A q \in Requests : req[q].kind = "suggest" /\ req[q].pc \in {"swap", "report"} /\ ~returned =>
    req[q].read = Version[Parent[req[q].new]]
=============================================================================

# ForgeHub, specified

ForgeHub is a self-hosted forge: repositories in bare git directories, a database
behind Prisma, one Node process that serves the API, git over HTTP and SSH, pull
requests, issues, CI runs and webhooks, and a web client.  The modules beside this file
specify, check and prove the parts of it where the order of events decides whether the
result is right.  All paths below are relative to `apps/api/src` unless they say
otherwise (`web/` stands for `apps/web/src`).

The core is modelled step by step: the CI runner, the merging of a pull request, the
numbering and transfer of issues, and what moves a branch and reports that it moved.
Around it stand smaller modules, one per service: protection rules, reviews, webhooks,
logs, repositories, organizations, project boards, designs, issues, and three pages of
the web client.

## 1. Inventory

One Node process runs everything but the web client.  Between two awaits JavaScript runs
a handler without a break; at an await anything else may run.  State lives in places that
fail differently: the **heap** of the process (lost by a restart), the **database** (each
statement atomic, few transactions), the **git directories** (each ref update atomic),
**files** beside them, and the **browser** (a copy of what the server answered at some
moment).  Few handlers use a transaction, none spans two of these places, so almost every
property below is about what an interleaving or a failure between two awaits leaves
behind.

| component | state | operations | interacts with |
|---|---|---|---|
| CI runner (`ci/runner.ts`, `routes/ci.ts`) | heap: `queue`, `activeRunId`, `cancelRequested`; rows `WorkflowRun`, `CheckRun` | `enqueueRun`, `pump`, `executeRun`, `executeCheck`, `cancelRun`, `failRun` | triggers enqueue, the cancel endpoint cancels, a green run signals auto-merge |
| CI triggers and retention (`ci/trigger.ts`, `ci/retention.ts`) | rows | create a run, record a parse failure, re-run, prune | runner |
| CI boot recovery (`ci/boot.ts`) | rows | `failOrphanedRuns`, sweep workspaces | runner, before the server listens |
| Check summary (`ci/summary.ts`, `auto-merge.ts`) | none (reads `CheckRun`) | `summarizeCheckRuns`, `checkSummaryForCommit` | branch protection, auto-merge |
| CI log sink (`ci/log-sink.ts`) | a counter, a file, the pipes of a step | write under a cap, pause, drain | runner |
| CI workflow files, step environment (`ci/workflows.ts`, `ci/step-env.ts`) | none | parse; build an environment | runner |
| Merging (`pull-merge.ts`, `git-utils.ts`, `merge/`, `pull-range.ts`) | base branch; row `PullRequest` | merge, squash, rebase, resolve, record, delete the head branch | endpoints, auto-merge, pushes |
| Auto-merge (`auto-merge.ts`) | heap: `inFlight`; `autoMerge*` columns | signal, re-validate, evaluate the gates, fire, disarm | reviews, CI, ready, arm |
| Reviews, threads (`review-summary.ts`, `routes/pr-comments.ts`, `routes/reactions.ts`) | rows | draft, submit, request, fulfil, reply, resolve, react, delete; summarize | merge gates, code owners |
| Branch and tag protection (`branch-protection.ts`, `git-hooks.ts`, `protected-tags.ts`) | rows; two rules files that the hook reads | set a rule, copy the rules, pre-receive; evaluate a merge | merge gates, pushes |
| Pull request lifecycle (`routes/pulls.ts`) | row | open, close, reopen, ready, draft, arm, disarm | merging, numbering |
| Push reception (`git-push-shared.ts`, `push-events.ts`, `routes/git-http.ts`, `ssh/server.ts`) | refs; listings of the tips in locals | list, receive-pack, compare, report | CI triggers, webhooks, code owners, viewed files |
| Ref updates by the server (`web-commit.ts`, `routes/contents.ts`, `routes/forks.ts`, `routes/branches.ts`) | refs | edit on the web, apply a suggestion, sync a fork, create and delete a branch | pushes, push reception |
| Code owners and viewed files (`codeowners-service.ts`, `pull-file-views.ts`) | rows | ask the owners of what changed; tick a file, take the tick back | push reception |
| Numbering (`numbering.ts`) | `Repo.lastNumber` | `nextNumber` | opening of pull requests, creation and transfer of issues |
| Webhooks (`webhook-service.ts`, `routes/webhooks.ts`) | rows `WebhookDelivery`; attempts in the heap | emit, attempt, record, retry, redeliver | every event |
| Issues, quick actions, timeline (`routes/issues.ts`, `quick-actions.ts`, `timeline-service.ts`) | rows, timeline events | create, patch, label, log time, run the commands of a comment, delete, transfer | numbering |
| Projects (`routes/projects.ts`) | columns and cards, each with a position | add, move, remove, reorder | the board's page |
| Design files (`routes/designs.ts`, `git-storage.ts`) | rows; a file per version | upload, delete | issues |
| Repositories and forks (`routes/repos.ts`, `routes/forks.ts`, `git-storage.ts`) | rows, redirects; bare repositories on disk | create, fork, rename, delete | everything |
| Organizations, collaborators, access (`routes/orgs.ts`, `repo-access.ts`, `watch-service.ts`) | rows | add, change, remove members; teams and grants; watch | every endpoint |
| Web client (`web/`) | copies of rows, requests under way | render, act, apply the answer or a guess of it | the API |
| Labels and milestones; references and notifications; releases; accounts, sessions, tokens; semantic formats and their runtime; ingestion of designs; SSH transport | rows, caches, I/O | see section 7 | |

What makes each hard, and what makes it correct:

* **CI runner.** The executor, any number of cancel requests, creations and retention
  passes interleave at every await, and its loop `pump` is re-entered by each enqueue.
  Correct: runs execute one at a time in order of submission, none is lost, every run and
  check ends, green is earned, cancels take effect, retention deletes what it should.
* **Merging.** git moves first, the row follows.  Two merges race on the same tips; a
  push moves the head under a call that has judged it.  Correct: the row and the base
  branch agree, work lands once, what lands satisfies the rules.
* **Auto-merge.** Driven by signals, without polling; a latch in the heap drops signals.
  Correct: one evaluation at a time, the latch is always released, an armed pull request
  whose gates are green is merged.
* **Numbering.** Three awaited statements hand out a number, across repositories whose
  rows are older than the counter.  Correct: a number names one thing, and an address
  that once named an issue leads to it.
* **Push reception and ref updates.** A push learns what it did from two listings of all
  tips, between which others move them; the editor reads a tip, builds a commit and swaps
  the ref.  Correct: where a branch went is reported by somebody, a tick on a file vouches
  for the version that was seen, the server never drops a commit somebody pushed.
* **Protection rules.** The hook cannot read the database and reads files that every push
  rewrites.  Correct: nothing lands against a rule that stood all along.
* **Reviews.** Lists are made before a cascade deletes, a request is fulfilled after the
  review that answers it.  Correct: threads and reactions hold together, a pending
  request is one that nobody answered.
* **Webhooks.** Retries sleep in the heap.  Correct: the log explains every delivery.
* **Log sink.** A cap, a marker that must fit under it, two pipes and one drain event.
* **Repositories.** Names, rows and directories are claimed one after the other.
  Correct: every row finds its own data on disk, an old name leads on.
* **Organizations.** Guards count owners that were read before.  Correct: an owner
  remains, teams are within the organization, who watches may read.
* **Boards, designs, issues.** Positions, version numbers and events are computed from a
  reading.  Correct: positions are dense, a version has its own bytes, the timeline tells
  the state.
* **Web client.** Answers come in any order and are applied to the copy of the time of
  the click.  Correct: once nothing is under way, the page shows what the server has.

`PROJECT.json` lists every component with its status, and every hazard at the line where
it bites with the properties about it.

## 2. Modules

| module | contents |
|---|---|
| `RunQueue` | abstract specification: a serial queue.  Runs are submitted, begun in order one at a time, each at most once; the worker never rests while one waits; a restart forgets |
| `CiRunner`, `MCCiRunner`, `CiRunnerProofs` | the CI runner, its triggers, re-runs, retention, cancel requests and boot recovery; implements `RunQueue` |
| `PullMerge`, `MCPullMerge`, `PullMergeProofs` | one pull request from open to merged: the merge and resolution endpoints, auto-merge, edits of the row, and what happens around them |
| `IssueNumbers`, `MCIssueNumbers`, `IssueNumbersProofs` | `nextNumber`, the opening of a pull request, the creation, deletion and transfer of issues |
| `Handlers` | what the request-serving modules below share: requests served once, clients served again and again, a bound on faults |
| `PushReception`, `MCPushReception`, `PushReceptionProofs` | what moves the head branch of a pull request, who reports it, and the ticks it takes back |
| `PushRules` | the rules of branches and tags, their copies for the hook, pushes and server-side writes |
| `Repositories` | rows, directories and redirects of one namespace |
| `Orgs` | an organization, a team of it, and access to a repository it owns |
| `MCAccess`, `AccessProofs` | instance of `PushRules`, `Repositories` and `Orgs`, and the theorems about each and about the three together |
| `PullReview`, `PullReviewProofs` | drafts, reviews, threads, reactions and requests for a review of one pull request |
| `Webhooks` | deliveries to the hooks of one repository |
| `LogSink` | the capped log of a job and the pipes that write it |
| `Board` | the board of a project, and the page that shows it |
| `Designs` | the uploads of one design, their rows and files |
| `Conversation` | one issue, the commands of comments, the endpoints, and its timeline |
| `PageRequests`, `IssuePage`, `PullPage` | the requests of a web page; the page of an issue; the page of a pull request |
| `PagesProofs` | theorems about the three pages, that of the board with the rows behind it |
| `MCServices`, `ServicesProofs` | instance of `PullReview` and of the groups below it in this table; theorems about `Webhooks`, `LogSink`, `Designs` and `Conversation`, and about all of them together |

A definition whose comment says *mutant* is a plausible mistake in the code, kept beside
the definition it would replace; `PROJECT.json` pairs each property with one that breaks
it, so that no property holds by the shape of the model.

Names of variables are the columns, locals and component states of the code where TLA+
allows it.  A module that splits a handler keeps what the handler knows at its await in
one record per request, with the place in `pc` or `at`.

### CiRunner

Database: `row` (status and conclusion of each run in one value; `none` not created,
`gone` deleted by retention), `check`, `commit`, `rerunOf`, `broken` (runs whose workflow
file does not parse).  Heap: `queue`, `active` = `activeRunId`, `cancelRequested`, and
the executor's place: `pc`, `todo`, `job`, `verdict`, `anyFailed`.  `creator`, `cancel`
and `boot` are the requests and the recovery in progress.

| action | code |
|---|---|
| `Create`, `Rerun`, `ParseFailure` | `ci/trigger.ts` up to the insert |
| `Enqueue` | `enqueueRun` and the synchronous part of `pump` |
| `PruneFind`, `PruneDelete` | `pruneCompletedRuns`, before and after it removes directories |
| `Load`, `MarkRunning`, `ClaimJob`, `JobBody`, `SettleJob`, `Conclude` | `executeRun` and `executeCheck`, one action per await |
| `CancelRemaining`, `CancelActiveRow`, `FinalizeActiveJobs`, `FinalizeActiveRow` | the cancelled exits |
| `RowVanished`, `ExecutorDbError`, `FailRun` | a rejected call and the catch of `pump` |
| `CancelAsk`, `CancelRun`, `CancelFinalizeJobs`, `CancelFinalizeRow`, `CancelDbError` | `POST .../cancel` and `cancelRun` |
| `Crash`, `BootFind`, `BootFailJobs`, `BootFailRows`, `BootDbError` | restart and `failOrphanedRuns` |

`EndRun` includes the next turn of `pump`'s loop, which follows without an await.  What a
job does is one step with any outcome, at the moment of its last look at the flag.

### PullMerge

Row: `state`, `draft`, `armed`, `mergeSha`, `range`; `armer` sums up the arming user's
account, rights and method.  Repository: `head` is the version of the head branch, `base`
the commits of the base branch, each with the version it brings and how (a merge commit,
a squash, a replayed or fast-forwarded rebase, or foreign work).  From these follow what
git would answer: `IsAncestor` (already merged), `Carried` (nothing left to commit).
`call` holds the merge calls and evaluations, `edit` the edits of the row between read
and update, `signals` the auto-merge signals under way, `inFlight` the latch.

| action | code |
|---|---|
| `Request` | `POST .../merge`, `POST .../merge-resolve`: state and draft |
| `Signal`, `AutoRead`, `Disarm` | `maybeAutoMergeForCommit`, `maybeAutoMergePr` |
| `ReadHead`, `Gate` | the gates of the endpoints and of `evaluateAutoMergeGates` |
| `ReadRange`, `Clone`, `Push`, `Record`, `Sweep` | `executePullMerge`, the three merge methods, `deleteMergedHeadBranch` |
| `EditBegins`, `EditWrite` | `PATCH .../pulls/:number`, ready, draft, auto-merge routes |
| `PushHead`, `PushBase`, `CheckStarts`, `CheckEnds`, `SubmitReview`, `ArmerChanges` | the surroundings |
| `RecordRefused`, `Crash` | failures between the push and the row |

### IssueNumbers

`lastNumber` is the counter of each repository, `place` the repository and number of each
issue and pull request, `events` the timeline's "transferred" events in order, `req` the
requests that stand at an await of `nextNumber` or of the transfer.  `Init` allows rows
that were numbered before the counter, each kind on its own, with the counter at 0, as
the migration leaves them.

| action | code |
|---|---|
| `OpenPull`, `Transfer` | `POST .../pulls`, `POST .../transfer`, up to `nextNumber` |
| `Read`, `Raise`, `Increment` | `nextNumber`, one action per statement |
| `CreateIssue` | `POST .../issues`: the same three statements and the insert, in one transaction |
| `Store` | the insert of the pull request; the update of the issue; both may be refused |
| `RecordOut`, `RecordIn`, `EventRefused` | the two events of a transfer, each best effort |
| `DeleteIssue`, `Crash` | deletion by id; a restart between two awaits |

`PointsTo` is the answer of `GET .../issues/:number` for a number that no issue has.
Deleted issues leave their identifier free for a new one once no request holds it.

### PushReception

One branch, the head of one pull request, with one file and one viewer.  `tip` is the
branch, `made` the commits that exist, `req` the requests in progress (the tip they listed
`before`, the tip they build on `base`, the commit they bring `new`), `resets` the ticks
still to be taken back, `page` and `tick` what the viewer sees and vouches for.

| action | code |
|---|---|
| `BeginPush`, `ReceivePack`, `Report`, `Hangup` | `git-push-shared.ts`: the listing before, git, the listing after and the reports; an HTTP client that goes away makes the handler fail in between |
| `BeginCommit`, `Build`, `Swap` | `routes/contents.ts`, `commitChanges` of `web-commit.ts`: reads the tip, builds, swaps with the old value |
| `BeginSuggestion`, `ReadContent`, `CommitInClone`, `PushSuggestion`, `ReportSuggestion` | the apply endpoint of `routes/pr-comments.ts` and its clone in `git-utils.ts` |
| `BeginSync`, `Count`, `Sync`, `ReportSync` | the sync of `routes/forks.ts` |
| `MergeInto` | a merge of another pull request into this branch, in one step |
| `CreateHead`, `DeleteHead` | `routes/branches.ts`, and the deletion of a merged head |
| `LoadPage`, `Tick`, `Untick`, `Reset`, `ResetFails` | viewed files: `pull-file-views.ts` |
| `CloseOrReopen`, `Restart` | the surroundings |

`MCPushReception` explores two scenes, so that their states add up: three requests move
the branch and nobody looks; or two requests move it, and a viewer looks.

### PushRules

`rules` are the rows, `listed` what the two files beside the repositories say, `exists`
the refs.  A request (`call`) copies the rows to a file in three steps, as `writeFile`
does: it reads the rows, empties the file, writes it.  Two copies may interleave at each.

| action | code |
|---|---|
| `ReadRules`, `ReadFails`, `Open`, `RemoveFile`, `Write`, `WriteFails` | `syncProtectionConfig` and its twin for tags, with the `writeProtectionConfig` of `git-hooks.ts` |
| `SetRule` | `PUT` and `DELETE` of a protection |
| `Begin`, `Receive` | a push: both copies, then receive-pack with the hook of `git-hooks.ts` |
| `ServerWrite`, `Act`, `CreateBranch` | the endpoints that write refs themselves, and the tests they make (the branches page makes none) |

### Repositories

`repo` holds name and storage key of each row, `dir` what is at each key on disk,
`redirect` the redirects of names, `op` what each client's request knows.

| action | code |
|---|---|
| `BeginCreate`, `Claim`, `GitInit`, `InsertRow`, `Undo` | `POST /repos` and `createBareRepo`, with its roll-back |
| `BeginFork`, `CloneMirror` | `routes/forks.ts` |
| `BeginRename`, `Access`, `Move`, `Commit`, `MoveBack` | both rename routes and `moveBareRepo`; only the newer one writes redirects |
| `BeginDeleteRepo`, `DropRow`, `RemoveStorage` | `DELETE /repos/...` |
| `CutShort` | the process ends in between |

### Orgs

`member`, `onTeam`, `grant`, `collab`, `public` decide `CanRead`, `CanWrite`, `CanAdmin`
as `repo-access.ts` does; `watching` are the subscriptions that come with access.

| action | code |
|---|---|
| `LoadAdd`, `LoadChange`, `LoadRemove`, `LoadTeamAdd` | `loadOrgForManage` and the guards that follow it |
| `AddMember`, `ChangeRole`, `RemoveMember`, `AddToTeam` | the writes, after another await |
| `LeaveTeam`, `SetGrant`, `DeleteTeam`, `SetVisibility` | handlers with a single write |
| `AddCollaborator`, `Watch`, `RemoveCollaborator`, `Prune`, `Unwatch` | collaborators, `ensureImplicitWatch`, `pruneWatchOnAccessLoss` |

### PullReview

| action | code |
|---|---|
| `FindDraft`, `CreateDraft`, `AddComment` | a comment on a line, in a draft that may have to be made |
| `PostReview`, `BeginSubmit`, `Submit`, `Fulfil` | a review at once or from a draft; the request it answers, in a call of its own |
| `Ask`, `Withdraw`, `FindOwner`, `RequestOwner` | requests for a review, by hand and for code owners |
| `FindRoot`, `Reply`, `Resolve`, `BeginReact`, `React` | threads and reactions |
| `BeginDiscard`, `BeginDelete`, `ListCascade`, `Delete`, `Sweep` | deletions: what the foreign keys take along is listed first, so that its reactions can be swept |
| `CutOff` | a process that ends, or a best-effort write that fails |

### Webhooks and LogSink

`EmitEvent`, `Compose`, `Attempt`, `Record` are `emitRepoEvent` and `deliverWithRetries`
of `webhook-service.ts`, one action per await; `CreateHook` sends a ping, `Redeliver` asks
for one more attempt, `LookUpHook` is the second look of both.  `RestartSender` loses what
is under way.  `LogSink` has a line of the runner (`Frame`), a chunk of a process
(`PipeData`), whose pipe is paused when the stream of the file is full, and `Drain`.

### Board

`place` and `item` are columns and cards with their stored positions; equal positions are
listed in any order.  `change` holds the requests, of the page and of others; `page` is
what `ProjectBoardView.tsx` shows: it applies a move at once (`Send`), and puts back what
it had when the answer is a failure (`Hears`).  `Look` is the reading of a handler, and
`MoveInTransaction`, `RemoveInTransaction`, `AddInTransaction`, `AddColumnInTransaction`,
`DeleteColumnInTransaction`, `ReorderInTransaction` its transaction.  `drift` collects why
the page may differ from the board afterwards: a change by others, an answer that was
lost, two changes of its own at once, or a change of its own to a list in which positions
tie.

### Designs

An upload is `FindDesign`, `MakeDesign`, `OpenFile`, `FinishFile`, `RecordVersion`,
`MakeCurrent` (`routes/designs.ts`), or `AbortUpload`; a deletion `FindToDelete`,
`UnlinkVersions`, `EraseRows`; `RestartUploads` ends the process.  A file is an inode and
the requests with bytes in it: a second writer of a path empties the file it finds and
shares its inode, and a removed path leaves the writer its inode.

### Conversation

`field`, `labels`, `spent` are the issue, `told` what the timeline's last event says.  The
commands of a comment (`PostComment`, then `ApplyField`, `LoadAppliedLabels`,
`ApplyLabel`, `ApplySpend`) work on a copy that was read before the first of them;
`PatchIssue` and `WritePatch`, `PostLabel`, `DeleteLabel`, `PutSpent` are the endpoints;
`Tell` records an event, each after its change; `RestartConversation` ends the process.

### IssuePage and PullPage

The page keeps a copy, sends requests, and applies each answer to the copy that its
closure captured at the click, or to none.  `PageRequests` says which answers overtake
which.  `IssuePage`: `OpenIssue`, `GoToIssue`, `ToggleState`, `ToggleLabel`, `Fix`,
`Comment` are the viewer, `ServeIssue` the server, `Edit` others, `Deliver`,
`DeliverComment`, `Fails` the answers (`IssueDetailView.tsx`, `Sidebar.tsx`).
`PullPage`: `OpenPull`, `GoToPull`, `SwitchTab`, `Press`, `PressBox`, `Review`; `Effect`
loads a list that is missing; `ServePull`, `Moved`, `Refuse`; `DeliverAction`,
`DeliverRow`, `DeliverList`, `DeliverReview`, `DeliverRefusal`, `Lost`
(`PullDetail.tsx`, `MergeBox.tsx`, `RepoPullsTab.tsx`).

## 3. Runs

Runs marked *fails* check a statement the repository makes and the code does not keep;
section 6 describes them.

| run | checks | distinct states |
|---|---|---|
| `ci_races` (`CiRunner.cfg`) | `TypeOK`, `NoStrandedRun`, `GreenMeansEveryJobPassed`, `CancelHonoured`, `ClosedRunHasNoPendingJob`, `VerdictIsFinal` | 2.6 million |
| `ci_order_and_retention` (`CiRunnerThree.cfg`) | `ImplementsSerialQueue`, `RetentionKeepsNewest` | 1.2 million |
| `ci_liveness` (`CiRunnerLive.cfg`) | `RunsComplete`, `ChecksComplete` | 20 thousand |
| `pull_landing` (`PullMerge.cfg`) | `TypeOK`, `MergedRowIsBacked`, `NoWorkLandsTwice`, `LandingIsRecorded`, `OneEvaluation` | 3.2 million |
| `pull_gates` (`PullMergeGates.cfg`) | `GatesHoldUnlessRaced` | 3.2 million |
| `issue_numbers` (`IssueNumbers.cfg`) | `TypeOK`, `NumberNamesOne`, `OldUrlPointsUnlessTangled` | 0.9 million |
| `push_reception` (`PushReception.cfg`) | `RefsTypeOK`, `TipIsReported`, `TickVouchesUnlessBlind`, `SuggestionIsOfItsParent`, `ServerNeverDiscards` | 1.1 million |
| `access` (`Access.cfg`) | `AccessTypeOK`, `StandingRuleHolds`, `RowsHaveTheirStorage`, `OldNamesLeadOn`, `MembershipHolds`, `WatchersCanRead` | 0.6 million |
| `services` (`Services.cfg`) | `ServicesTypeOK`, `CommentsHoldTogether`, `PendingMeansUnanswered`, `ExplainedByLog`, `LogIsMarkedPrefix`, `PausedWillResume`, `PositionsAreDense`, `PagesShowWhatIsSo`, `VersionsAreWhole`, `IssueIsItsHistory` | 0.3 million |
| `ci_rerun_clears_red`, `auto_merge_fires`, `org_has_owner` | *fails*, one property each | |

What they show:

* **Queue.** With three runs, so that two wait while one executes, the runner's `queue`
  and `active` are a serial queue, through cancels that splice the middle of it.
* **Nobody is stranded.** A run that is not completed is about to be enqueued, waits,
  executes, is being finalized, or will be found by the boot recovery, unless the very
  write that should have repaired it was refused.  Under fairness every run and check ends.
* **Green is earned, cancels count.** No mixture of cancels, refused calls and crashes
  makes a run read success over a job that failed, or after a cancel that came while
  `executeRun` was still to look.  A verdict stays, and a closed run has no pending check.
* **Retention** never deletes the executing run nor one of the newest `RetentionCap`
  completed ones, although it deletes by ids it read earlier.
* **Landing.** Two racing merges, resolutions and evaluations never bring the same work
  in twice, and a row that reads MERGED names a commit at or after one that carries its
  range; what has landed is recorded unless the process or the database failed, or a
  close that had read the row before overwrote it.
* **Gates.** For a call that nothing changed under, what lands is an open, ready head
  with the approvals, checks and intent the rules ask for at that moment.
* **Numbers.** Two things share a number only when both had it before the counter; the
  old address of a transferred issue leads to its new place when the counter had passed
  the number and only one transfer of the issue was under way.
* **Branches.** However the listings of overlapping pushes interleave with editor
  commits, suggestions, syncs and merges, the last tip is reported, a tick that should
  fall falls, a suggestion follows the commit it was computed from, and the server never
  writes over a commit it has not seen.
* **Rules.** A push can slip past a rule only while another request is rewriting the
  rules file between the push's own copy of the rules and its hook.
* **Storage and names.** Creations, forks, renames and deletions that roll back at any
  await leave every row with its data, unless one of them took hold of a directory that
  another had just put there; an old name leads to its repository until it is taken.
* **Organizations.** The last owner is lost only through a stale count or an upsert over
  him; nobody watches what he may not read once the pruning has run.
* **Services.** Threads and reactions hold together, pending requests are unanswered, the
  log of a webhook explains each delivery, the log of a job is a marked prefix of its
  output and no pipe sleeps for good, positions are dense, recorded versions have their
  bytes, timelines tell the state, and the pages show what is so.

### Bounds, and why they are enough

* `CiRunner`: two runs give every race of two activities over a run and its successor;
  two jobs, a job before and after a cancel; two cancel requests, one erasing the flag of
  the other; one crash and one refused call, each at any point.  Three runs with one job
  in the second instance are the fewest for order in the queue and for overlapping
  retention passes at `RetentionCap` = 1, the boundary where a run is deleted as soon as
  a newer one completes.
* `PullMerge`: two calls, since at most two can be between clone and push of the same tip
  and the third sees a moved tip like the second; two versions of the head, since a call
  compares the one it saw with a later one; `MaxTip` = 2, for the second landing; one
  fault.  The base branch of `pull_landing` moves only by the pull request itself;
  `pull_gates` has `PushBase`.  One call and one reviewer in `pull_gates`: the property
  speaks of one call, and the rule asks for one approval.
* `IssueNumbers`: two repositories, two requests, two issues and a pull request; at most
  one legacy row of each kind; three numbers, for a legacy number, one in hand and one
  more; three transfers, so that an issue may go and come back; one failure or deletion.
  An issue that two transfers had in hand at once (`tangled`) ends the exploration.
* `PushReception`: the server and two pushes, since a push goes wrong by what one other
  does between its two listings; five commits, two of which change the file back, so that
  a listing may miss a change that came and went; one fault.  With the viewer, two
  requests and four commits.
* `access`: three requests over one branch and one tag (a change of a rule, and two
  copies of the same file); two clients over two repositories and two names; two clients
  over two users, one of them the creator; one fault each.
* `services`: three requests; two drafts and two comments, a root and its reply, and one
  reviewer; one hook and `MAX_ATTEMPTS` = 3 as in the code; a cap of 8 bytes with a marker
  of 3 and chunks of 0, 1, 3 and 7, so that one fills the content exactly, one crosses it
  and one is empty; two changes of a board with two subjects in three columns; comments of
  two commands; two issues and two pull requests per page, two requests under way at
  once, one foreign change.

The instances of `access` and `services` explore their components one after another,
because these share no state: their product would show nothing that the sum does not.
`Explored` in both is a constraint that leaves behind states in which a history variable
already excuses what the property would say, and, for the page of a pull request, a few
combinations that only multiply states; its comment names them.

The proofs of section 5 remove these bounds for the properties they cover.

Symmetry is declared only for sets whose elements no operator orders (jobs, commits,
requests; calls, editors, reviewers; repositories, issues, pull requests; pushes) and
never in a run with a liveness property.  In `access` and `services` a permutation of the
three requests that is odd swaps each pair of the other components too, which keeps the
set of permutations a group.  `LandingView` leaves out only `raced`, which no guard reads
and which none of the run's properties needs; `TypeOK`'s conjunct about `raced` is
therefore checked on one of its values per state there, and proved in `PullMergeProofs`.
`MCView` leaves out of the scene without a viewer what only a viewer could tell apart.
Deadlock is not checked: every instance really stops, when its clients have no more to
ask and its bounds are used up.

### Fairness

`CiRunner!Fairness`: every activity that has begun goes on (weak fairness of each
creation, of the executor, of each cancel and of the boot recovery).  Promises settle,
a step's child process exits or is killed at its deadline, and a supervisor restarts the
process.  Nothing obliges a client to act, the database to refuse or the process to
crash.  With crashes bounded, `RunsComplete` says that a run ends once the process stays
up.  `PullMerge!Fairness` is the same for calls, signals, edits and checks.  The other
modules state safety only: their properties speak of the moment when nothing is in
progress, or of every moment.

## 4. Properties

Each module has one type invariant; its remaining properties are aimed at the hazards of
`PROJECT.json`.  Three conjoin what belongs together: `CommentsHoldTogether`
(`ThreadsAreFlat`, `ReactionsAreSwept`), `MembershipHolds` (`OwnerUnlessStale`,
`TeamWithinOrg`), `IssueIsItsHistory` (`TimelineTellsState`, `SpentIsWhatWasLogged`), and
`PagesShowWhatIsSo` is that of the three pages.

Exceptions are named, never hidden, by history variables or fields that no guard of a module reads:

| module | exceptions |
|---|---|
| `CiRunner` | `early` (runs cancelled before they were enqueued), `threw` (whose execution threw), `abandoned` (whose repairing write was refused) |
| `PullMerge` | `reopened` (a close or reopen that overwrote MERGED), `raced` (calls under which something changed) |
| `IssueNumbers` | `tangled` (issues with two transfers at once), `due` (the number was the counter's and its pointer was not lost) |
| `PushReception` | `unseen` (the one who moved the branch could not tell), `blind` (a tick was not taken back, for a reason its comment lists), `returned` (a tip that went back to an earlier commit) |
| `PushRules` | `author` (whose copy a rules file holds) |
| `Repositories` | `crossed` (a step got hold of a directory that is not its request's), `severed` (a request was cut short over a repository) |
| `Orgs` | `stale` (a role was taken on a count that was out of date), `late` (put on the team after leaving), `kept` (a subscription that nothing prunes) |
| `PullReview` | `missed` (a request and a review that crossed, or a cut-off), `stray` (a reaction outside the list of a cascade) |
| `Webhooks` | `gaps` (deliveries cut off or with an attempt that was not recorded) |
| `Board` | `ragged` (columns not numbered as a whole), `drift` (why page and database may differ) |
| `Designs` | `spoiled` (a file opened a second time), `adrift` (a version not made the current one) |
| `Conversation` | `raced` (what two requests changed at once), `untold` (of which an event was lost) |
| `IssuePage`, `PullPage` | `behind`, `aside` (changed by others), `crossed`, `muddled` (an answer over a copy that had been replaced), `outdated` (lists of another pull request or an older head) |

`LogSink!offered`, `Conversation!logged`, `Repositories!former` and `PullReview!answered` are
what the properties compare the state with.  Where an exception hides a statement of the
repository, section 6 says what happens without it.

## 5. Theorems

Checked by TLAPS for all values of the constants that satisfy the modules' assumptions:
any sets of runs, jobs, commits, requests, calls, editors, methods, issues, repositories,
users, hooks, chunks, labels, columns and cards, any rules, any lists of commands and any
bounds.  Every invariant and every action property that a passing run checks is stated by
one of them; what is left to TLC alone is liveness.

| theorem | says |
|---|---|
| `CiRunnerProofs!TypeCorrect` | `[]TypeOK` |
| `CiRunnerProofs!OnePlaceAtATime` | a run is in one place of the queue, or active, or still to come |
| `CiRunnerProofs!SerialQueue` | the runner implements `RunQueue` |
| `CiRunnerProofs!NoRunIsStranded` | `[]NoStrandedRun` |
| `CiRunnerProofs!GreenIsEarned` | `[]GreenMeansEveryJobPassed` |
| `CiRunnerProofs!VerdictsAreFinal` | `VerdictIsFinal`, an action property |
| `CiRunnerProofs!CancelsAreHonoured` | `[]CancelHonoured` |
| `CiRunnerProofs!NoPendingJobIsLeft` | `[]ClosedRunHasNoPendingJob` |
| `CiRunnerProofs!NewestAreKept` | `[]RetentionKeepsNewest` |
| `PullMergeProofs!TypeCorrect` | `[]TypeOK` |
| `PullMergeProofs!LatchIsReleased` | `[]OneEvaluation` |
| `PullMergeProofs!MergedIsBacked` | `[]MergedRowIsBacked` |
| `PullMergeProofs!WorkLandsOnce` | `[]NoWorkLandsTwice` |
| `PullMergeProofs!LandingsAreRecorded` | `[]LandingIsRecorded` |
| `PullMergeProofs!GatesHold` | `GatesHoldUnlessRaced`, an action property |
| `IssueNumbersProofs!TypeCorrect` | `[]TypeOK` |
| `IssueNumbersProofs!OneThingPerNumber` | `[]NumberNamesOne` |
| `IssueNumbersProofs!OldUrlsPoint` | `[]OldUrlPointsUnlessTangled` |
| `PushReceptionProofs!RefsTypes` | `[]RefsTypeOK` |
| `PushReceptionProofs!TipReported` | `[]TipIsReported` |
| `PushReceptionProofs!TicksVouch` | `[]TickVouchesUnlessBlind` |
| `PushReceptionProofs!SuggestionFits` | `[]SuggestionIsOfItsParent` |
| `PushReceptionProofs!NothingDiscarded` | `ServerNeverDiscards`, an action property |
| `AccessProofs!RulesAreKept` | `StandingRuleHolds`, an action property |
| `AccessProofs!RowsAreStored` | `[]RowsHaveTheirStorage` |
| `AccessProofs!RedirectsLeadOn` | `[]OldNamesLeadOn` |
| `AccessProofs!Membership` | `[]MembershipHolds` |
| `AccessProofs!Watchers` | `[]WatchersCanRead` |
| `AccessProofs!AccessTypes` | `[]AccessTypeOK`, of the three modules side by side |
| `PullReviewProofs!CommentsHold` | `[]CommentsHoldTogether` |
| `PullReviewProofs!PendingUnanswered` | `[]PendingMeansUnanswered` |
| `ServicesProofs!DeliveriesExplained` | `[]ExplainedByLog` |
| `ServicesProofs!LogPrefix` | `[]LogIsMarkedPrefix` |
| `ServicesProofs!PipesResume` | `[]PausedWillResume` |
| `ServicesProofs!VersionsWhole` | `[]VersionsAreWhole` |
| `ServicesProofs!TimelineAndTime` | `[]IssueIsItsHistory` |
| `PagesProofs!PositionsDense` | `[]PositionsAreDense` |
| `PagesProofs!BoardIsShown` | `[]PageShowsBoard`, the page of a board |
| `PagesProofs!IssueIsShown` | `[]IssuePageShows`, the page of an issue |
| `PagesProofs!PullIsShown` | `[]PullPageShows`, the page of a pull request |
| `ServicesProofs!PagesAreRight` | `[]PagesShowWhatIsSo`, the three pages together |
| `ServicesProofs!ServicesTypes` | `[]ServicesTypeOK`, of the eight groups side by side |

The last two and `AccessTypes` are about the composed specifications `MCServices!MCSpec`
and `MCAccess!MCSpec`: each implements the specification of every part
(`PartsAreTheirOwn`), since a part takes its own step or stays, so that what is proved of
the part holds of the whole.  The types of each part are theorems or lemmas of their own
(`RulesTypes`, `ReposTypes`, `OrgTypes`, `ReviewTypes`, `HookTypes`, `DesignTypes`,
`IssueTypes`, `BoardTypes`).

What the theorems assume of the constants is in named `ASSUME`s of the modules, which TLC
evaluates on every run.  Most say that a bound is a natural number, or that `None`, which
stands for an absent row, commit or answer, is none of the things it stands for the
absence of (`NoneIsNoRow`, `NoneIsNoCard`, `NoneIsNoCopy`, `NoneIsNoRequest`,
`NoneIsNoId`): `null` is no id.  The others:

* `NoneIsItsOwnAncestor`, `CommitsAreATree`: a commit's name is a hash of its parents, so
  no history has a cycle.
* `KeysAreApart`: the key of a fork is drawn at random, so that it is no name and no other
  repository's, and a name with `-fork` after it is a name.
* `RequestsAreFinite`, `BoardIsFinite`: finitely many uploads number the versions, and a
  board has finitely many columns and cards; positions count them.
* `DefaultsDiffer`: the columns a project begins with are distinct rows.
* `IdsApart`: the key of a new card is that of no card already there.
* `ListsHoldCommands`, `NamesApart`: a comment asks for commands the parser knows, and a
  history entry names a field, a label or the time, which are different kinds of event.

The arguments:

* **Serial queue.** `Placed` says that the queue has no duplicates, holds neither the
  active run nor one to be enqueued, and is empty when nothing is active.  It is needed
  because a step's effect on the abstract queue depends on where the run is: an enqueue
  of a run that is already waiting would not be a `Submit`.  With it every action maps to
  a step of `RunQueue` or to a stutter.
* **No loss.** `NoStrandedRun` is not inductive alone: a crash makes it true through
  `boot`, and the recovery must then know that its `orphans` are still all the runs that
  are not completed.  `NoLoss` adds that: nothing else runs while the recovery does.
* **Green.** `GreenInv` carries `executeRun`'s local: while the run executes and
  `anyFailed` is not set, the jobs that are neither in `todo` nor in hand have succeeded.
  It also says that a run that reads success is past the queue and the executor, so that
  nobody writes its checks any more but to close pending ones, of which it has none.
* **Verdicts, cancels, closed runs.** `FinalInv` says that a completed run is past the
  queue, the executor and every creation (save the early ones), so that whoever still
  writes it does so under a guard on its status.  `HonourInv` adds what each cancel
  relies on: its flag is still set and the executor will look at it, or the run can no
  longer end well.  `ClosedInv` carries the order of the writes: whoever stands before
  the write of the row (`ExecutorCloses`, `CancelsClose`, `BootCloses`) has closed the
  jobs, and nobody opens one again.
* **Landing.** `Carries` says what a call knows at each await: the range it read is
  covered by the version it cloned, since the head only advances; if the tip is still the
  one it cloned, its version is not merged; what it is about to record is on the base
  branch.  The lemma `Moves` sums up what a step may do to calls, base, head and row, so
  that each theorem is proved over kinds of change and not over all actions.
* **Latch.** `LatchInv`: the latch is set exactly while an evaluation is in flight, and
  there is at most one.
* **Gates.** `JudgedInv`: under a call that nothing changed under, the pull request is
  still open and ready; past its gate the rules still pass; at its push the version it
  holds is the head.  `raced` is set by every step
  that could change this, which is what the proof checks.
* **Numbers.** `NumberInv` says what a request knows at each await of `nextNumber`: after
  the reads, each row is within the floor or, if it came later, within the counter; after
  the raise, every row is within the counter; after the increment, the number in hand is
  in nobody else's hand and on no row.  This is why the raise, although separate from the
  reads, is enough.
* **Reports and ticks.** `RefsInv`: if the tip has not been told, whoever moved the branch
  there last still has its report to make, and its listing differs from the tip
  (`Announced`); if a tick stands on another version, a report or a waiting reset will
  take it back (`TickIsTrue`); and what each request knows of its commit and its base
  (`Sound`).  The argument is about the last mover only, which is why any number of
  overlapping pushes needs no more.
* **Reviews.** `ReviewInv`: ids are never used twice, a root outlives its replies, a
  reaction to a row that went is in the list of a sweep that is still to run, and a
  request that a review answered is fulfilled or the fulfilment is on its way.
* **Webhooks.** `HookInv`, per delivery: the log holds as many attempts as were made, but
  for the one being recorded, and all but the last are broken.
* **Retention.** `RetainInv` counts: whoever is deleted, or in the list of a pass that
  is still to delete, is outlived by `RetentionCap` newer runs that ended.  Runs that
  ended stay ended, or are gone because they were outlived themselves; the newest of those
  that are gone has its successors still there, which is why overlapping passes add no
  harm.
* **Old addresses.** A transfer that holds a number has it alone (`HandedApart`), and an
  issue that is not `tangled` is in the hands of one request; an address that was left is
  then left by one move, nobody comes there again, and its pointer is the last event there
  or the next that its request writes (`LeftPointing`).  The theorem needs no `Explored`:
  it goes on past the states where the run stops.
* **Suggestions, and what the server drops.** The ancestors of a commit (`Past`) are the
  least set that contains it and follows parents, not a recursive function, so that what
  the proofs need of them (transitive, antisymmetric, a child adds itself) follows
  without induction.  `ForwardOnly`: until the tip goes back, it only moves on from what
  a request saw, so the compare-and-swap of the push finds the very commit the suggestion
  was computed from.
* **Rules.** `RulesInv`: a push that has its own copy in the file knows that the file has
  every rule that has stood since it began (`Copies`), because it read them after that
  (`Aware`).  A file whose author is another is the exception of the property.
* **Repositories.** `ReposInv`: the data of a repository is at one place at most, a
  repository in the making is nobody else's, and, until a step gets hold of another's
  directory (`crossed`), what a request made or moved is where it left it
  (`DirsInHand`).
* **Designs.** `DesignInv`: two uploads that hold a number of one path have it `spoiled`;
  the versions are `1..current`, or one more while the upload that recorded it is still to
  make it current, and that one keeps every other from being recorded (`InOrder`).
* **Conversation.** `IssueInv`: of a field or a label that no two requests changed at
  once, one request at most owes the timeline an event (`OwedByOne`), and either that
  event or the last one told is what the issue has (`ToldOrOwed`).
* **Positions.** `BoardInv`: the rows stay dense because every transaction numbers the
  lists that it touches anew.  That such a list exists for any finite set of cards is
  shown by a least counterexample (`SortedListsExist`), and that numbering it gives
  `0..n-1` by counting (`NumberedIsDense`).
* **The page of a board.** `PageFollows`: with nothing of its own under way, the page is a
  list of the rows; with one request it is what that request makes of the page it was sent
  from, as long as it is undecided, and after the transaction it is what the answer
  completes to the rows.  The step from page to rows rests on `OneOrder`: a set whose
  positions do not tie has one sorted list, so that client and server, which order the
  same cards, order them alike.
* **The pages of an issue and of a pull request.** Answers have an order, the one in which
  the server gave them, and the page takes them in any.  The copy is right in the end if
  the last answer, taken in order, leaves it right; if not, a read is still to be answered
  or an answer is marked already as overtaken or computed from a copy that is no longer
  shown (`CopyWillBeRight`, `RowWillBeRight`).  A pull request is compared up to what its
  page shows of it once it is merged or closed (`Visible`).  Its lists are in place, owed,
  or on their way with the present head (`ListsWillBeRight`).
* **Organizations.** `OrgInv`: a write that takes an owner's role had read a second owner
  who is still one, unless somebody's role was taken since (`stale`); a watcher can read,
  is to be pruned, or is in `kept`.
* **Log sink.** `SinkInv`: the sink's counter and the file agree on every byte, and the
  first write that crosses the cap leaves room for the marker; a pipe is paused only by a
  write that left the stream congested.

Every invariance proof has one step per action.  Where many actions touch
little, a lemma about a kind of change stands between (`PullMergeProofs!Moves`,
`PullReviewProofs!Passes`, `PushReceptionProofs!Moved`, `PagesProofs!CommitFollows`).
Induction over numbers is done through least elements: a set of naturals with an element
has a least one (`LeastOfNaturals`, from the well-foundedness of `<`).

Three of the proofs found the models wrong where the runs are too small to see it, and
the models were changed:

* `PullPage`: a list of an earlier visit to a pull request may still be on its way when
  the viewer comes back and the branch has moved meanwhile; it is then shown with the old
  head.  The code does so (`PullDetail.tsx:165-171`), and `outdated` now records it
  (`LeftBehind`).
* `PullPage!ByHand` chose by alternatives that overlapped, of which a refused action met
  two; they are apart now.
* `Board`: where positions tie, a move of the viewer may be shown in one order and
  numbered by the server in another.  It takes four requests, two more than the run has;
  TLC finds it on an instance of that size, and `drift` now records it (`"ties"`).

Only model-checked: the liveness properties `RunsComplete` and `ChecksComplete`, which
need fairness and `ENABLED`, out of the prover's reach.

## 6. Where the code departs from what the repository says

| run | statement | what happens |
|---|---|---|
| `ci_rerun_clears_red` | `ci/boot.ts:58`: a re-run clears a red check | the summary of a commit adds up the checks of every run of it, the failed one included |
| `auto_merge_fires` | `auto-merge.ts:11`: it merges itself the moment its gates are all green | a push that makes an objection stale sends no signal, and a signal during an evaluation is dropped |
| `org_has_owner` | `routes/orgs.ts:257`: an organization always has an owner | `POST .../members` is an upsert without the guard: the only owner names himself with the role MEMBER |

Each of the following is a step the models take, and where the last column names one, an
exception of a property that otherwise holds: without the exception TLC shows it.

| where | statement | what happens (exception) |
|---|---|---|
| CI | `ci/runner.ts:84`: a cancelled queued run never starts | a run is visible from its insert, and enqueued after the await; a cancel in between finalizes it and it is executed all the same (`early`) |
| CI | `ci/boot.ts:83`: no completed run with pending jobs | `failRun` completes the row and leaves its checks pending; the recovery looks only for runs that are not completed (`threw`) |
| merging | `auto-merge.ts:206`: newer, unchecked work is not merged | the head is judged by sha and merged by name: a push in between is merged (`raced`) |
| issues | `routes/issues.ts:795`: the old URL resolves to a 410 pointer | in a repository from before the counter, the highest number can be transferred out before the counter passes it, and is then handed out again (`due`) |
| pushes | a push is reported | over HTTP a client that goes away after git is done makes the handler fail before the report; over SSH it does not (`unseen`) |
| branches | a new branch is reported, a protected one is not written | `POST .../branches` emits nothing and asks for no rule (`unseen`; `CreateBranch`) |
| fork sync | the branch is set only from the tip that was seen (`git-utils.ts:602`) | when the fork had no such branch the ref is set without an old value, and a branch pushed meanwhile is overwritten; a sync takes no tick back (`base = None`, `blind`) |
| viewed files | `pull-file-views.ts:7-10`: a tick vouches for the version it was made on | a tick made on a page that is out of date, and one reset while the pull request is closed (`blind`) |
| suggestions | a suggestion is applied and stamped once | two requests may apply one after the other: the second follows the first's commit, with a change computed from it |
| rules | `branch-protection.ts:17`: the file is a per-push snapshot of the database | it is emptied before it is written, and rewritten by every push: a push whose hook runs in between is not stopped (`author`) |
| repositories | `mkdir` claims a path for one creation | a move or a removal that follows another request's claim takes that directory along (`crossed`); the older rename route leaves no redirect |
| organizations | a team is a part of its organization | a member who is removed while he is being added to a team stays on it (`late`) |
| designs | `git-storage.ts:66-67`: a stored version is never rewritten | two uploads that read the same number write to one path; the second, whose insert fails, removes the file of the first (`spoiled`) |
| boards | `apps/api/prisma/schema.prisma:1129`: positions are dense | a card that another request moved after it was read leaves a gap in the column it was in (`ragged`), and cards whose positions tie are ordered by the page and by the server each in its way (`drift`) |
| web, pull request | the page shows the pull request of its address | `PullDetail` is not keyed by its number: commits and files of the former one stay, and a suggestion makes it read the files anew and not the commits (`outdated`) |
| web, issue | the page shows the issue | labels are set on the copy of the time of the click, over what another answer brought; a comment that fails puts an error in the place of the issue (`crossed`, `failed`) |

Hazards that no property covers yet, beside the one in `PROJECT.json`: the epilogue of
`merge-resolve`, a second copy that does not clear an armed intent (`routes/pulls.ts:798`);
the forced deletion of a merged head wherever it is by then (`pull-merge.ts:73`); a
project numbered by a count, which a deletion makes collide (`routes/projects.ts:220`);
assets of a release uploaded at once under one name; the cap on pinned issues, counted
before it is used (`routes/issues.ts:683`); a `/close` in a comment on a pull request
that is merged meanwhile (`quick-actions.ts:199`); a log served while it grows
(`routes/ci.ts:199`); a handle taken by a user and an organization at once
(`owner-resolve.ts:9`).

## 7. What is left out

* Credentials, validation of input, formatting, notifications and logging.
* CI: which workflows an event selects; the early return of `executeRun` for a repository
  without storage; deletion of a repository, which cascades over its runs; the sweep of
  workspaces at boot; what a job's steps do; webhooks emitted on the way.
* Merging: the contents of a merge and the conflict sessions (a merge may stop on a
  conflict or not); reverts; force pushes to the head branch of `PullMerge` (there the
  head only advances; in `PushReception` it goes anywhere); the many reads of one gate
  evaluation are one step, and so are the reading of the live range and the update of the
  row in a close; another pull request of the same branch.
* Numbers: labels and comments of a transferred issue; two events of the same
  millisecond, which the timeline orders arbitrarily; a failing transaction, which
  changes nothing.
* Pushes: the wire protocol; more than one branch of a push, but for the rules; which
  paths an owner owns.
* Reviews: the text of a comment and its editing; outdated anchors.  Repositories:
  settings but visibility, stars, topics.  Organizations: archiving, profiles, explicit
  subscriptions.  Boards: creation, closing and deletion of a project, names of columns.
  Issues: commands on a pull request, pins, locks, milestones and their filter.  Pages:
  everything that only renders, and all pages but three.
* Whole components.  Labels and milestones, references and notifications, are single
  rows nobody waits for.  Accounts, sessions and tokens are credentials.  Workflow
  parsing, semantic diff, entities and merge handlers are pure computations over text and
  geometry, and the runtime that executes handlers, the ingestion and SSH are I/O: their
  states are far too large for a model checker, their order of events harmless.  Most of
  the repository's lines are of this kind, or render pages.

## 8. Plan

What remains, in this order:

1. **Opening of pull requests**: the test for an open pull request of the same branches
   (`routes/pulls.ts:225`), composed with `IssueNumbers`; two requests may both pass it.
2. **CI and merging composed**: `CiRunner`'s completion of a run as the signal of
   `PullMerge`, on one small instance, to check that a green run fires an armed merge.
3. **The second merge epilogue** and the forced deletion of the head, in `PullMerge` with
   a head that pushes may move after the landing.
4. **Releases** (assets, as in `Designs`) and **pins**, small additions to `services`.
5. **Proofs** for what 1 to 4 add.  Of the present modules every invariant and action
   property is proved; liveness stays with TLC.

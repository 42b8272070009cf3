------------------------------ MODULE CiRunner ------------------------------
(***************************************************************************)
(* The CI runner of the API process: WorkflowRun and CheckRun rows in the  *)
(* database, and, in the heap of the one Node process, the queue, the run  *)
(* being executed and the set of cancelled runs.  Request handlers, the    *)
(* executor and the boot recovery interleave at every await; everything    *)
(* between two awaits is one step, because JavaScript runs it without a    *)
(* break.  A crash loses the heap and keeps the rows.                      *)
(***************************************************************************)
EXTENDS Naturals, SequencesExt

CONSTANTS
  Runs,          \* ids of the workflow runs, numbered in creation order
  Jobs,          \* the jobs of a workflow file
  Commits,       \* commits that runs are created for
  Requests,      \* POST .../cancel requests
  RetentionCap,  \* FORGEHUB_CI_RETENTION: completed runs kept
  MaxCrashes,    \* bound: crashes of the process
  MaxDbErrors,   \* bound: database calls that reject
  None           \* no run, no job, no commit

ASSUME RunsAssumption == Runs \subseteq Nat /\ None \notin Runs
ASSUME JobsAssumption == None \notin Jobs /\ Jobs # {}
ASSUME BoundsAssumption ==
  RetentionCap \in Nat /\ MaxCrashes \in Nat /\ MaxDbErrors \in Nat

VARIABLES
  \* the database
  row,        \* status and conclusion of each WorkflowRun
  check,      \* status and conclusion of each CheckRun
  commit,     \* WorkflowRun.commitSha
  rerunOf,    \* WorkflowRun.rerunOfId
  broken,     \* runs whose workflow file does not parse (their commit never changes)
  \* the heap of the process
  queue,            \* runner.ts queue
  active,           \* runner.ts activeRunId
  cancelRequested,  \* runner.ts cancelRequested
  pc,         \* where the executor stands
  todo,       \* jobs of the active run that have not begun
  job,        \* the job in hand
  verdict,    \* its conclusion, before it is stored
  anyFailed,  \* executeRun's local
  creator,    \* where the trigger that creates each run stands
  stale,      \* what its retention pass found
  cancel,     \* the cancel requests in progress
  boot,       \* "up", or the step the boot recovery has reached
  orphans,    \* runs the boot recovery found
  \* bounds and history
  crashes, dbErrors,
  early,      \* history: runs a cancel reached before they were enqueued
  threw,      \* history: runs whose execution threw
  abandoned   \* history: runs whose last repairing write was refused

origin == <<commit, rerunOf, broken>>
dbVars == <<row, check, origin>>
heap == <<queue, active, cancelRequested>>
locals == <<todo, job, verdict, anyFailed>>
creators == <<creator, stale>>
recovery == <<boot, orphans>>
history == <<early, threw, abandoned>>
bounds == <<crashes, dbErrors>>
\* what no step of the executor touches
surroundings == <<origin, creators, cancel, recovery, bounds, history>>
vars == <<dbVars, heap, pc, locals, creators, cancel, recovery, bounds, history>>

Conclusions == {"success", "failure", "cancelled"}
Pending == {"queued", "running"}
RowStates == {"none", "gone"} \cup Pending \cup Conclusions
CheckStates == {"none"} \cup Pending \cup Conclusions

Completed(r) == row[r] \in Conclusions
Exists(r) == row[r] \notin {"none", "gone"}
NotCompleted == {r \in Runs : row[r] \in Pending}

TypeOK ==
  /\ row \in [Runs -> RowStates]
  /\ check \in [Runs -> [Jobs -> CheckStates]]
  /\ commit \in [Runs -> Commits \cup {None}]
  /\ rerunOf \in [Runs -> Runs \cup {None}] /\ broken \subseteq Runs
  /\ queue \in Seq(Runs)
  /\ active \in Runs \cup {None}
  /\ cancelRequested \subseteq Runs
  /\ pc \in {"idle", "load", "mark", "claim", "body", "settle", "cancelJobs",
             "cancelRow", "finalJobs", "finalRow", "conclude", "fail"}
  /\ todo \subseteq Jobs
  /\ job \in Jobs \cup {None}
  /\ verdict \in Conclusions \cup {None}
  /\ anyFailed \in BOOLEAN
  /\ creator \in [Runs -> {"idle", "created", "enqueued", "pruning"}]
  /\ stale \in [Runs -> SUBSET Runs]
  /\ cancel \in [Requests -> [at: {"idle", "asked", "jobs", "row", "done"},
                              run: Runs \cup {None}, inTime: BOOLEAN]]
  /\ \A c \in Requests : cancel[c].at # "idle" => cancel[c].run # None
  /\ pc = "settle" => verdict \in Conclusions
  /\ boot \in {"up", "find", "jobs", "rows"}
  /\ orphans \subseteq Runs
  /\ crashes \in 0..MaxCrashes /\ dbErrors \in 0..MaxDbErrors
  /\ early \subseteq Runs /\ threw \subseteq Runs /\ abandoned \subseteq Runs

Init ==
  /\ row = [r \in Runs |-> "none"]
  /\ check = [r \in Runs |-> [j \in Jobs |-> "none"]]
  /\ commit = [r \in Runs |-> None]
  /\ rerunOf = [r \in Runs |-> None] /\ broken = {}
  /\ queue = <<>> /\ active = None /\ cancelRequested = {}
  /\ pc = "idle" /\ todo = {} /\ job = None /\ verdict = None /\ anyFailed = FALSE
  /\ creator = [r \in Runs |-> "idle"]
  /\ stale = [r \in Runs |-> {}]
  /\ cancel = [c \in Requests |-> [at |-> "idle", run |-> None, inTime |-> FALSE]]
  /\ boot = "up" /\ orphans = {}
  /\ crashes = 0 /\ dbErrors = 0
  /\ early = {} /\ threw = {} /\ abandoned = {}

-----------------------------------------------------------------------------
(***************************************************************************)
(* Helpers.                                                                *)
(***************************************************************************)

\* mutant: updateMany { status: "running" }, over checks and over rows
CloseRunningChecks(rs, how) ==
  [r \in Runs |-> [j \in Jobs |->
     IF r \in rs /\ check[r][j] = "running" THEN how ELSE check[r][j]]]
CloseRunningRows(rs, how) == [r \in Runs |-> IF r \in rs /\ row[r] = "running" THEN how ELSE row[r]]

\* mutant: the guard on the status is missing
CloseAnyRows(rs, how) == [r \in Runs |-> IF r \in rs /\ Exists(r) THEN how ELSE row[r]]

\* updateMany { status: { not: "completed" } } over the checks of the runs in rs
CloseChecks(rs, how) ==
  [r \in Runs |-> [j \in Jobs |->
     IF r \in rs /\ check[r][j] \in Pending THEN how ELSE check[r][j]]]

\* updateMany { status: { not: "completed" } } over the rows in rs
CloseRows(rs, how) == [r \in Runs |-> IF r \in rs /\ row[r] \in Pending THEN how ELSE row[r]]

\* update { where: id }: it rejects when the row has been deleted
SetRow(r, st) == [row EXCEPT ![r] = st]
SetCheck(r, j, st) == [check EXCEPT ![r] = [@ EXCEPT ![j] = st]]

\* mutant: the newest run first
PumpNewest(q) ==
  IF q = <<>>
  THEN queue' = <<>> /\ active' = None /\ pc' = "idle"
  ELSE queue' = Front(q) /\ active' = Last(q) /\ pc' = "load"

\* One turn of pump()'s loop over the queue q: shift and publish the run, or stop.
Pump(q) ==
  IF q = <<>>
  THEN queue' = <<>> /\ active' = None /\ pc' = "idle"
  ELSE queue' = Tail(q) /\ active' = Head(q) /\ pc' = "load"

ForgetLocals == todo' = {} /\ job' = None /\ verdict' = None /\ anyFailed' = FALSE

\* mutant: the loop is left after one run
EndRunResting ==
  /\ active' = None /\ pc' = "idle" /\ UNCHANGED queue
  /\ cancelRequested' = cancelRequested \ {active}
  /\ ForgetLocals

\* The finally of pump()'s loop, and the next turn, which follows without an await
EndRun ==
  /\ Pump(queue)
  /\ cancelRequested' = cancelRequested \ {active}
  /\ ForgetLocals

\* The head of executeRun's loop over the jobs; rest are the jobs not begun.  The flag is
\* looked at before a job and not after the last.  The order of the jobs is that of the
\* generated ids, which the model leaves open.
NextJob(rest, failed) ==
  /\ anyFailed' = failed
  /\ verdict' = None
  /\ \/ /\ rest = {}
        /\ pc' = "conclude" /\ todo' = {} /\ job' = None
     \/ /\ rest # {} /\ active \in cancelRequested
        /\ pc' = "cancelJobs" /\ todo' = rest /\ job' = None
     \/ /\ active \notin cancelRequested
        /\ \E j \in rest : job' = j /\ todo' = rest \ {j} /\ pc' = "claim"

Executing(at) == boot = "up" /\ pc = at /\ active # None

-----------------------------------------------------------------------------
(***************************************************************************)
(* Triggers: a push, an opened pull request, or a re-run creates a run,    *)
(* then (the insert was awaited) enqueues it, then prunes old runs.        *)
(***************************************************************************)

\* createdAt orders the runs by id
NextId(r) == row[r] = "none" /\ \A q \in Runs : q < r => row[q] # "none"

Insert(r, c, st) ==
  /\ boot = "up"
  /\ NextId(r)
  /\ row' = SetRow(r, st)
  /\ check' = [check EXCEPT ![r] = [j \in Jobs |-> st]]
  /\ commit' = [commit EXCEPT ![r] = c]

\* createAndEnqueueRun, up to the await of its insert
Create(r, c) ==
  /\ Insert(r, c, "queued")
  /\ creator' = [creator EXCEPT ![r] = "created"]
  /\ UNCHANGED <<rerunOf, broken, heap, pc, locals, stale, cancel, recovery, bounds, history>>

\* POST .../rerun and createRerun: a fresh run of the source's commit and jobs
Rerun(r, src) ==
  /\ Exists(src)
  /\ Insert(r, commit[src], "queued")
  /\ rerunOf' = [rerunOf EXCEPT ![r] = src]
  /\ broken' = IF src \in broken THEN broken \cup {r} ELSE broken
  /\ creator' = [creator EXCEPT ![r] = "created"]
  /\ UNCHANGED <<heap, pc, locals, stale, cancel, recovery, bounds, history>>

\* recordParseFailure: a run that is born completed and never enqueued
ParseFailure(r, c) ==
  /\ Insert(r, c, "failure")
  /\ broken' = broken \cup {r}
  /\ UNCHANGED <<rerunOf, heap, pc, locals, creators, cancel, recovery, bounds, history>>

\* enqueueRun: push, then pump(), which takes the run at once when nothing executes
Enqueue(r) ==
  /\ boot = "up"
  /\ creator[r] = "created"
  /\ creator' = [creator EXCEPT ![r] = "enqueued"]
  /\ IF active = None THEN Pump(Append(queue, r))
                      ELSE queue' = Append(queue, r) /\ UNCHANGED <<active, pc>>
  /\ UNCHANGED <<dbVars, cancelRequested, locals, stale, cancel, recovery, bounds, history>>

\* mutant: one run too few is kept
PrunableOneMore ==
  {r \in Runs : Completed(r) /\
     Cardinality({q \in Runs : q > r /\ Completed(q)}) + 1 >= RetentionCap}

\* completed runs with RetentionCap newer completed ones
Prunable ==
  {r \in Runs : Completed(r) /\
     Cardinality({q \in Runs : q > r /\ Completed(q)}) >= RetentionCap}

\* pruneCompletedRuns: the findMany
PruneFind(r) ==
  /\ boot = "up"
  /\ creator[r] = "enqueued"
  /\ stale' = [stale EXCEPT ![r] = Prunable]
  /\ creator' = [creator EXCEPT ![r] = IF Prunable = {} THEN "idle" ELSE "pruning"]
  /\ UNCHANGED <<dbVars, heap, pc, locals, cancel, recovery, bounds, history>>

\* pruneCompletedRuns: the deleteMany, by id alone; CheckRun rows cascade
PruneDelete(r) ==
  /\ boot = "up"
  /\ creator[r] = "pruning"
  /\ row' = [q \in Runs |-> IF q \in stale[r] THEN "gone" ELSE row[q]]
  /\ check' = [q \in Runs |-> [j \in Jobs |->
                 IF q \in stale[r] THEN "none" ELSE check[q][j]]]
  /\ stale' = [stale EXCEPT ![r] = {}]
  /\ creator' = [creator EXCEPT ![r] = "idle"]
  /\ UNCHANGED <<origin, heap, pc, locals, cancel, recovery, bounds, history>>

-----------------------------------------------------------------------------
(***************************************************************************)
(* executeRun, split at its awaits.                                        *)
(***************************************************************************)

\* findUnique; a run that is gone is skipped, a cancelled one never starts
Load ==
  /\ Executing("load")
  /\ \/ row[active] = "gone" /\ EndRun
     \/ /\ row[active] # "gone"
        /\ pc' = IF active \in cancelRequested THEN "finalJobs" ELSE "mark"
        /\ UNCHANGED <<heap, locals>>
  /\ UNCHANGED <<dbVars, creators, cancel, recovery, bounds, history>>

\* status := running, whatever the status was
MarkRunning ==
  /\ Executing("mark")
  /\ row[active] # "gone"
  /\ row' = SetRow(active, "running")
  /\ NextJob(Jobs, FALSE)
  /\ UNCHANGED <<check, surroundings, heap>>

\* executeCheck: the check row becomes running
ClaimJob ==
  /\ Executing("claim")
  /\ row[active] # "gone"
  /\ check' = SetCheck(active, job, "running")
  /\ pc' = "body"
  /\ UNCHANGED <<row, surroundings, heap, locals>>

\* mutant: a way out of executeCheck that forgets to set a conclusion
JobBodyUnconcluded ==
  /\ Executing("body")
  /\ pc' = "settle"
  /\ UNCHANGED <<dbVars, heap, todo, job, verdict, anyFailed, creators, cancel, recovery, bounds, history>>

\* mutant: a killed step is taken for what it exits with, the flag is not looked at
JobBodyDeaf ==
  /\ Executing("body")
  /\ verdict' \in IF active \in broken THEN {"failure"} ELSE {"failure", "success"}
  /\ pc' = "settle"
  /\ UNCHANGED <<dbVars, heap, todo, job, anyFailed, creators, cancel, recovery, bounds, history>>

\* loadJob, cloneCommit, runSteps: the moment of the last look at cancelRequested.
\* A workflow that cannot be read fails the job before that look is taken.
JobBody ==
  /\ Executing("body")
  /\ \/ verdict' = "failure"
     \/ active \in cancelRequested /\ verdict' = "cancelled"
     \/ active \notin cancelRequested \cup broken /\ verdict' = "success"
  /\ pc' = "settle"
  /\ UNCHANGED <<dbVars, heap, todo, job, anyFailed, creators, cancel, recovery, bounds, history>>

\* mutant: the last job decides
SettleLastJob ==
  /\ Executing("settle")
  /\ row[active] # "gone"
  /\ check' = SetCheck(active, job, verdict)
  /\ IF verdict = "cancelled"
     THEN /\ pc' = "cancelJobs" /\ verdict' = None /\ job' = None
          /\ UNCHANGED <<todo, anyFailed>>
     ELSE NextJob(todo, verdict = "failure")
  /\ UNCHANGED <<row, surroundings, heap>>

\* executeCheck stores the conclusion and returns it to executeRun's loop
SettleJob ==
  /\ Executing("settle")
  /\ row[active] # "gone"
  /\ check' = SetCheck(active, job, verdict)
  /\ IF verdict = "cancelled"
     THEN /\ pc' = "cancelJobs" /\ verdict' = None /\ job' = None
          /\ UNCHANGED <<todo, anyFailed>>
     ELSE NextJob(todo, anyFailed \/ verdict = "failure")
  /\ UNCHANGED <<row, surroundings, heap>>

\* the cancelled exit: markRemainingCancelled ...
CancelRemaining ==
  /\ Executing("cancelJobs")
  /\ check' = CloseChecks({active}, "cancelled")
  /\ pc' = "cancelRow"
  /\ UNCHANGED <<row, surroundings, heap, locals>>

\* ... then the row, unconditionally
CancelActiveRow ==
  /\ Executing("cancelRow")
  /\ row[active] # "gone"
  /\ row' = SetRow(active, "cancelled")
  /\ EndRun
  /\ UNCHANGED <<check, surroundings>>

\* finalizeCancelled called by the executor: both writes are guarded
FinalizeActiveJobs ==
  /\ Executing("finalJobs")
  /\ check' = CloseChecks({active}, "cancelled")
  /\ pc' = "finalRow"
  /\ UNCHANGED <<row, surroundings, heap, locals>>

FinalizeActiveRow ==
  /\ Executing("finalRow")
  /\ row' = CloseRows({active}, "cancelled")
  /\ EndRun
  /\ UNCHANGED <<check, surroundings>>

\* the normal exit
Conclude ==
  /\ Executing("conclude")
  /\ row[active] # "gone"
  /\ row' = SetRow(active, IF anyFailed THEN "failure" ELSE "success")
  /\ EndRun
  /\ UNCHANGED <<check, surroundings>>

\* an awaited write rejects because retention deleted the row
RowVanished ==
  /\ boot = "up" /\ pc \in {"mark", "claim", "settle", "cancelRow", "conclude"}
  /\ active # None
  /\ row[active] = "gone"
  /\ pc' = "fail"
  /\ threw' = threw \cup {active}
  /\ UNCHANGED <<dbVars, heap, locals, creators, cancel, recovery, bounds, early, abandoned>>

\* an awaited call rejects because the database refused it
ExecutorDbError ==
  /\ boot = "up" /\ active # None
  /\ pc \notin {"idle", "body", "fail"}
  /\ dbErrors < MaxDbErrors
  /\ dbErrors' = dbErrors + 1
  /\ pc' = "fail"
  /\ threw' = threw \cup {active}
  /\ UNCHANGED <<dbVars, heap, locals, creators, cancel, recovery, crashes, early, abandoned>>

\* pump's catch: failRun updates the run row and nothing else; its own failure is
\* swallowed, whether the row is gone or the database refuses
FailRun ==
  /\ Executing("fail")
  /\ \/ /\ row' = IF row[active] = "gone" THEN row ELSE SetRow(active, "failure")
        /\ UNCHANGED <<dbErrors, abandoned>>
     \/ /\ dbErrors < MaxDbErrors
        /\ dbErrors' = dbErrors + 1
        /\ abandoned' = abandoned \cup {active}
        /\ UNCHANGED row
  /\ EndRun
  /\ UNCHANGED <<check, origin, creators, cancel, recovery, crashes, early, threw>>

-----------------------------------------------------------------------------
(***************************************************************************)
(* POST .../cancel, split at its awaits.                                   *)
(***************************************************************************)

At(c, where) == boot = "up" /\ cancel[c].at = where
GoTo(c, where) == cancel' = [cancel EXCEPT ![c].at = where]

\* the route reads the run; absent and completed ones are answered 404 and 409
CancelAsk(c, r) ==
  /\ At(c, "idle")
  /\ row[r] \in Pending
  /\ cancel' = [cancel EXCEPT ![c] = [@ EXCEPT !.at = "asked", !.run = r]]
  /\ UNCHANGED <<dbVars, heap, pc, locals, creators, recovery, bounds, history>>

\* executeRun still looks at cancelRequested after this point, whatever happens next
StopStillSeen ==
  pc \in {"load", "mark", "claim", "body"} \/ (pc = "settle" /\ todo # {})

\* queue.splice(queue.indexOf(r), 1)
Dequeue(r) ==
  \/ /\ ~Contains(queue, r)
     /\ UNCHANGED queue
  \/ \E i \in 1..Len(queue) :
       /\ queue[i] = r
       /\ \A k \in 1..(i - 1) : queue[k] # r
       /\ queue' = RemoveAt(queue, i)

\* cancelRun before its first await: flag, dequeue, and kill when the run is active
CancelRun(c) ==
  LET r == cancel[c].run IN
  /\ At(c, "asked")
  /\ cancelRequested' = cancelRequested \cup {r}
  /\ Dequeue(r)
  /\ cancel' = [cancel EXCEPT ![c] =
                  [@ EXCEPT !.at = IF active = r THEN "done" ELSE "jobs",
                            !.inTime = active = r /\ StopStillSeen]]
  /\ early' = IF creator[r] = "created" THEN early \cup {r} ELSE early
  /\ UNCHANGED <<dbVars, active, pc, locals, creators, recovery, bounds, threw, abandoned>>

\* finalizeCancelled called by cancelRun: the jobs ...
CancelFinalizeJobs(c) ==
  /\ At(c, "jobs")
  /\ check' = CloseChecks({cancel[c].run}, "cancelled")
  /\ GoTo(c, "row")
  /\ UNCHANGED <<row, origin, heap, pc, locals, creators, recovery, bounds, history>>

\* ... then the row, and the flag is dropped
CancelFinalizeRow(c) ==
  /\ At(c, "row")
  /\ row' = CloseRows({cancel[c].run}, "cancelled")
  /\ cancelRequested' = cancelRequested \ {cancel[c].run}
  /\ GoTo(c, "done")
  /\ UNCHANGED <<check, origin, queue, active, pc, locals, creators, recovery, bounds, history>>

\* a refused write rejects the request: the flag stays and the run is not finalized
CancelDbError(c) ==
  /\ At(c, "jobs") \/ At(c, "row")
  /\ dbErrors < MaxDbErrors
  /\ dbErrors' = dbErrors + 1
  /\ abandoned' = abandoned \cup {cancel[c].run}
  /\ GoTo(c, "done")
  /\ UNCHANGED <<dbVars, heap, pc, locals, creators, recovery, crashes, early, threw>>

-----------------------------------------------------------------------------
(***************************************************************************)
(* Crash, and failOrphanedRuns before the server listens again.            *)
(***************************************************************************)

Crash ==
  /\ crashes < MaxCrashes
  /\ crashes' = crashes + 1
  /\ queue' = <<>> /\ active' = None /\ cancelRequested' = {} /\ pc' = "idle"
  /\ ForgetLocals
  /\ creator' = [r \in Runs |-> "idle"]
  /\ stale' = [r \in Runs |-> {}]
  /\ cancel' = [c \in Requests |->
                  IF cancel[c].at = "idle" THEN cancel[c]
                  ELSE [cancel[c] EXCEPT !.at = "done"]]
  /\ boot' = "find" /\ orphans' = {}
  /\ UNCHANGED <<dbVars, dbErrors, history>>

BootFind ==
  /\ boot = "find"
  /\ orphans' = NotCompleted
  /\ boot' = IF NotCompleted = {} THEN "up" ELSE "jobs"
  /\ UNCHANGED <<dbVars, heap, pc, locals, creators, cancel, bounds, history>>

BootFailJobs ==
  /\ boot = "jobs"
  /\ check' = CloseChecks(orphans, "failure")
  /\ boot' = "rows"
  /\ UNCHANGED <<row, origin, heap, pc, locals, creators, cancel, orphans, bounds, history>>

BootFailRows ==
  /\ boot = "rows"
  /\ row' = CloseRows(orphans, "failure")
  /\ boot' = "up" /\ orphans' = {}
  /\ UNCHANGED <<check, origin, heap, pc, locals, creators, cancel, bounds, history>>

\* recovery is best-effort: a refused call is logged and the server starts
BootDbError ==
  /\ boot # "up"
  /\ dbErrors < MaxDbErrors
  /\ dbErrors' = dbErrors + 1
  /\ abandoned' = abandoned \cup NotCompleted
  /\ boot' = "up" /\ orphans' = {}
  /\ UNCHANGED <<dbVars, heap, pc, locals, creators, cancel, crashes, early, threw>>

-----------------------------------------------------------------------------
Trigger(r) ==
  \/ \E c \in Commits : Create(r, c) \/ ParseFailure(r, c)
  \/ \E src \in Runs : Rerun(r, src)

CreatorStep(r) == Enqueue(r) \/ PruneFind(r) \/ PruneDelete(r)

ExecutorStep ==
  \/ Load \/ MarkRunning \/ ClaimJob \/ JobBody \/ SettleJob
  \/ CancelRemaining \/ CancelActiveRow \/ FinalizeActiveJobs \/ FinalizeActiveRow
  \/ Conclude \/ RowVanished \/ FailRun

CancelStep(c) == CancelRun(c) \/ CancelFinalizeJobs(c) \/ CancelFinalizeRow(c)

BootStep == BootFind \/ BootFailJobs \/ BootFailRows

Next ==
  \/ \E r \in Runs : Trigger(r) \/ CreatorStep(r)
  \/ ExecutorStep \/ ExecutorDbError
  \/ \E c \in Requests : CancelStep(c) \/ CancelDbError(c) \/ \E r \in Runs : CancelAsk(c, r)
  \/ Crash \/ BootStep \/ BootDbError

Spec == Init /\ [][Next]_vars

\* Promises settle, children exit or are killed at their deadline, and a supervisor
\* restarts the process: every started activity goes on.  Nothing obliges a client
\* to act, the database to refuse or the process to crash.
Fairness ==
  /\ \A r \in Runs : WF_vars(CreatorStep(r))
  /\ WF_vars(ExecutorStep)
  /\ \A c \in Requests : WF_vars(CancelStep(c))
  /\ WF_vars(BootStep)

FairSpec == Spec /\ Fairness

-----------------------------------------------------------------------------
(***************************************************************************)
(* Properties.                                                             *)
(***************************************************************************)

\* The queue and the executor implement the serial queue: first come first served,
\* one run at a time, no run taken twice, no rest while a run waits (pump, enqueueRun
\* and cancelRun's dequeue).
Serial == INSTANCE RunQueue WITH
  fresh <- {r \in Runs : row[r] = "none" \/ creator[r] = "created"},
  waiting <- queue, running <- active
ImplementsSerialQueue == Serial!Spec

\* A run that is not completed is in somebody's hands: it is about to be enqueued, it
\* waits, it executes, a cancel request is finalizing it, or the boot recovery is to
\* find it.  The one exception is a run whose own repairing write was refused.  A
\* stranded run reads as a pending check for ever and blocks every merge of its commit.
InHand(r) ==
  \/ boot # "up" \/ creator[r] = "created" \/ Contains(queue, r) \/ active = r
  \/ \E c \in Requests : cancel[c].run = r /\ cancel[c].at \in {"jobs", "row"}
NoStrandedRun == \A r \in NotCompleted \ abandoned : InHand(r)

\* A run that reads success has a success for every job, whatever cancels, re-runs,
\* refused writes and crashes did meanwhile (executeRun's anyFailed and its exits).
GreenMeansEveryJobPassed ==
  \A r \in Runs : row[r] = "success" => \A j \in Jobs : check[r][j] = "success"

\* A cancel accepted while executeRun was still to look at cancelRequested does not end
\* in a success (cancelRun, the checks between and inside jobs).  Runs cancelled before
\* they were enqueued (early) are the exception: they execute all the same, although
\* runner.ts says that a cancelled queued run never starts.
CancelHonoured ==
  \A c \in Requests :
    cancel[c].inTime /\ cancel[c].run \notin early => row[cancel[c].run] # "success"

\* Once a run reads completed and is not executing, none of its checks is pending: the
\* order jobs first, then the run, in finalizeCancelled, in executeRun's cancelled exit
\* and in failOrphanedRuns.  The exceptions are runs whose execution threw (failRun closes
\* the row alone, and the boot recovery looks only for runs that are not completed) and
\* runs cancelled before they were enqueued.
ClosedRunHasNoPendingJob ==
  \A r \in Runs \ (threw \cup early) :
    Completed(r) => \A j \in Jobs : check[r][j] \notin Pending

\* Retention keeps the newest RetentionCap completed runs however many passes overlap:
\* a run is deleted only while that many newer runs that ended remain
\* (pruneCompletedRuns reads, removes directories, and only then deletes).  Nor does it
\* delete the run that is executing (runs cancelled before they were enqueued apart:
\* those are completed when they start).
RetentionKeepsNewest ==
  /\ \A r \in Runs : row[r] = "gone" =>
       Cardinality({q \in Runs : q > r /\ (Completed(q) \/ (q \in early /\ Exists(q)))})
         >= RetentionCap
  /\ active \in Runs \ early => Exists(active)

\* A completed run keeps its conclusion until retention deletes it, whoever else was
\* about to write it.
VerdictIsFinal ==
  [][\A r \in Runs \ early : Completed(r) => row'[r] \in {row[r], "gone"}]_vars

\* Every run comes to an end, through crashes and cancels, as long as the database
\* answers: what branch protection counts as pending does not stay pending.
RunsComplete == \A r \in Runs : row[r] \in Pending ~> (Completed(r) \/ row[r] = "gone")

\* Every check comes to an end too, those of runs cancelled before they were enqueued
\* apart: such a run can be closed by its cancel while it executes.
ChecksComplete ==
  \A r \in Runs, j \in Jobs :
    check[r][j] \in Pending ~> (check[r][j] \notin Pending \/ r \in early)

-----------------------------------------------------------------------------
(***************************************************************************)
(* A statement of the repository that the code does not keep.              *)
(***************************************************************************)

\* boot.ts: a re-run that succeeds clears the red check of the run it repeats.  The
\* rollup of a commit is that of checkSummaryForCommit and summarizeCheckRuns.
Summary(c) == {check[r][j] : r \in {q \in Runs : Exists(q) /\ commit[q] = c}, j \in Jobs}
RollupState(c) ==
  IF Summary(c) = {} THEN "none"
  ELSE IF Summary(c) \cap Pending # {} THEN "pending"
  ELSE IF Summary(c) = {"success"} THEN "success" ELSE "failure"
RerunClearsRed ==
  \A r \in Runs :
    LET others == {q \in Runs : Exists(q) /\ commit[q] = commit[r]} \ {rerunOf[r]} IN
    /\ row[r] = "success" /\ rerunOf[r] # None
    /\ row[rerunOf[r]] \in {"failure", "cancelled"}
    /\ \A q \in others : row[q] = "success"
    => RollupState(commit[r]) = "success"
=============================================================================

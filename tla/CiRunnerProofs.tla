--------------------------- MODULE CiRunnerProofs ---------------------------
(***************************************************************************)
(* Theorems about CiRunner, for every set of runs, jobs, commits and       *)
(* requests and for every bound.                                           *)
(***************************************************************************)
EXTENDS CiRunner, SequenceTheorems, FiniteSetTheorems, TLAPS

(***************************************************************************)
(* Sequences: what shifting, appending and splicing do.                    *)
(***************************************************************************)
LEMMA RemoveAtProperties ==
  ASSUME NEW S, NEW q \in Seq(S), NEW i \in 1..Len(q)
  PROVE  /\ RemoveAt(q, i) \in Seq(S)
         /\ Len(RemoveAt(q, i)) = Len(q) - 1
         /\ \A k \in 1..(Len(q) - 1) :
              RemoveAt(q, i)[k] = IF k < i THEN q[k] ELSE q[k + 1]
<1> DEFINE a == SubSeq(q, 1, i - 1)
           b == SubSeq(q, i + 1, Len(q))
<1>1. /\ a \in Seq(S) /\ Len(a) = i - 1
      /\ \A k \in 1..(i - 1) : a[k] = q[k]
  <2>1. \A k \in 1..(i - 1) : q[k] \in S
    BY ElementOfSeq, LenProperties
  <2>2. QED
    BY <2>1, SubSeqProperties, LenProperties
<1>2. /\ b \in Seq(S) /\ Len(b) = Len(q) - i
      /\ \A k \in 1..(Len(q) - i) : b[k] = q[k + i]
  <2>1. \A k \in (i + 1)..Len(q) : q[k] \in S
    BY ElementOfSeq, LenProperties
  <2>2. QED
    BY <2>1, SubSeqProperties, LenProperties
<1> HIDE DEF a, b
<1>3. /\ a \o b \in Seq(S) /\ Len(a \o b) = Len(a) + Len(b)
      /\ \A k \in 1..(Len(a) + Len(b)) :
           (a \o b)[k] = IF k <= Len(a) THEN a[k] ELSE b[k - Len(a)]
  BY <1>1, <1>2, ConcatProperties
<1>4. RemoveAt(q, i) = a \o b
  BY DEF RemoveAt, a, b
<1>5. Len(q) \in Nat /\ i \in Nat /\ 1 <= i /\ i <= Len(q)
  BY LenProperties
<1>6. ASSUME NEW k \in 1..(Len(q) - 1)
      PROVE  (a \o b)[k] = IF k < i THEN q[k] ELSE q[k + 1]
  <2>1. k \in 1..(Len(a) + Len(b))
    BY <1>1, <1>2, <1>5
  <2>2. CASE k < i
    BY <1>1, <1>3, <1>5, <2>1, <2>2
  <2>3. CASE ~(k < i)
    <3>1. (a \o b)[k] = b[k - (i - 1)]
      BY <1>1, <1>3, <1>5, <2>1, <2>3
    <3>2. k - (i - 1) \in 1..(Len(q) - i) /\ k - (i - 1) + i = k + 1
      BY <1>5, <2>3
    <3>3. QED
      BY <1>2, <2>3, <3>1, <3>2
  <2>4. QED
    BY <2>2, <2>3
<1>7. Len(a \o b) = Len(q) - 1
  BY <1>1, <1>2, <1>3, <1>5
<1>8. QED
  BY <1>3, <1>4, <1>6, <1>7

\* pump()'s loop: an empty queue stops it, otherwise the head leaves the queue.
LEMMA PumpFacts ==
  ASSUME NEW q \in Seq(Runs), Pump(q)
  PROVE  /\ queue' \in Seq(Runs) /\ active' \in Runs \cup {None} /\ pc' \in {"idle", "load"}
         /\ q = <<>> => queue' = <<>> /\ active' = None /\ pc' = "idle"
         /\ q # <<>> => /\ 1 \in 1..Len(q) /\ active' = q[1] /\ active' \in Runs
                        /\ active' # None /\ pc' = "load"
                        /\ Len(queue') = Len(q) - 1
                        /\ \A k \in 1..(Len(q) - 1) : queue'[k] = q[k + 1]
<1>1. CASE q = <<>>
  BY <1>1, EmptySeq DEF Pump
<1>2. CASE q # <<>>
  <2>1. queue' = Tail(q) /\ active' = Head(q) /\ pc' = "load"
    BY <1>2 DEF Pump
  <2>2. Len(q) \in Nat /\ Len(q) # 0 /\ 1 \in 1..Len(q)
    BY <1>2, EmptySeq
  <2>3. Head(q) = q[1] /\ Head(q) \in Runs
    BY <1>2, <2>2, HeadTailProperties
  <2>4. /\ Tail(q) \in Seq(Runs) /\ Len(Tail(q)) = Len(q) - 1
        /\ \A k \in 1..Len(Tail(q)) : Tail(q)[k] = q[k + 1]
    BY <1>2, HeadTailProperties
  <2>5. QED
    BY <1>2, <2>1, <2>2, <2>3, <2>4, RunsAssumption
<1>3. QED
  BY <1>1, <1>2

\* queue.splice keeps the other entries, in their order.
LEMMA DequeueFacts ==
  ASSUME NEW r \in Runs, queue \in Seq(Runs), Dequeue(r)
  PROVE  /\ queue' \in Seq(Runs)
         /\ \/ UNCHANGED queue
            \/ \E i \in 1..Len(queue) :
                 /\ queue[i] = r
                 /\ queue' = RemoveAt(queue, i)
                 /\ Len(queue') = Len(queue) - 1
                 /\ \A k \in 1..(Len(queue) - 1) :
                      queue'[k] = IF k < i THEN queue[k] ELSE queue[k + 1]
<1>1. CASE ~Contains(queue, r) /\ UNCHANGED queue
  BY <1>1
<1>2. CASE \E i \in 1..Len(queue) : queue[i] = r /\ queue' = RemoveAt(queue, i)
  <2>1. PICK i \in 1..Len(queue) : queue[i] = r /\ queue' = RemoveAt(queue, i)
    BY <1>2
  <2>2. /\ RemoveAt(queue, i) \in Seq(Runs)
        /\ Len(RemoveAt(queue, i)) = Len(queue) - 1
        /\ \A k \in 1..(Len(queue) - 1) :
             RemoveAt(queue, i)[k] = IF k < i THEN queue[k] ELSE queue[k + 1]
    BY <2>1, RemoveAtProperties
  <2>3. QED
    BY <2>1, <2>2
<1>3. QED
  BY <1>1, <1>2 DEF Dequeue

(***************************************************************************)
(* Type correctness.                                                       *)
(***************************************************************************)

\* The helpers keep the tables well-typed.
LEMMA TableTypes ==
  ASSUME TypeOK
  PROVE  /\ \A rs \in SUBSET Runs, how \in Conclusions :
              /\ CloseChecks(rs, how) \in [Runs -> [Jobs -> CheckStates]]
              /\ CloseRows(rs, how) \in [Runs -> RowStates]
         /\ \A r \in Runs, st \in RowStates : SetRow(r, st) \in [Runs -> RowStates]
         /\ \A r \in Runs, st \in CheckStates : \A j :
              SetCheck(r, j, st) \in [Runs -> [Jobs -> CheckStates]]
<1>1. \A rs \in SUBSET Runs, how \in Conclusions :
        /\ CloseChecks(rs, how) \in [Runs -> [Jobs -> CheckStates]]
        /\ CloseRows(rs, how) \in [Runs -> RowStates]
  BY DEF TypeOK, CloseChecks, CloseRows, CheckStates, RowStates
<1>2. \A r \in Runs, st \in RowStates : SetRow(r, st) \in [Runs -> RowStates]
  BY DEF TypeOK, SetRow
<1>3. \A r \in Runs, st \in CheckStates : \A j :
        SetCheck(r, j, st) \in [Runs -> [Jobs -> CheckStates]]
  BY DEF TypeOK, SetCheck
<1>4. QED
  BY <1>1, <1>2, <1>3

\* A request keeps its shape as it moves on.
Asking == {x \in [at: {"idle", "asked", "jobs", "row", "done"}, run: Runs \cup {None},
                  inTime: BOOLEAN] : x.at # "idle" => x.run # None}
LEMMA RequestTypes ==
  ASSUME TypeOK, NEW c \in Requests
  PROVE  /\ cancel \in [Requests -> Asking]
         /\ \A x \in Asking : [cancel EXCEPT ![c] = x] \in [Requests -> Asking]
         /\ \A r \in Runs : [cancel[c] EXCEPT !.at = "asked", !.run = r] \in Asking
         /\ cancel[c].at # "idle" =>
              /\ cancel[c].run \in Runs
              /\ \A where \in {"jobs", "row", "done"} :
                   /\ [cancel[c] EXCEPT !.at = where] \in Asking
                   /\ [cancel EXCEPT ![c].at = where] \in [Requests -> Asking]
              /\ \A where \in {"jobs", "done"}, b \in BOOLEAN :
                   [cancel[c] EXCEPT !.at = where, !.inTime = b] \in Asking
<1>1. cancel \in [Requests -> Asking]
  BY DEF TypeOK, Asking
<1>2. ASSUME NEW r \in Runs
      PROVE  [cancel[c] EXCEPT !.at = "asked", !.run = r] \in Asking
  <2>1. r # None /\ cancel[c] \in [at: {"idle", "asked", "jobs", "row", "done"},
                                    run: Runs \cup {None}, inTime: BOOLEAN]
    BY RunsAssumption DEF TypeOK
  <2>2. QED
    BY <2>1 DEF Asking
<1>3. ASSUME cancel[c].at # "idle"
      PROVE  /\ cancel[c].run \in Runs
             /\ \A where \in {"jobs", "row", "done"} : [cancel[c] EXCEPT !.at = where] \in Asking
             /\ \A where \in {"jobs", "done"}, b \in BOOLEAN :
                  [cancel[c] EXCEPT !.at = where, !.inTime = b] \in Asking
  BY <1>3 DEF TypeOK, Asking
<1>4. QED
  BY <1>1, <1>2, <1>3

LEMMA RequestTypesNext ==
  ASSUME cancel' \in [Requests -> Asking]
  PROVE  /\ cancel' \in [Requests -> [at: {"idle", "asked", "jobs", "row", "done"},
                                      run: Runs \cup {None}, inTime: BOOLEAN]]
         /\ \A c \in Requests : cancel'[c].at # "idle" => cancel'[c].run # None
BY DEF Asking

\* The end of a run leaves the heap well-typed.
LEMMA EndRunTypes ==
  ASSUME TypeOK, EndRun
  PROVE  /\ queue' \in Seq(Runs) /\ active' \in Runs \cup {None} /\ pc' \in {"idle", "load"}
         /\ cancelRequested' \subseteq Runs
         /\ todo' = {} /\ job' = None /\ verdict' = None /\ anyFailed' = FALSE
BY PumpFacts DEF TypeOK, EndRun, ForgetLocals

\* So does the head of the loop over the jobs.
LEMMA NextJobTypes ==
  ASSUME TypeOK, NEW rest \in SUBSET Jobs, NEW failed \in BOOLEAN, NextJob(rest, failed)
  PROVE  /\ pc' \in {"cancelJobs", "claim", "conclude"} /\ todo' \subseteq Jobs
         /\ job' \in Jobs \cup {None} /\ verdict' = None /\ anyFailed' \in BOOLEAN
BY DEF NextJob

USE DEF Conclusions, Pending

LEMMA TypeStep == TypeOK /\ [Next]_vars => TypeOK'
<1> SUFFICES ASSUME TypeOK, [Next]_vars PROVE TypeOK'
  OBVIOUS
<1> USE DEF dbVars, origin, heap, locals, creators, recovery, history, bounds, surroundings
<1>1. ASSUME NEW r \in Runs, NEW c \in Commits, Create(r, c) PROVE TypeOK'
  BY <1>1, TableTypes DEF TypeOK, Create, Insert, CheckStates, RowStates
<1>2. ASSUME NEW r \in Runs, NEW c \in Commits, ParseFailure(r, c) PROVE TypeOK'
  BY <1>2, TableTypes DEF TypeOK, ParseFailure, Insert, CheckStates, RowStates
<1>3. ASSUME NEW r \in Runs, NEW src \in Runs, Rerun(r, src) PROVE TypeOK'
  BY <1>3, TableTypes DEF TypeOK, Rerun, Insert, CheckStates, RowStates
<1>4. ASSUME NEW r \in Runs, Enqueue(r) PROVE TypeOK'
  <2>1. Append(queue, r) \in Seq(Runs)
    BY AppendProperties DEF TypeOK
  <2>2. queue' \in Seq(Runs) /\ active' \in Runs \cup {None} /\ pc' \in {"idle", "load", pc}
    BY <1>4, <2>1, PumpFacts DEF TypeOK, Enqueue
  <2>3. creator' \in [Runs -> {"idle", "created", "enqueued", "pruning"}]
    BY <1>4 DEF TypeOK, Enqueue
  <2>4. QED
    BY <1>4, <2>2, <2>3 DEF TypeOK, Enqueue
<1>5. ASSUME NEW r \in Runs, PruneFind(r) PROVE TypeOK'
  BY <1>5 DEF TypeOK, PruneFind, Prunable, CheckStates, RowStates
<1>6. ASSUME NEW r \in Runs, PruneDelete(r) PROVE TypeOK'
  BY <1>6, TableTypes DEF TypeOK, PruneDelete, CheckStates, RowStates
<1>7. ASSUME Load PROVE TypeOK'
  BY <1>7, EndRunTypes DEF TypeOK, Load, Executing, CheckStates, RowStates
<1>8. ASSUME MarkRunning PROVE TypeOK'
  BY <1>8, TableTypes, NextJobTypes DEF TypeOK, MarkRunning, Executing, CheckStates, RowStates
<1>9. ASSUME ClaimJob PROVE TypeOK'
  <2>1. active \in Runs
    BY <1>9 DEF ClaimJob, Executing, TypeOK
  <2>2. check' \in [Runs -> [Jobs -> CheckStates]]
    BY <1>9, <2>1, TableTypes DEF ClaimJob, CheckStates
  <2>3. QED
    BY <1>9, <2>2 DEF TypeOK, ClaimJob
<1>10. ASSUME JobBody PROVE TypeOK'
  BY <1>10 DEF TypeOK, JobBody, Executing, CheckStates, RowStates
<1>11. ASSUME SettleJob PROVE TypeOK'
  <2>1. active \in Runs /\ verdict \in Conclusions
    BY <1>11 DEF SettleJob, Executing, TypeOK
  <2>2. check' \in [Runs -> [Jobs -> CheckStates]]
    BY <1>11, <2>1, TableTypes DEF SettleJob, CheckStates
  <2>3. /\ pc' \in {"cancelJobs", "claim", "conclude"} /\ todo' \subseteq Jobs
        /\ job' \in Jobs \cup {None} /\ verdict' = None /\ anyFailed' \in BOOLEAN
    BY <1>11, NextJobTypes DEF SettleJob, TypeOK
  <2>4. QED
    BY <1>11, <2>2, <2>3 DEF TypeOK, SettleJob
<1>12. ASSUME CancelRemaining PROVE TypeOK'
  BY <1>12, TableTypes DEF TypeOK, CancelRemaining, Executing, CheckStates, RowStates
<1>13. ASSUME CancelActiveRow PROVE TypeOK'
  BY <1>13, TableTypes, EndRunTypes DEF TypeOK, CancelActiveRow, Executing, CheckStates, RowStates
<1>14. ASSUME FinalizeActiveJobs PROVE TypeOK'
  BY <1>14, TableTypes DEF TypeOK, FinalizeActiveJobs, Executing, CheckStates, RowStates
<1>15. ASSUME FinalizeActiveRow PROVE TypeOK'
  BY <1>15, TableTypes, EndRunTypes DEF TypeOK, FinalizeActiveRow, Executing, CheckStates, RowStates
<1>16. ASSUME Conclude PROVE TypeOK'
  BY <1>16, TableTypes, EndRunTypes DEF TypeOK, Conclude, Executing, CheckStates, RowStates
<1>17. ASSUME RowVanished PROVE TypeOK'
  BY <1>17 DEF TypeOK, RowVanished, CheckStates, RowStates
<1>18. ASSUME FailRun PROVE TypeOK'
  <2>1. active \in Runs
    BY <1>18 DEF FailRun, Executing, TypeOK
  <2>2. row' \in [Runs -> RowStates] /\ dbErrors' \in 0..MaxDbErrors /\ abandoned' \subseteq Runs
    BY <1>18, <2>1, BoundsAssumption, TableTypes DEF FailRun, TypeOK, RowStates
  <2>3. QED
    BY <1>18, <2>2, EndRunTypes DEF TypeOK, FailRun
<1>19. ASSUME ExecutorDbError PROVE TypeOK'
  <2>1. dbErrors' \in 0..MaxDbErrors /\ threw' \subseteq Runs
    BY <1>19, BoundsAssumption DEF ExecutorDbError, TypeOK
  <2>2. QED
    BY <1>19, <2>1 DEF TypeOK, ExecutorDbError
<1>20. ASSUME NEW c \in Requests, NEW r \in Runs, CancelAsk(c, r) PROVE TypeOK'
  <2>1. cancel' \in [Requests -> Asking]
    BY <1>20, RequestTypes DEF CancelAsk
  <2>2. QED
    BY <1>20, <2>1, RequestTypesNext DEF TypeOK, CancelAsk
<1>21. ASSUME NEW c \in Requests, CancelRun(c) PROVE TypeOK'
  <2>1. cancel[c].run \in Runs
    BY <1>21, RequestTypes DEF CancelRun, At
  <2>2. cancel' \in [Requests -> Asking]
    BY <1>21, RequestTypes DEF CancelRun, StopStillSeen, At
  <2>3. queue' \in Seq(Runs)
    BY <1>21, <2>1, DequeueFacts DEF CancelRun, TypeOK
  <2>4. QED
    BY <1>21, <2>1, <2>2, <2>3, RequestTypesNext DEF TypeOK, CancelRun
<1>22. ASSUME NEW c \in Requests, CancelFinalizeJobs(c) PROVE TypeOK'
  <2>1. cancel[c].run \in Runs
    BY <1>22, RequestTypes DEF CancelFinalizeJobs, At
  <2>2. cancel' \in [Requests -> Asking]
    BY <1>22, RequestTypes DEF CancelFinalizeJobs, GoTo, At
  <2>3. check' \in [Runs -> [Jobs -> CheckStates]]
    BY <1>22, <2>1, TableTypes DEF CancelFinalizeJobs
  <2>4. QED
    <3>1. pc' = pc /\ verdict' = verdict
      BY <1>22 DEF CancelFinalizeJobs
    <3>2. QED
      BY <1>22, <2>2, <2>3, <3>1, RequestTypesNext DEF TypeOK, CancelFinalizeJobs, CheckStates, RowStates, GoTo, At
<1>23. ASSUME NEW c \in Requests, CancelFinalizeRow(c) PROVE TypeOK'
  <2>1. cancel[c].run \in Runs
    BY <1>23, RequestTypes DEF CancelFinalizeRow, At
  <2>2. cancel' \in [Requests -> Asking]
    BY <1>23, RequestTypes DEF CancelFinalizeRow, GoTo, At
  <2>3. row' \in [Runs -> RowStates] /\ cancelRequested' \subseteq Runs
    BY <1>23, <2>1, TableTypes DEF CancelFinalizeRow, TypeOK
  <2>4. QED
    <3>1. pc' = pc /\ verdict' = verdict
      BY <1>23 DEF CancelFinalizeRow
    <3>2. QED
      BY <1>23, <2>2, <2>3, <3>1, RequestTypesNext DEF TypeOK, CancelFinalizeRow, CheckStates, RowStates, GoTo, At
<1>24. ASSUME NEW c \in Requests, CancelDbError(c) PROVE TypeOK'
  <2>1. cancel[c].run \in Runs
    BY <1>24, RequestTypes DEF CancelDbError, At
  <2>2. cancel' \in [Requests -> Asking]
    BY <1>24, RequestTypes DEF CancelDbError, GoTo, At
  <2>3. QED
    BY <1>24, <2>1, <2>2, BoundsAssumption, RequestTypesNext DEF TypeOK, CancelDbError, CheckStates, RowStates
<1>25. ASSUME Crash PROVE TypeOK'
  <2>1. cancel' \in [Requests -> Asking]
    BY <1>25, RequestTypes DEF Crash, TypeOK, Asking
  <2>2. /\ creator' \in [Runs -> {"idle", "created", "enqueued", "pruning"}]
        /\ stale' \in [Runs -> SUBSET Runs]
    BY <1>25 DEF Crash
  <2>3. queue' \in Seq(Runs) /\ crashes' \in 0..MaxCrashes
    BY <1>25, BoundsAssumption, EmptySeq DEF Crash, TypeOK
  <2>4. QED
    BY <1>25, <2>1, <2>2, <2>3, RequestTypesNext DEF TypeOK, Crash, ForgetLocals
<1>26. ASSUME BootFind PROVE TypeOK'
  BY <1>26 DEF TypeOK, BootFind, NotCompleted, CheckStates, RowStates
<1>27. ASSUME BootFailJobs PROVE TypeOK'
  BY <1>27, TableTypes DEF TypeOK, BootFailJobs, CheckStates, RowStates
<1>28. ASSUME BootFailRows PROVE TypeOK'
  BY <1>28, TableTypes DEF TypeOK, BootFailRows, CheckStates, RowStates
<1>29. ASSUME BootDbError PROVE TypeOK'
  <2>1. dbErrors' \in 0..MaxDbErrors /\ abandoned' \subseteq Runs
    BY <1>29, BoundsAssumption DEF BootDbError, NotCompleted, TypeOK
  <2>2. QED
    BY <1>29, <2>1 DEF TypeOK, BootDbError
<1>30. CASE UNCHANGED vars
  BY <1>30 DEF TypeOK, vars
<1>31. QED
  BY <1>1, <1>2, <1>3, <1>4, <1>5, <1>6, <1>7, <1>8, <1>9, <1>10, <1>11, <1>12, <1>13, <1>14, <1>15, <1>16, <1>17, <1>18, <1>19, <1>20, <1>21, <1>22, <1>23, <1>24, <1>25, <1>26, <1>27, <1>28, <1>29, <1>30
     DEF Next, Trigger, CreatorStep, ExecutorStep, CancelStep, BootStep

LEMMA InitType == Init => TypeOK
<1> SUFFICES ASSUME Init PROVE TypeOK
  OBVIOUS
<1>1. queue \in Seq(Runs)
  BY EmptySeq DEF Init
<1>2. crashes \in 0..MaxCrashes /\ dbErrors \in 0..MaxDbErrors
  BY BoundsAssumption DEF Init
<1>3. QED
  BY <1>1, <1>2 DEF Init, TypeOK, RowStates, CheckStates

\* Every reachable state is well-typed: in particular a request in progress names a run
\* and the executor never stores a conclusion it has not computed (runner.ts, ci.ts).
THEOREM TypeCorrect == Spec => []TypeOK
<1>1. QED
  BY InitType, TypeStep, PTL DEF Spec

(***************************************************************************)
(* Where a run stands: it is about to be submitted, it waits, it executes, *)
(* or it is past all that, and it is in one of those places only.          *)
(***************************************************************************)
Fresh == {r \in Runs : row[r] = "none" \/ creator[r] = "created"}

Placed ==
  /\ \A i \in 1..Len(queue) : queue[i] \notin Fresh /\ queue[i] # active
  /\ \A i, j \in 1..Len(queue) : queue[i] = queue[j] => i = j
  /\ active \notin Fresh
  /\ active = None => queue = <<>> /\ pc = "idle"
  /\ active # None => pc # "idle"
  /\ boot # "up" => active = None
  /\ \A r \in Runs : creator[r] = "created" => row[r] # "none"

\* The steps that leave the queue and the executor's place alone ...
Quiet ==
  /\ UNCHANGED <<queue, active>>
  /\ pc' = "idle" <=> pc = "idle"
  /\ boot' # "up" => boot # "up"
\* ... and those by which the executor lets go of its run.
Release == EndRun /\ active # None /\ boot' = "up" /\ Fresh' = Fresh

LEMMA FreshShrinks ==
  ASSUME TypeOK, Placed, [Next]_vars
  PROVE  /\ Fresh' \subseteq Fresh
         /\ \A r \in Runs : creator'[r] = "created" => row'[r] # "none"
         /\ \/ Quiet \/ Release \/ Crash
            \/ \E r \in Runs : Enqueue(r)
            \/ \E c \in Requests : CancelRun(c)
<1> USE DEF dbVars, origin, heap, locals, creators, recovery, history, bounds, surroundings
<1> DEFINE Goal == /\ Fresh' \subseteq Fresh
                   /\ \A r \in Runs : creator'[r] = "created" => row'[r] # "none"
                   /\ \/ Quiet \/ Release \/ Crash
                      \/ \E r \in Runs : Enqueue(r)
                      \/ \E c \in Requests : CancelRun(c)
<1>1. ASSUME NEW r \in Runs, NEW c \in Commits, Create(r, c) PROVE Goal
  BY <1>1 DEF TypeOK, Placed, Fresh, Quiet, Create, Insert, NextId, SetRow
<1>2. ASSUME NEW r \in Runs, NEW c \in Commits, ParseFailure(r, c) PROVE Goal
  BY <1>2 DEF TypeOK, Placed, Fresh, Quiet, ParseFailure, Insert, SetRow
<1>3. ASSUME NEW r \in Runs, NEW src \in Runs, Rerun(r, src) PROVE Goal
  BY <1>3 DEF TypeOK, Placed, Fresh, Quiet, Rerun, Insert, NextId, SetRow
<1>4. ASSUME NEW r \in Runs, Enqueue(r) PROVE Goal
  BY <1>4 DEF TypeOK, Placed, Fresh, Enqueue
<1>5. ASSUME NEW r \in Runs, PruneFind(r) PROVE Goal
  BY <1>5 DEF TypeOK, Placed, Fresh, Quiet, PruneFind
<1>6. ASSUME NEW r \in Runs, PruneDelete(r) PROVE Goal
  BY <1>6 DEF TypeOK, Placed, Fresh, Quiet, PruneDelete
<1>7. ASSUME Load PROVE Goal
  BY <1>7 DEF TypeOK, Placed, Fresh, Quiet, Release, Load, Executing
<1>8. ASSUME MarkRunning PROVE Goal
  BY <1>8 DEF TypeOK, Placed, Fresh, Quiet, MarkRunning, NextJob, Executing, SetRow
<1>9. ASSUME ClaimJob \/ JobBody \/ CancelRemaining \/ FinalizeActiveJobs PROVE Goal
  BY <1>9 DEF TypeOK, Placed, Fresh, Quiet, ClaimJob, JobBody, CancelRemaining, FinalizeActiveJobs, Executing
<1>10. ASSUME SettleJob PROVE Goal
  BY <1>10 DEF TypeOK, Placed, Fresh, Quiet, SettleJob, NextJob, Executing
<1>11. ASSUME CancelActiveRow PROVE Goal
  BY <1>11 DEF TypeOK, Placed, Fresh, Release, CancelActiveRow, Executing, SetRow
<1>12. ASSUME FinalizeActiveRow PROVE Goal
  BY <1>12 DEF TypeOK, Placed, Fresh, Release, FinalizeActiveRow, Executing, CloseRows
<1>13. ASSUME Conclude PROVE Goal
  BY <1>13 DEF TypeOK, Placed, Fresh, Release, Conclude, Executing, SetRow
<1>14. ASSUME RowVanished \/ ExecutorDbError PROVE Goal
  BY <1>14 DEF TypeOK, Placed, Fresh, Quiet, RowVanished, ExecutorDbError
<1>15. ASSUME FailRun PROVE Goal
  BY <1>15 DEF TypeOK, Placed, Fresh, Release, FailRun, Executing, SetRow
<1>16. ASSUME NEW c \in Requests, NEW r \in Runs, CancelAsk(c, r) PROVE Goal
  BY <1>16 DEF TypeOK, Placed, Fresh, Quiet, CancelAsk
<1>17. ASSUME NEW c \in Requests, CancelRun(c) PROVE Goal
  BY <1>17 DEF TypeOK, Placed, Fresh, CancelRun
<1>18. ASSUME NEW c \in Requests, CancelFinalizeJobs(c) \/ CancelDbError(c) PROVE Goal
  BY <1>18 DEF TypeOK, Placed, Fresh, Quiet, CancelFinalizeJobs, CancelDbError
<1>19. ASSUME NEW c \in Requests, CancelFinalizeRow(c) PROVE Goal
  BY <1>19 DEF TypeOK, Placed, Fresh, Quiet, CancelFinalizeRow, CloseRows
<1>20. ASSUME Crash PROVE Goal
  BY <1>20 DEF TypeOK, Placed, Fresh, Crash
<1>21. ASSUME BootFind \/ BootFailJobs \/ BootDbError PROVE Goal
  BY <1>21 DEF TypeOK, Placed, Fresh, Quiet, BootFind, BootFailJobs, BootDbError
<1>22. ASSUME BootFailRows PROVE Goal
  BY <1>22 DEF TypeOK, Placed, Fresh, Quiet, BootFailRows, CloseRows
<1>23. CASE UNCHANGED vars
  BY <1>23 DEF TypeOK, Placed, Fresh, Quiet, vars
<1>24. QED
  BY <1>1, <1>2, <1>3, <1>4, <1>5, <1>6, <1>7, <1>8, <1>9, <1>10, <1>11, <1>12, <1>13,
     <1>14, <1>15, <1>16, <1>17, <1>18, <1>19, <1>20, <1>21, <1>22, <1>23
     DEF Next, Trigger, CreatorStep, ExecutorStep, CancelStep, BootStep

\* What one turn of the loop does to the places, when the runs of q are all over the
\* door and none of them is executing any more.
LEMMA PumpPlaces ==
  ASSUME NEW q \in Seq(Runs), Pump(q),
         \A i \in 1..Len(q) : q[i] \notin Fresh',
         \A i, j \in 1..Len(q) : q[i] = q[j] => i = j,
         None \notin Fresh'
  PROVE  /\ \A i \in 1..Len(queue') : queue'[i] \notin Fresh' /\ queue'[i] # active'
         /\ \A i, j \in 1..Len(queue') : queue'[i] = queue'[j] => i = j
         /\ active' \notin Fresh'
         /\ active' = None => queue' = <<>> /\ pc' = "idle"
         /\ active' # None => pc' # "idle"
<1>1. CASE q = <<>>
  <2>1. queue' = <<>> /\ active' = None /\ pc' = "idle"
    BY <1>1, PumpFacts
  <2>2. Len(queue') = 0
    BY <2>1, EmptySeq
  <2>3. QED
    BY <2>1, <2>2
<1>2. CASE q # <<>>
  <2>1. /\ 1 \in 1..Len(q) /\ active' = q[1] /\ active' # None /\ pc' = "load"
        /\ Len(queue') = Len(q) - 1 /\ \A k \in 1..(Len(q) - 1) : queue'[k] = q[k + 1]
    BY <1>2, PumpFacts
  <2>2. Len(q) \in Nat
    BY LenProperties
  <2>3. \A k \in 1..Len(queue') : k + 1 \in 1..Len(q) /\ queue'[k] = q[k + 1] /\ k + 1 # 1
    BY <2>1, <2>2
  <2>4. \A k \in 1..Len(queue') : queue'[k] \notin Fresh' /\ queue'[k] # active'
    BY <2>1, <2>3
  <2>5. \A i, j \in 1..Len(queue') : queue'[i] = queue'[j] => i = j
    <3> SUFFICES ASSUME NEW i \in 1..Len(queue'), NEW j \in 1..Len(queue'),
                        queue'[i] = queue'[j]
                 PROVE  i = j
      OBVIOUS
    <3>1. i + 1 = j + 1
      BY <2>3
    <3>2. QED
      BY <3>1
  <2>6. QED
    BY <2>1, <2>4, <2>5
<1>3. QED
  BY <1>1, <1>2

LEMMA PlacedStep == TypeOK /\ Placed /\ [Next]_vars => Placed'
<1> SUFFICES ASSUME TypeOK, Placed, [Next]_vars PROVE Placed'
  OBVIOUS
<1> USE DEF dbVars, origin, heap, locals, creators, recovery, history, bounds, surroundings
<1>1. Fresh' \subseteq Fresh /\ \A r \in Runs : creator'[r] = "created" => row'[r] # "none"
  BY FreshShrinks
<1>2. Fresh \subseteq Runs /\ None \notin Fresh' /\ Len(queue) \in Nat
  BY <1>1, RunsAssumption, LenProperties DEF Fresh, TypeOK
<1>3. CASE Quiet
  BY <1>1, <1>3 DEF Placed, Quiet
<1>4. CASE Release
  <2>1. Pump(queue) /\ queue \in Seq(Runs)
    BY <1>4 DEF Release, EndRun, TypeOK
  <2>2. \A i \in 1..Len(queue) : queue[i] \notin Fresh'
    BY <1>1 DEF Placed
  <2>3. QED
    BY <1>1, <1>2, <1>4, <2>1, <2>2, PumpPlaces DEF Placed, Release
<1>5. CASE Crash
  <2>1. queue' = <<>> /\ Len(queue') = 0 /\ active' = None /\ pc' = "idle"
    BY <1>5, EmptySeq DEF Crash
  <2>2. QED
    BY <1>1, <1>2, <2>1 DEF Placed
<1>6. ASSUME NEW r \in Runs, Enqueue(r) PROVE Placed'
  <2> DEFINE q == Append(queue, r)
  <2>1. /\ q \in Seq(Runs) /\ Len(q) = Len(queue) + 1
        /\ \A i \in 1..Len(queue) : q[i] = queue[i]
        /\ q[Len(queue) + 1] = r
    BY AppendProperties DEF TypeOK
  <2>2. r \in Fresh /\ r \notin Fresh' /\ boot' = "up"
    BY <1>6 DEF Enqueue, Fresh, Placed, TypeOK
  <2>3. \A i \in 1..Len(q) : i \in 1..Len(queue) \/ i = Len(queue) + 1
    BY <1>2, <2>1
  <2>4. \A i \in 1..Len(q) : q[i] \notin Fresh'
    BY <1>1, <2>1, <2>2, <2>3 DEF Placed
  <2>5. \A i, j \in 1..Len(q) : q[i] = q[j] => i = j
    <3> SUFFICES ASSUME NEW i \in 1..Len(q), NEW j \in 1..Len(q), q[i] = q[j]
                 PROVE  i = j
      OBVIOUS
    <3>1. CASE i \in 1..Len(queue) /\ j \in 1..Len(queue)
      BY <2>1, <3>1 DEF Placed
    <3>2. CASE i \in 1..Len(queue) /\ j = Len(queue) + 1
      BY <2>1, <2>2, <3>2 DEF Placed
    <3>3. CASE j \in 1..Len(queue) /\ i = Len(queue) + 1
      BY <2>1, <2>2, <3>3 DEF Placed
    <3>4. QED
      BY <2>3, <3>1, <3>2, <3>3
  <2> HIDE DEF q
  <2>6. CASE active = None
    <3>1. Pump(q)
      BY <1>6, <2>6 DEF Enqueue, q
    <3>2. QED
      BY <1>1, <1>2, <2>1, <2>2, <2>4, <2>5, <3>1, PumpPlaces DEF Placed
  <2>7. CASE active # None
    <3>1. queue' = q /\ active' = active /\ pc' = pc
      BY <1>6, <2>7 DEF Enqueue, q
    <3>2. r # active
      BY <2>2 DEF Placed
    <3>3. \A i \in 1..Len(q) : q[i] # active
      BY <2>1, <2>3, <3>2 DEF Placed
    <3>4. active' \notin Fresh'
      BY <1>1, <3>1 DEF Placed
    <3>5. QED
      BY <1>1, <2>2, <2>4, <2>5, <2>7, <3>1, <3>3, <3>4 DEF Placed
  <2>8. QED
    BY <2>6, <2>7
<1>7. ASSUME NEW c \in Requests, CancelRun(c) PROVE Placed'
  <2>1. cancel[c].run \in Runs /\ queue \in Seq(Runs) /\ Dequeue(cancel[c].run)
    BY <1>7, RequestTypes DEF CancelRun, At, TypeOK
  <2>2. active' = active /\ pc' = pc /\ boot' = boot
    BY <1>7 DEF CancelRun
  <2>3. CASE UNCHANGED queue
    BY <1>1, <2>2, <2>3 DEF Placed
  <2>4. CASE \E i \in 1..Len(queue) :
               /\ Len(queue') = Len(queue) - 1
               /\ \A k \in 1..(Len(queue) - 1) :
                    queue'[k] = IF k < i THEN queue[k] ELSE queue[k + 1]
    <3>1. PICK i \in 1..Len(queue) :
            /\ Len(queue') = Len(queue) - 1
            /\ \A k \in 1..(Len(queue) - 1) :
                 queue'[k] = IF k < i THEN queue[k] ELSE queue[k + 1]
      BY <2>4
    <3> DEFINE from(k) == IF k < i THEN k ELSE k + 1
    <3>2. \A k \in 1..Len(queue') : from(k) \in 1..Len(queue) /\ queue'[k] = queue[from(k)]
      BY <1>2, <3>1
    <3>3. \A k, m \in 1..Len(queue') : from(k) = from(m) => k = m
      BY <1>2, <3>1
    <3> HIDE DEF from
    <3>4. \A k \in 1..Len(queue') : queue'[k] \notin Fresh' /\ queue'[k] # active'
      BY <1>1, <2>2, <3>2 DEF Placed
    <3>5. \A k, m \in 1..Len(queue') : queue'[k] = queue'[m] => k = m
      BY <3>2, <3>3 DEF Placed
    <3>6. active # None
      <4>1. Len(queue) # 0
        BY <1>2
      <4>2. QED
        BY <4>1, EmptySeq DEF Placed
    <3>7. QED
      BY <1>1, <2>2, <3>4, <3>5, <3>6 DEF Placed
  <2>5. QED
    BY <2>1, <2>3, <2>4, DequeueFacts
<1>8. QED
  BY <1>3, <1>4, <1>5, <1>6, <1>7, FreshShrinks

LEMMA InitPlaced == Init => Placed
<1> SUFFICES ASSUME Init PROVE Placed
  OBVIOUS
<1>1. Len(queue) = 0
  BY EmptySeq DEF Init
<1>2. QED
  BY <1>1, RunsAssumption DEF Init, Placed, Fresh

\* A submitted run waits in one place of the queue or executes, never both and never
\* twice, and the executor rests only when the queue is empty (enqueueRun, pump, the
\* splice of cancelRun).
THEOREM OnePlaceAtATime == Spec => []Placed
<1>1. Init => TypeOK /\ Placed
  BY InitType, InitPlaced
<1>2. TypeOK /\ Placed /\ [Next]_vars => (TypeOK /\ Placed)'
  BY TypeStep, PlacedStep
<1>3. QED
  BY <1>1, <1>2, PTL DEF Spec

(***************************************************************************)
(* The runner implements the serial queue.                                 *)
(***************************************************************************)
LEMMA SerialStep ==
  ASSUME TypeOK, Placed, [Next]_vars
  PROVE  Serial!Next \/ UNCHANGED Serial!vars
<1>1. Fresh' \subseteq Fresh
  BY FreshShrinks
<1>2. CASE Quiet
  BY <1>1, <1>2 DEF Serial!Next, Serial!Discard, Serial!vars, Quiet, Fresh
<1>3. CASE Release
  BY <1>3 DEF Serial!Next, Serial!Done, Serial!Take, Release, EndRun, Pump, Fresh
<1>4. CASE Crash
  BY <1>1, <1>4 DEF Serial!Next, Serial!Restart, Crash, Fresh
<1>5. ASSUME NEW r \in Runs, Enqueue(r) PROVE Serial!Submit(r)
  <2>1. r \in Fresh /\ Fresh' = Fresh \ {r}
    BY <1>5 DEF Enqueue, Fresh, Placed, TypeOK, dbVars
  <2>2. QED
    BY <1>5, <2>1 DEF Serial!Submit, Serial!Take, Enqueue, Pump, Fresh
<1>6. ASSUME NEW c \in Requests, CancelRun(c) PROVE Serial!Next \/ UNCHANGED Serial!vars
  <2>1. Dequeue(cancel[c].run) /\ Fresh' = Fresh /\ active' = active
    BY <1>6 DEF CancelRun, Fresh, dbVars, creators
  <2>2. CASE UNCHANGED queue
    BY <2>1, <2>2 DEF Serial!vars, Fresh
  <2>3. CASE \E i \in 1..Len(queue) : queue' = RemoveAt(queue, i)
    <3>1. \E i \in 1..Len(queue) : Serial!Withdraw(i)
      BY <2>1, <2>3 DEF Serial!Withdraw, RemoveAt, Fresh
    <3>2. QED
      BY <3>1 DEF Serial!Next
  <2>4. QED
    BY <2>1, <2>2, <2>3 DEF Dequeue
<1>7. QED
  BY <1>2, <1>3, <1>4, <1>5, <1>6, FreshShrinks DEF Serial!Next

\* The queue, the run in hand and the runs still to come behave as a serial queue:
\* first come first served, one at a time, each at most once (runner.ts).
THEOREM SerialQueue == Spec => ImplementsSerialQueue
<1>1. Init => Serial!Init
  BY DEF Init, Serial!Init
<1>2. TypeOK /\ Placed /\ [Next]_vars => [Serial!Next]_(Serial!vars)
  BY SerialStep
<1>3. QED
  BY <1>1, <1>2, TypeCorrect, OnePlaceAtATime, PTL DEF Spec, ImplementsSerialQueue, Serial!Spec

(***************************************************************************)
(* Nothing is stranded.                                                    *)
(***************************************************************************)

\* Under way: submitted and not done with.
Held == {r \in Runs : active = r \/ \E i \in 1..Len(queue) : queue[i] = r}

\* The recovery knows every run it has to close, because nothing else runs meanwhile.
OrphansKnown == boot \in {"jobs", "rows"} => orphans = NotCompleted

NoLoss == NoStrandedRun /\ OrphansKnown

LEMMA PumpHolds ==
  ASSUME NEW q \in Seq(Runs), Pump(q), NEW i \in 1..Len(q)
  PROVE  q[i] \in Held'
<1>1. Len(q) \in Nat /\ q # <<>>
  <2>1. Len(q) # 0
    BY LenProperties
  <2>2. QED
    BY <2>1, LenProperties, EmptySeq
<1>2. /\ active' = q[1] /\ Len(queue') = Len(q) - 1
      /\ \A k \in 1..(Len(q) - 1) : queue'[k] = q[k + 1]
  BY <1>1, PumpFacts
<1>3. q[i] \in Runs
  BY ElementOfSeq, LenProperties
<1>4. CASE i = 1
  BY <1>2, <1>3, <1>4 DEF Held
<1>5. CASE i # 1
  <2>1. i - 1 \in 1..Len(queue') /\ queue'[i - 1] = q[i]
    BY <1>1, <1>2, <1>5
  <2>2. QED
    BY <1>3, <2>1 DEF Held
<1>6. QED
  BY <1>4, <1>5

\* Only the executor, a cancel and a crash take a run off the executor's hands.
LEMMA HeldKept ==
  ASSUME TypeOK, Placed
  PROVE  /\ UNCHANGED <<queue, active>> => Held' = Held
         /\ EndRun => Held \ {active} \subseteq Held'
         /\ \A r \in Runs : Enqueue(r) => Held \cup {r} \subseteq Held'
         /\ \A c \in Requests : CancelRun(c) => Held \ {cancel[c].run} \subseteq Held'
         /\ \A c \in Requests : CancelRun(c) /\ active = cancel[c].run => Held \subseteq Held'
<1>1. UNCHANGED <<queue, active>> => Held' = Held
  BY DEF Held
<1>2. EndRun => Held \ {active} \subseteq Held'
  BY PumpHolds DEF TypeOK, EndRun, Held
<1>3. Len(queue) \in Nat
  BY LenProperties DEF TypeOK
<1>4. ASSUME NEW r \in Runs, Enqueue(r) PROVE Held \cup {r} \subseteq Held'
  <2> DEFINE q == Append(queue, r)
  <2>1. /\ q \in Seq(Runs) /\ Len(q) = Len(queue) + 1
        /\ \A i \in 1..Len(queue) : q[i] = queue[i]
        /\ q[Len(queue) + 1] = r
    BY AppendProperties DEF TypeOK
  <2>2. /\ \A i \in 1..Len(queue) : i \in 1..Len(q) /\ q[i] = queue[i]
        /\ Len(queue) + 1 \in 1..Len(q)
    BY <1>3, <2>1
  <2> HIDE DEF q
  <2>3. CASE active = None
    <3>1. Pump(q)
      BY <1>4, <2>3 DEF Enqueue, q
    <3>2. QED
      BY <2>1, <2>2, <2>3, <3>1, PumpHolds, RunsAssumption DEF Held
  <2>4. CASE active # None
    <3>1. queue' = q /\ active' = active
      BY <1>4, <2>4 DEF Enqueue, q
    <3>2. QED
      BY <2>1, <2>2, <3>1 DEF Held
  <2>5. QED
    BY <2>3, <2>4
<1>5. ASSUME NEW c \in Requests, CancelRun(c)
      PROVE  /\ Held \ {cancel[c].run} \subseteq Held'
             /\ active = cancel[c].run => Held \subseteq Held'
  <2> DEFINE r == cancel[c].run
  <2>1. r \in Runs /\ queue \in Seq(Runs) /\ Dequeue(r) /\ active' = active
    BY <1>5, RequestTypes DEF CancelRun, At, TypeOK
  <2> HIDE DEF r
  <2>2. CASE UNCHANGED queue
    BY <2>1, <2>2 DEF Held
  <2>3. CASE \E i \in 1..Len(queue) :
               /\ queue[i] = r
               /\ Len(queue') = Len(queue) - 1
               /\ \A k \in 1..(Len(queue) - 1) :
                    queue'[k] = IF k < i THEN queue[k] ELSE queue[k + 1]
    <3>1. PICK i \in 1..Len(queue) :
            /\ queue[i] = r
            /\ Len(queue') = Len(queue) - 1
            /\ \A k \in 1..(Len(queue) - 1) :
                 queue'[k] = IF k < i THEN queue[k] ELSE queue[k + 1]
      BY <2>3
    <3>2. ASSUME NEW k \in 1..Len(queue), k # i PROVE queue[k] \in Held'
      <4>1. queue[k] \in Runs
        BY <1>3, ElementOfSeq DEF TypeOK
      <4>2. CASE k < i
        <5>1. k \in 1..Len(queue') /\ queue'[k] = queue[k]
          BY <1>3, <3>1, <4>2
        <5>2. QED
          BY <4>1, <5>1 DEF Held
      <4>3. CASE ~(k < i)
        <5>1. k - 1 \in 1..Len(queue') /\ queue'[k - 1] = queue[k]
          BY <1>3, <3>1, <3>2, <4>3
        <5>2. QED
          BY <4>1, <5>1 DEF Held
      <4>4. QED
        BY <4>2, <4>3
    <3>3. Held \ {r} \subseteq Held'
      BY <2>1, <3>1, <3>2 DEF Held
    <3>4. active = r => r \in Held'
      BY <2>1 DEF Held
    <3>5. QED
      BY <3>3, <3>4 DEF r
  <2>4. QED
    BY <2>1, <2>2, <2>3, DequeueFacts DEF r
<1>6. QED
  BY <1>1, <1>2, <1>4, <1>5

\* InHand, once the server is up.
Finalizing == {r \in Runs : \E c \in Requests : cancel[c].run = r /\ cancel[c].at \in {"jobs", "row"}}
Created == {r \in Runs : creator[r] = "created"}
Covered == Created \cup Held \cup Finalizing

LEMMA Coverage == NoStrandedRun <=> (boot # "up" \/ NotCompleted \subseteq abandoned \cup Covered)
BY DEF NoStrandedRun, InHand, Contains, Covered, Created, Held, Finalizing, NotCompleted

LEMMA CoverageNext ==
  NoStrandedRun' <=> (boot' # "up" \/ NotCompleted' \subseteq abandoned' \cup Covered')
BY DEF NoStrandedRun, InHand, Contains, Covered, Created, Held, Finalizing, NotCompleted

LEMMA NoLossStep == TypeOK /\ Placed /\ NoLoss /\ [Next]_vars => NoLoss'
<1> SUFFICES ASSUME TypeOK, Placed, NoLoss, [Next]_vars PROVE NoLoss'
  OBVIOUS
<1> USE DEF dbVars, origin, heap, locals, creators, recovery, history, bounds, surroundings
<1> DEFINE Kept == NotCompleted' \subseteq abandoned' \cup Covered'
<1>0. /\ boot # "up" \/ NotCompleted \subseteq abandoned \cup Covered
      /\ Kept /\ boot' = "up" => NoLoss'
      /\ boot' = "find" => NoLoss'
      /\ active \in Runs => active \in Held
  BY Coverage, CoverageNext DEF NoLoss, OrphansKnown, Held
<1>a. UNCHANGED <<creator, queue, active, cancel>> => Covered' = Covered
  BY DEF Covered, Created, Held, Finalizing
<1>b. ASSUME EndRun, UNCHANGED <<creator, cancel>>
      PROVE  Covered \subseteq Covered' \cup {active}
  BY <1>b, HeldKept DEF Covered, Created, Finalizing
<1>1. ASSUME NEW r \in Runs, NEW c \in Commits, Create(r, c) PROVE NoLoss'
  BY <1>0, <1>1 DEF TypeOK, Create, Insert, SetRow, NotCompleted, Covered, Created, Held, Finalizing
<1>2. ASSUME NEW r \in Runs, NEW c \in Commits, ParseFailure(r, c) PROVE NoLoss'
  BY <1>0, <1>2, <1>a DEF TypeOK, ParseFailure, Insert, SetRow, NotCompleted
<1>3. ASSUME NEW r \in Runs, NEW src \in Runs, Rerun(r, src) PROVE NoLoss'
  BY <1>0, <1>3 DEF TypeOK, Rerun, Insert, SetRow, NotCompleted, Covered, Created, Held, Finalizing
<1>4. ASSUME NEW r \in Runs, Enqueue(r) PROVE NoLoss'
  <2>1. Held \cup {r} \subseteq Held'
    BY <1>4, HeldKept
  <2>2. Created \subseteq Created' \cup {r} /\ Finalizing' = Finalizing
    BY <1>4 DEF TypeOK, Enqueue, Created, Finalizing
  <2>3. QED
    BY <1>0, <1>4, <2>1, <2>2 DEF Enqueue, NotCompleted, Covered
<1>5. ASSUME NEW r \in Runs, PruneFind(r) PROVE NoLoss'
  <2>1. Covered \subseteq Covered'
    BY <1>5 DEF TypeOK, PruneFind, Covered, Created, Held, Finalizing
  <2>2. QED
    BY <1>0, <1>5, <2>1 DEF PruneFind, NotCompleted
<1>6. ASSUME NEW r \in Runs, PruneDelete(r) PROVE NoLoss'
  <2>1. Covered \subseteq Covered'
    BY <1>6 DEF TypeOK, PruneDelete, Covered, Created, Held, Finalizing
  <2>2. QED
    BY <1>0, <1>6, <2>1 DEF PruneDelete, NotCompleted
<1>7. ASSUME Load PROVE NoLoss'
  <2>1. CASE UNCHANGED heap
    BY <1>0, <1>7, <1>a, <2>1 DEF Load, Executing, NotCompleted
  <2>2. CASE EndRun /\ row[active] = "gone"
    BY <1>0, <1>7, <1>b, <2>2 DEF Load, Executing, NotCompleted
  <2>3. QED
    BY <1>7, <2>1, <2>2 DEF Load
<1>8. ASSUME MarkRunning PROVE NoLoss'
  BY <1>0, <1>8, <1>a DEF TypeOK, MarkRunning, Executing, SetRow, NotCompleted, Covered
<1>9. ASSUME ClaimJob \/ JobBody \/ CancelRemaining \/ FinalizeActiveJobs \/ SettleJob
      PROVE  NoLoss'
  BY <1>0, <1>9, <1>a DEF ClaimJob, JobBody, CancelRemaining, FinalizeActiveJobs, SettleJob,
                          Executing, NotCompleted
<1>10. ASSUME CancelActiveRow PROVE NoLoss'
  BY <1>0, <1>10, <1>b DEF TypeOK, CancelActiveRow, Executing, SetRow, NotCompleted
<1>11. ASSUME FinalizeActiveRow PROVE NoLoss'
  BY <1>0, <1>11, <1>b DEF TypeOK, FinalizeActiveRow, Executing, CloseRows, NotCompleted
<1>12. ASSUME Conclude PROVE NoLoss'
  BY <1>0, <1>12, <1>b DEF TypeOK, Conclude, Executing, SetRow, NotCompleted
<1>13. ASSUME RowVanished \/ ExecutorDbError PROVE NoLoss'
  BY <1>0, <1>13, <1>a DEF RowVanished, ExecutorDbError, NotCompleted
<1>14. ASSUME FailRun PROVE NoLoss'
  BY <1>0, <1>14, <1>b DEF TypeOK, FailRun, Executing, SetRow, NotCompleted
<1>15. ASSUME NEW c \in Requests, NEW r \in Runs, CancelAsk(c, r) PROVE NoLoss'
  <2>1. Covered \subseteq Covered' /\ boot' = "up" /\ NotCompleted' = NotCompleted
    BY <1>15 DEF TypeOK, CancelAsk, At, Covered, Created, Held, Finalizing, NotCompleted
  <2>2. QED
    BY <1>0, <1>15, <2>1 DEF CancelAsk, At
<1>16. ASSUME NEW c \in Requests, CancelRun(c) PROVE NoLoss'
  <2> DEFINE r == cancel[c].run
  <2>1. Created' = Created /\ NotCompleted' = NotCompleted /\ boot = "up" /\ boot' = "up"
    BY <1>16 DEF CancelRun, At, Created, NotCompleted
  <2>2. Finalizing \subseteq Finalizing' /\ (active # r => r \in Finalizing')
    BY <1>16, RequestTypes DEF TypeOK, CancelRun, At, Finalizing
  <2>3. Held \subseteq Held' \/ (active # r /\ Held \ {r} \subseteq Held')
    BY <1>16, HeldKept
  <2>4. Covered \subseteq Covered'
    BY <2>1, <2>2, <2>3 DEF Covered
  <2>5. QED
    BY <1>0, <1>16, <2>1, <2>4 DEF CancelRun
<1>17. ASSUME NEW c \in Requests, CancelFinalizeJobs(c) PROVE NoLoss'
  <2>1. Finalizing \subseteq Finalizing'
    BY <1>17 DEF TypeOK, CancelFinalizeJobs, GoTo, At, Finalizing
  <2>2. QED
    BY <1>0, <1>17, <2>1 DEF CancelFinalizeJobs, At, Covered, Created, Held, NotCompleted
<1>18. ASSUME NEW c \in Requests, CancelFinalizeRow(c) PROVE NoLoss'
  <2>1. Finalizing \ {cancel[c].run} \subseteq Finalizing'
    BY <1>18 DEF TypeOK, CancelFinalizeRow, GoTo, At, Finalizing
  <2>2. NotCompleted' \subseteq NotCompleted \ {cancel[c].run}
    BY <1>18, RequestTypes DEF TypeOK, CancelFinalizeRow, At, CloseRows, NotCompleted
  <2>3. QED
    BY <1>0, <1>18, <2>1, <2>2 DEF CancelFinalizeRow, At, Covered, Created, Held
<1>19. ASSUME NEW c \in Requests, CancelDbError(c) PROVE NoLoss'
  <2>1. Finalizing \ {cancel[c].run} \subseteq Finalizing'
    BY <1>19 DEF TypeOK, CancelDbError, GoTo, At, Finalizing
  <2>2. QED
    BY <1>0, <1>19, <2>1 DEF CancelDbError, At, Covered, Created, Held, NotCompleted
<1>20. ASSUME Crash PROVE NoLoss'
  BY <1>0, <1>20 DEF Crash
<1>21. ASSUME BootFind PROVE NoLoss'
  BY <1>0, <1>21, CoverageNext DEF BootFind, NoLoss, OrphansKnown, NotCompleted
<1>22. ASSUME BootFailJobs PROVE NoLoss'
  BY <1>22, CoverageNext DEF BootFailJobs, NoLoss, OrphansKnown, NotCompleted
<1>23. ASSUME BootFailRows PROVE NoLoss'
  <2>1. NotCompleted' = {}
    BY <1>23 DEF TypeOK, BootFailRows, CloseRows, NoLoss, OrphansKnown, NotCompleted
  <2>2. QED
    BY <1>0, <1>23, <2>1 DEF BootFailRows
<1>24. ASSUME BootDbError PROVE NoLoss'
  BY <1>0, <1>24 DEF BootDbError, NotCompleted
<1>25. CASE UNCHANGED vars
  BY <1>25, <1>a, Coverage, CoverageNext DEF NoLoss, OrphansKnown, vars, NotCompleted
<1>26. QED
  BY <1>1, <1>2, <1>3, <1>4, <1>5, <1>6, <1>7, <1>8, <1>9, <1>10, <1>11, <1>12, <1>13,
     <1>14, <1>15, <1>16, <1>17, <1>18, <1>19, <1>20, <1>21, <1>22, <1>23, <1>24, <1>25
     DEF Next, Trigger, CreatorStep, ExecutorStep, CancelStep, BootStep

\* No run is lost: whoever lets go of a run that is not completed has handed it on, or
\* its own repairing write was refused (enqueueRun, pump, cancelRun, failOrphanedRuns).
THEOREM NoRunIsStranded == Spec => []NoStrandedRun
<1>1. Init => TypeOK /\ Placed /\ NoLoss
  BY InitType, InitPlaced DEF Init, NoLoss, NoStrandedRun, OrphansKnown, NotCompleted
<1>2. TypeOK /\ Placed /\ NoLoss /\ [Next]_vars => (TypeOK /\ Placed /\ NoLoss)'
  BY TypeStep, PlacedStep, NoLossStep
<1>3. NoLoss => NoStrandedRun
  BY DEF NoLoss
<1>4. QED
  BY <1>1, <1>2, <1>3, PTL DEF Spec

(***************************************************************************)
(* A green run has run all its jobs.                                       *)
(***************************************************************************)

\* A run reads success only once it is past the queue and the executor.
GreenIsPast ==
  \A r \in Runs : row[r] = "success" =>
    /\ creator[r] # "created" /\ active # r
    /\ \A i \in 1..Len(queue) : queue[i] # r

\* While no job of the run in hand has failed, those neither ahead nor in hand passed.
Passing(todoNow) ==
  \A j \in Jobs : j \in todoNow \/ j = job \/ check[active][j] = "success"
Progress ==
  active # None /\ row[active] # "gone" /\ ~anyFailed =>
    /\ pc \in {"claim", "body", "settle"} => Passing(todo)
    /\ pc = "conclude" => \A j \in Jobs : check[active][j] = "success"

GreenInv == GreenMeansEveryJobPassed /\ GreenIsPast /\ Progress

\* Closing what is pending leaves every success and makes none.
LEMMA ClosingKeepsGreen ==
  ASSUME TypeOK, NEW rs, NEW how \in {"failure", "cancelled"}
  PROVE  /\ \A r \in Runs, j \in Jobs :
              CloseChecks(rs, how)[r][j] = "success" <=> check[r][j] = "success"
         /\ \A r \in Runs : CloseRows(rs, how)[r] = "success" <=> row[r] = "success"
         /\ \A r \in Runs : CloseRows(rs, how)[r] = "gone" <=> row[r] = "gone"
BY DEF TypeOK, CloseChecks, CloseRows

\* Whoever stands in the queue or executes after a release stood in the queue before it.
LEMMA ReleaseMoves ==
  ASSUME TypeOK, Placed, EndRun, active # None
  PROVE  /\ active' # active
         /\ \A i \in 1..Len(queue') : queue'[i] # active
         /\ active' # None => \E k \in 1..Len(queue) : active' = queue[k]
         /\ \A i \in 1..Len(queue') : \E k \in 1..Len(queue) : queue'[i] = queue[k]
         /\ pc' \in {"idle", "load"} /\ anyFailed' = FALSE
<1>1. queue \in Seq(Runs) /\ Pump(queue) /\ Len(queue) \in Nat
  BY LenProperties DEF TypeOK, EndRun
<1>2. CASE queue = <<>>
  <2>1. queue' = <<>> /\ active' = None /\ pc' = "idle" /\ Len(queue') = 0
    BY <1>1, <1>2, PumpFacts, EmptySeq
  <2>2. QED
    BY <2>1 DEF EndRun, ForgetLocals
<1>3. CASE queue # <<>>
  <2>1. /\ 1 \in 1..Len(queue) /\ active' = queue[1] /\ pc' = "load"
        /\ Len(queue') = Len(queue) - 1
        /\ \A k \in 1..(Len(queue) - 1) : queue'[k] = queue[k + 1]
    BY <1>1, <1>3, PumpFacts
  <2>2. \A i \in 1..Len(queue') : i + 1 \in 1..Len(queue) /\ queue'[i] = queue[i + 1]
    BY <1>1, <2>1
  <2>3. QED
    BY <2>1, <2>2 DEF Placed, EndRun, ForgetLocals
<1>4. QED
  BY <1>2, <1>3

\* Whoever stands in the queue after a splice stood in it before.
LEMMA DequeueMoves ==
  ASSUME NEW r \in Runs, queue \in Seq(Runs), Dequeue(r)
  PROVE  \A i \in 1..Len(queue') : \E k \in 1..Len(queue) : queue'[i] = queue[k]
<1>1. CASE UNCHANGED queue
  BY <1>1
<1>2. CASE \E i \in 1..Len(queue) :
             /\ Len(queue') = Len(queue) - 1
             /\ \A k \in 1..(Len(queue) - 1) :
                  queue'[k] = IF k < i THEN queue[k] ELSE queue[k + 1]
  <2>1. PICK i \in 1..Len(queue) :
          /\ Len(queue') = Len(queue) - 1
          /\ \A k \in 1..(Len(queue) - 1) :
               queue'[k] = IF k < i THEN queue[k] ELSE queue[k + 1]
    BY <1>2
  <2>2. ASSUME NEW k \in 1..Len(queue')
        PROVE  \E m \in 1..Len(queue) : queue'[k] = queue[m]
    <3>1. k \in 1..Len(queue) /\ k + 1 \in 1..Len(queue)
      BY <2>1, LenProperties
    <3>2. queue'[k] = IF k < i THEN queue[k] ELSE queue[k + 1]
      BY <2>1, <2>2
    <3>3. CASE k < i
      BY <3>1, <3>2, <3>3
    <3>4. CASE ~(k < i)
      <4>1. queue'[k] = queue[k + 1]
        BY <3>2, <3>4
      <4>2. QED
        BY <3>1, <4>1
    <3>5. QED
      BY <3>3, <3>4
  <2>3. QED
    BY <2>2
<1>3. QED
  BY <1>1, <1>2, DequeueFacts

LEMMA GreenPastRelease ==
  ASSUME TypeOK, Placed, GreenIsPast, EndRun, active # None, UNCHANGED creator,
         \A r \in Runs : row'[r] = "success" => row[r] = "success" \/ r = active
  PROVE  GreenIsPast' /\ Progress'
<1>1. Progress'
  BY ReleaseMoves DEF Progress
<1>2. ASSUME NEW r \in Runs, row'[r] = "success"
      PROVE  /\ creator'[r] # "created" /\ active' # r
             /\ \A i \in 1..Len(queue') : queue'[i] # r
  <2>1. CASE r = active
    BY <2>1, ReleaseMoves DEF Placed, Fresh
  <2>2. CASE row[r] = "success"
    BY <2>2, ReleaseMoves, RunsAssumption DEF GreenIsPast
  <2>3. QED
    BY <1>2, <2>1, <2>2
<1>3. QED
  BY <1>1, <1>2 DEF GreenIsPast

LEMMA GreenStep == TypeOK /\ Placed /\ GreenInv /\ [Next]_vars => GreenInv'
<1> SUFFICES ASSUME TypeOK, Placed, GreenInv, [Next]_vars PROVE GreenInv'
  OBVIOUS
<1> USE DEF dbVars, origin, heap, locals, creators, recovery, history, bounds, surroundings
<1>0. GreenMeansEveryJobPassed /\ GreenIsPast /\ Progress
  BY DEF GreenInv
<1>a. active # None => active \in Runs /\ creator[active] # "created" /\ row[active] # "none"
  BY DEF TypeOK, Placed, Fresh
<1>b. ASSUME UNCHANGED <<queue, active>>,
             \A r \in Runs : row'[r] = "success" => row[r] = "success",
             \A r \in Runs : creator'[r] = "created" => creator[r] = "created" \/ row'[r] # "success"
      PROVE  GreenIsPast'
  BY <1>0, <1>b DEF GreenIsPast
<1>c. ASSUME UNCHANGED <<active, pc, todo, job, anyFailed>>,
             active # None /\ row'[active] # "gone" =>
               /\ row[active] # "gone"
               /\ \A j \in Jobs : check[active][j] = "success" => check'[active][j] = "success"
      PROVE  Progress'
  BY <1>0, <1>c DEF Progress, Passing
<1>d. ASSUME UNCHANGED <<row, check, queue, active, pc, todo, job, anyFailed>>,
             \A r \in Runs : creator'[r] = "created" => creator[r] = "created"
      PROVE  GreenInv'
  BY <1>0, <1>b, <1>c, <1>d DEF GreenInv, GreenMeansEveryJobPassed
<1>1. ASSUME NEW r \in Runs, NEW st \in {"queued", "failure"}, NEW c, Insert(r, c, st),
             UNCHANGED <<queue, active, pc, todo, job, anyFailed>>,
             \A q \in Runs : creator'[q] = "created" => creator[q] = "created" \/ q = r
      PROVE  GreenInv'
  <2>1. /\ row[r] = "none" /\ row'[r] = st
        /\ \A q \in Runs \ {r} : row'[q] = row[q] /\ check'[q] = check[q]
    BY <1>1 DEF TypeOK, Insert, NextId, SetRow
  <2>2. GreenIsPast'
    BY <1>1, <1>b, <2>1
  <2>3. Progress'
    BY <1>1, <1>a, <1>c, <2>1
  <2>4. QED
    BY <1>0, <2>1, <2>2, <2>3 DEF GreenInv, GreenMeansEveryJobPassed
<1>2. ASSUME NEW r \in Runs, Trigger(r) PROVE GreenInv'
  <2>1. ASSUME NEW c \in Commits, Create(r, c) PROVE GreenInv'
    <3>1. \A q \in Runs : creator'[q] = "created" => creator[q] = "created" \/ q = r
      BY <2>1 DEF TypeOK, Create
    <3>2. QED
      BY <1>1, <2>1, <3>1 DEF Create
  <2>2. ASSUME NEW c \in Commits, ParseFailure(r, c) PROVE GreenInv'
    BY <1>1, <2>2 DEF ParseFailure
  <2>3. ASSUME NEW src \in Runs, Rerun(r, src) PROVE GreenInv'
    <3>1. \A q \in Runs : creator'[q] = "created" => creator[q] = "created" \/ q = r
      BY <2>3 DEF TypeOK, Rerun
    <3>2. QED
      BY <1>1, <2>3, <3>1 DEF Rerun
  <2>4. QED
    BY <1>2, <2>1, <2>2, <2>3 DEF Trigger
<1>4. ASSUME NEW r \in Runs, Enqueue(r) PROVE GreenInv'
  <2> DEFINE q == Append(queue, r)
  <2>1. /\ q \in Seq(Runs) /\ Len(q) = Len(queue) + 1 /\ Len(queue) \in Nat
        /\ \A i \in 1..Len(queue) : q[i] = queue[i]
        /\ q[Len(queue) + 1] = r
    BY AppendProperties, LenProperties DEF TypeOK
  <2>2. \A i \in 1..Len(q) : i \in 1..Len(queue) \/ i = Len(queue) + 1
    BY <2>1
  <2>3. UNCHANGED <<row, check, todo, job, anyFailed>> /\ creator[r] = "created"
        /\ \A x \in Runs : creator'[x] = "created" => creator[x] = "created"
    BY <1>4 DEF TypeOK, Enqueue
  <2>4. \A x \in Runs : row[x] = "success" => x # r /\ \A i \in 1..Len(q) : q[i] # x
    BY <1>0, <2>1, <2>2, <2>3 DEF GreenIsPast
  <2> HIDE DEF q
  <2>5. CASE active = None
    <3>1. Pump(q) /\ q # <<>>
      BY <1>4, <2>1, <2>5, EmptySeq DEF Enqueue, q
    <3>2. /\ active' = q[1] /\ 1 \in 1..Len(q) /\ pc' = "load" /\ Len(queue') = Len(q) - 1
          /\ \A k \in 1..(Len(q) - 1) : queue'[k] = q[k + 1]
      BY <2>1, <3>1, PumpFacts
    <3>3. \A k \in 1..Len(queue') : k + 1 \in 1..Len(q) /\ queue'[k] = q[k + 1]
      BY <2>1, <3>2
    <3>4. GreenIsPast'
      BY <1>0, <2>3, <2>4, <3>2, <3>3 DEF GreenIsPast
    <3>5. Progress'
      BY <3>2 DEF Progress
    <3>6. QED
      BY <1>0, <2>3, <3>4, <3>5 DEF GreenInv, GreenMeansEveryJobPassed
  <2>6. CASE active # None
    <3>1. queue' = q /\ active' = active /\ pc' = pc
      BY <1>4, <2>6 DEF Enqueue, q
    <3>2. GreenIsPast'
      BY <1>0, <2>3, <2>4, <3>1 DEF GreenIsPast
    <3>3. Progress'
      BY <1>c, <2>3, <3>1
    <3>4. QED
      BY <1>0, <2>3, <3>2, <3>3 DEF GreenInv, GreenMeansEveryJobPassed
  <2>7. QED
    BY <2>5, <2>6
<1>5. ASSUME NEW r \in Runs, PruneFind(r) PROVE GreenInv'
  <2>1. \A x \in Runs : creator'[x] = "created" => creator[x] = "created"
    BY <1>5 DEF TypeOK, PruneFind
  <2>2. QED
    BY <1>5, <1>d, <2>1 DEF PruneFind
<1>6. ASSUME NEW r \in Runs, PruneDelete(r) PROVE GreenInv'
  <2>1. \A x \in Runs : creator'[x] = "created" => creator[x] = "created"
    BY <1>6 DEF TypeOK, PruneDelete
  <2>2. \A x \in Runs : row'[x] # "gone" => row'[x] = row[x] /\ \A j \in Jobs : check'[x][j] = check[x][j]
    BY <1>6 DEF TypeOK, PruneDelete
  <2>3. UNCHANGED <<heap, pc, locals>>
    BY <1>6 DEF PruneDelete
  <2>4. GreenIsPast'
    BY <1>b, <2>1, <2>2, <2>3
  <2>5. Progress'
    BY <1>a, <1>c, <2>2, <2>3
  <2>6. QED
    BY <1>0, <2>2, <2>4, <2>5 DEF GreenInv, GreenMeansEveryJobPassed
<1>e. ASSUME EndRun, active # None, UNCHANGED creator,
             \A r \in Runs : row'[r] = "success" => row[r] = "success",
             \A r \in Runs, j \in Jobs : check[r][j] = "success" => check'[r][j] = "success"
      PROVE  GreenInv'
  <2>1. GreenIsPast' /\ Progress'
    BY <1>0, <1>e, GreenPastRelease
  <2>2. QED
    BY <1>0, <1>e, <2>1 DEF GreenInv, GreenMeansEveryJobPassed
<1>f. ASSUME UNCHANGED <<row, queue, active, creator>>, Progress',
             \A r \in Runs, j \in Jobs :
               row[r] = "success" /\ check[r][j] = "success" => check'[r][j] = "success"
      PROVE  GreenInv'
  BY <1>0, <1>b, <1>f DEF GreenInv, GreenMeansEveryJobPassed
<1>7. ASSUME Load PROVE GreenInv'
  <2>1. CASE EndRun
    BY <1>7, <1>e, <2>1 DEF Load, Executing
  <2>2. CASE UNCHANGED heap /\ pc' \in {"finalJobs", "mark"}
    <3>1. Progress'
      BY <2>2 DEF Progress
    <3>2. QED
      BY <1>7, <1>f, <2>2, <3>1 DEF Load
  <2>3. QED
    BY <1>7, <2>1, <2>2 DEF Load
<1>8. ASSUME MarkRunning PROVE GreenInv'
  <2>1. /\ active # None /\ UNCHANGED <<check, queue, active, creator>> /\ NextJob(Jobs, FALSE)
        /\ \A r \in Runs : row'[r] = "success" => row[r] = "success"
    BY <1>8, <1>a DEF TypeOK, MarkRunning, Executing, SetRow
  <2>2. Progress'
    BY <2>1 DEF Progress, Passing, NextJob
  <2>3. GreenIsPast'
    BY <1>b, <2>1
  <2>4. QED
    BY <1>0, <2>1, <2>2, <2>3 DEF GreenInv, GreenMeansEveryJobPassed
<1>9. ASSUME ClaimJob PROVE GreenInv'
  <2>1. /\ active \in Runs /\ active # None /\ row[active] # "success"
        /\ row[active] # "gone" /\ pc = "claim" /\ pc' = "body"
        /\ UNCHANGED <<row, queue, active, creator, todo, job, anyFailed>>
    BY <1>9, <1>0, <1>a DEF ClaimJob, Executing, GreenIsPast
  <2>2. /\ \A r \in Runs \ {active} : check'[r] = check[r]
        /\ \A j \in Jobs \ {job} : check'[active][j] = check[active][j]
    BY <1>9, <2>1 DEF TypeOK, ClaimJob, SetCheck
  <2>3. Progress'
    BY <1>0, <2>1, <2>2 DEF Progress, Passing
  <2>4. QED
    BY <1>f, <2>1, <2>2, <2>3
<1>10. ASSUME JobBody PROVE GreenInv'
  <2>1. Progress'
    BY <1>0, <1>10 DEF Progress, Passing, JobBody, Executing
  <2>2. QED
    BY <1>10, <1>f, <2>1 DEF JobBody
<1>11. ASSUME SettleJob PROVE GreenInv'
  <2>1. /\ active \in Runs /\ active # None /\ row[active] # "success"
        /\ row[active] # "gone" /\ pc = "settle" /\ verdict \in Conclusions
        /\ UNCHANGED <<row, queue, active, creator>>
    BY <1>11, <1>0, <1>a DEF SettleJob, Executing, GreenIsPast, TypeOK
  <2>2. /\ \A r \in Runs \ {active} : check'[r] = check[r]
        /\ \A j \in Jobs \ {job} : check'[active][j] = check[active][j]
        /\ \A j \in Jobs : j = job => check'[active][j] = verdict
    BY <1>11, <2>1 DEF TypeOK, SettleJob, SetCheck
  <2>3. CASE verdict = "cancelled"
    <3>1. pc' = "cancelJobs"
      BY <1>11, <2>3 DEF SettleJob
    <3>2. Progress'
      BY <3>1 DEF Progress
    <3>3. QED
      BY <1>f, <2>1, <2>2, <3>2
  <2>4. CASE verdict # "cancelled"
    <3>1. NextJob(todo, anyFailed \/ verdict = "failure")
      BY <1>11, <2>4 DEF SettleJob
    <3>2. ASSUME ~anyFailed'
          PROVE  \A j \in Jobs \ todo : check'[active][j] = "success"
      <4>1. verdict = "success" /\ ~anyFailed
        BY <2>1, <2>4, <3>1, <3>2 DEF NextJob, TypeOK
      <4>2. QED
        BY <1>0, <2>1, <2>2, <4>1 DEF Progress, Passing
    <3>3. Progress'
      BY <2>1, <3>1, <3>2 DEF Progress, Passing, NextJob
    <3>4. QED
      BY <1>f, <2>1, <2>2, <3>3
  <2>5. QED
    BY <2>3, <2>4
<1>12. ASSUME CancelRemaining \/ FinalizeActiveJobs PROVE GreenInv'
  <2>1. Progress'
    BY <1>12 DEF Progress, CancelRemaining, FinalizeActiveJobs
  <2>2. QED
    BY <1>12, <1>f, <2>1, ClosingKeepsGreen DEF CancelRemaining, FinalizeActiveJobs
<1>13. ASSUME CancelActiveRow PROVE GreenInv'
  BY <1>13, <1>a, <1>e DEF TypeOK, CancelActiveRow, Executing, SetRow
<1>14. ASSUME FinalizeActiveRow PROVE GreenInv'
  BY <1>14, <1>e, ClosingKeepsGreen DEF FinalizeActiveRow, Executing
<1>15. ASSUME Conclude PROVE GreenInv'
  <2>1. /\ EndRun /\ active # None /\ active \in Runs /\ row[active] # "gone" /\ pc = "conclude"
        /\ UNCHANGED <<check, creator>>
        /\ row' = SetRow(active, IF anyFailed THEN "failure" ELSE "success")
    BY <1>15, <1>a DEF Conclude, Executing
  <2>2. /\ \A r \in Runs : row'[r] = "success" => row[r] = "success" \/ r = active
        /\ row'[active] = "success" => ~anyFailed
    BY <2>1 DEF TypeOK, SetRow
  <2>3. GreenIsPast' /\ Progress'
    BY <1>0, <2>1, <2>2, GreenPastRelease
  <2>4. ~anyFailed => \A j \in Jobs : check[active][j] = "success"
    BY <1>0, <2>1 DEF Progress
  <2>5. QED
    BY <1>0, <2>1, <2>2, <2>3, <2>4 DEF GreenInv, GreenMeansEveryJobPassed
<1>16. ASSUME RowVanished \/ ExecutorDbError PROVE GreenInv'
  <2>1. Progress'
    BY <1>16 DEF Progress, RowVanished, ExecutorDbError
  <2>2. QED
    BY <1>16, <1>f, <2>1 DEF RowVanished, ExecutorDbError
<1>17. ASSUME FailRun PROVE GreenInv'
  <2>1. /\ EndRun /\ active # None /\ active \in Runs /\ UNCHANGED <<check, creator>>
        /\ row' = row \/ row' = SetRow(active, "failure")
    BY <1>17, <1>a DEF FailRun, Executing
  <2>2. \A r \in Runs : row'[r] = "success" => row[r] = "success"
    BY <2>1 DEF TypeOK, SetRow
  <2>3. QED
    BY <1>e, <2>1, <2>2
<1>18. ASSUME NEW c \in Requests, NEW r \in Runs, CancelAsk(c, r) PROVE GreenInv'
  BY <1>18, <1>d DEF CancelAsk
<1>19. ASSUME NEW c \in Requests, CancelRun(c) PROVE GreenInv'
  <2>1. /\ UNCHANGED <<row, check, active, pc, todo, job, anyFailed, creator>>
        /\ cancel[c].run \in Runs /\ queue \in Seq(Runs) /\ Dequeue(cancel[c].run)
    BY <1>19, RequestTypes DEF CancelRun, At, TypeOK
  <2>2. Progress'
    BY <1>c, <2>1
  <2>3. \A i \in 1..Len(queue') : \E k \in 1..Len(queue) : queue'[i] = queue[k]
    BY <2>1, DequeueMoves
  <2>4. GreenIsPast'
    BY <1>0, <2>1, <2>3 DEF GreenIsPast
  <2>5. QED
    BY <1>0, <2>1, <2>2, <2>4 DEF GreenInv, GreenMeansEveryJobPassed
<1>20. ASSUME NEW c \in Requests, CancelFinalizeJobs(c) PROVE GreenInv'
  <2>1. check' = CloseChecks({cancel[c].run}, "cancelled")
        /\ UNCHANGED <<row, queue, active, creator, pc, todo, job, anyFailed>>
    BY <1>20 DEF CancelFinalizeJobs
  <2>2. \A r \in Runs, j \in Jobs : check[r][j] = "success" => check'[r][j] = "success"
    BY <2>1, ClosingKeepsGreen
  <2>3. Progress'
    BY <1>a, <1>c, <2>1, <2>2
  <2>4. QED
    BY <1>f, <2>1, <2>2, <2>3
<1>21. ASSUME NEW c \in Requests, CancelFinalizeRow(c) PROVE GreenInv'
  <2>1. row' = CloseRows({cancel[c].run}, "cancelled")
        /\ UNCHANGED <<check, queue, active, creator, pc, todo, job, anyFailed>>
    BY <1>21 DEF CancelFinalizeRow
  <2>2. \A r \in Runs : (row'[r] = "success" <=> row[r] = "success")
                        /\ (row'[r] = "gone" <=> row[r] = "gone")
    BY <2>1, ClosingKeepsGreen
  <2>3. Progress'
    BY <1>a, <1>c, <2>1, <2>2
  <2>4. GreenIsPast'
    BY <1>b, <2>1, <2>2
  <2>5. QED
    BY <1>0, <2>1, <2>2, <2>3, <2>4 DEF GreenInv, GreenMeansEveryJobPassed
<1>22. ASSUME NEW c \in Requests, CancelDbError(c) PROVE GreenInv'
  BY <1>22, <1>d DEF CancelDbError
<1>23. ASSUME Crash PROVE GreenInv'
  <2>1. UNCHANGED <<row, check>> /\ active' = None /\ queue' = <<>> /\ Len(queue') = 0
        /\ \A r \in Runs : creator'[r] = "idle"
    BY <1>23, EmptySeq DEF Crash
  <2>2. QED
    BY <1>0, <2>1, RunsAssumption DEF GreenInv, GreenMeansEveryJobPassed, GreenIsPast, Progress
<1>24. ASSUME BootFind \/ BootDbError PROVE GreenInv'
  BY <1>24, <1>d DEF BootFind, BootDbError
<1>25. ASSUME BootFailJobs PROVE GreenInv'
  <2>1. check' = CloseChecks(orphans, "failure")
        /\ UNCHANGED <<row, queue, active, creator, pc, todo, job, anyFailed>>
    BY <1>25 DEF BootFailJobs
  <2>2. \A r \in Runs, j \in Jobs : check[r][j] = "success" => check'[r][j] = "success"
    BY <2>1, ClosingKeepsGreen
  <2>3. Progress'
    BY <1>a, <1>c, <2>1, <2>2
  <2>4. QED
    BY <1>f, <2>1, <2>2, <2>3
<1>26. ASSUME BootFailRows PROVE GreenInv'
  <2>1. row' = CloseRows(orphans, "failure")
        /\ UNCHANGED <<check, queue, active, creator, pc, todo, job, anyFailed>>
    BY <1>26 DEF BootFailRows
  <2>2. \A r \in Runs : (row'[r] = "success" <=> row[r] = "success")
                        /\ (row'[r] = "gone" <=> row[r] = "gone")
    BY <2>1, ClosingKeepsGreen
  <2>3. Progress'
    BY <1>a, <1>c, <2>1, <2>2
  <2>4. GreenIsPast'
    BY <1>b, <2>1, <2>2
  <2>5. QED
    BY <1>0, <2>1, <2>2, <2>3, <2>4 DEF GreenInv, GreenMeansEveryJobPassed
<1>27. CASE UNCHANGED vars
  BY <1>27, <1>d DEF vars
<1>28. QED
  BY <1>2, <1>4, <1>5, <1>6, <1>7, <1>8, <1>9, <1>10, <1>11, <1>12, <1>13, <1>14, <1>15, <1>16,
     <1>17, <1>18, <1>19, <1>20, <1>21, <1>22, <1>23, <1>24, <1>25, <1>26, <1>27
     DEF Next, CreatorStep, ExecutorStep, CancelStep, BootStep

\* A run reads success only if every one of its jobs does: executeRun concludes from the
\* jobs it ran, and no cancel, refused write or crash turns a job back.
THEOREM GreenIsEarned == Spec => []GreenMeansEveryJobPassed
<1>1. Init => TypeOK /\ Placed /\ GreenInv
  BY InitType, InitPlaced DEF Init, GreenInv, GreenMeansEveryJobPassed, GreenIsPast, Progress
<1>2. TypeOK /\ Placed /\ GreenInv /\ [Next]_vars => (TypeOK /\ Placed /\ GreenInv)'
  BY TypeStep, PlacedStep, GreenStep
<1>3. GreenInv => GreenMeansEveryJobPassed
  BY DEF GreenInv
<1>4. QED
  BY <1>1, <1>2, <1>3, PTL DEF Spec

(***************************************************************************)
(* A verdict is final: whoever completes a run, nobody will run it after.  *)
(***************************************************************************)

\* Runs that are about to be enqueued, wait or execute.
Sched == Created \cup Held

ClosedIsPast == \A r \in Runs \ early : Completed(r) => r \notin Sched
FinalizingIsPast == \A r \in Finalizing \ early : r \notin Sched
AskedExists == \A c \in Requests : cancel[c].at # "idle" => row[cancel[c].run] # "none"
BootAlone == boot # "up" => Sched = {}

FinalInv == ClosedIsPast /\ FinalizingIsPast /\ AskedExists /\ BootAlone

LEMMA SchedShrinks ==
  ASSUME TypeOK, Placed
  PROVE  /\ UNCHANGED <<queue, active, creator>> => Sched' = Sched
         /\ EndRun /\ active # None /\ UNCHANGED creator => Sched' \subseteq Sched \ {active}
         /\ \A r \in Runs : Enqueue(r) => Sched' \subseteq Sched
         /\ \A c \in Requests : CancelRun(c) =>
              /\ Sched' \subseteq Sched
              /\ active # cancel[c].run /\ creator[cancel[c].run] # "created" =>
                   cancel[c].run \notin Sched'
<1>1. UNCHANGED <<queue, active, creator>> => Sched' = Sched
  BY DEF Sched, Created, Held
<1>2. ASSUME EndRun, active # None, UNCHANGED creator PROVE Sched' \subseteq Sched \ {active}
  <2>1. Created' = Created /\ active \notin Created
    BY <1>2 DEF Created, Placed, Fresh
  <2>2. Held' \subseteq Held \ {active}
    BY <1>2, ReleaseMoves, RunsAssumption DEF Held
  <2>3. QED
    BY <2>1, <2>2 DEF Sched
<1>3. ASSUME NEW r \in Runs, Enqueue(r) PROVE Sched' \subseteq Sched
  <2> DEFINE q == Append(queue, r)
  <2>1. /\ q \in Seq(Runs) /\ Len(q) = Len(queue) + 1 /\ Len(queue) \in Nat
        /\ \A i \in 1..Len(queue) : q[i] = queue[i]
        /\ q[Len(queue) + 1] = r
    BY AppendProperties, LenProperties DEF TypeOK
  <2>2. \A i \in 1..Len(q) : q[i] = r \/ \E k \in 1..Len(queue) : q[i] = queue[k]
    <3>1. \A i \in 1..Len(q) : i \in 1..Len(queue) \/ i = Len(queue) + 1
      BY <2>1
    <3>2. QED
      BY <2>1, <3>1
  <2>3. Created' \subseteq Created /\ r \in Created
    BY <1>3 DEF TypeOK, Enqueue, Created
  <2> HIDE DEF q
  <2>4. CASE active = None
    <3>1. Pump(q) /\ q # <<>>
      BY <1>3, <2>1, <2>4, EmptySeq DEF Enqueue, q
    <3>2. /\ active' = q[1] /\ 1 \in 1..Len(q) /\ Len(queue') = Len(q) - 1
          /\ \A k \in 1..(Len(q) - 1) : queue'[k] = q[k + 1]
      BY <2>1, <3>1, PumpFacts
    <3>3. \A k \in 1..Len(queue') : k + 1 \in 1..Len(q) /\ queue'[k] = q[k + 1]
      BY <2>1, <3>2
    <3>4. Held' \subseteq Held \cup {r}
      BY <2>2, <3>2, <3>3 DEF Held
    <3>5. QED
      BY <2>3, <3>4 DEF Sched
  <2>5. CASE active # None
    <3>1. queue' = q /\ active' = active
      BY <1>3, <2>5 DEF Enqueue, q
    <3>2. Held' \subseteq Held \cup {r}
      BY <2>2, <3>1 DEF Held
    <3>3. QED
      BY <2>3, <3>2 DEF Sched
  <2>6. QED
    BY <2>4, <2>5
<1>4. ASSUME NEW c \in Requests, CancelRun(c)
      PROVE  /\ Sched' \subseteq Sched
             /\ active # cancel[c].run /\ creator[cancel[c].run] # "created" =>
                  cancel[c].run \notin Sched'
  <2> DEFINE r == cancel[c].run
  <2>0. queue \in Seq(Runs) /\ Len(queue) \in Nat
    BY LenProperties DEF TypeOK
  <2>1. r \in Runs /\ Dequeue(r) /\ active' = active /\ creator' = creator
    BY <1>4, RequestTypes DEF CancelRun, At, creators
  <2>2. Created' = Created
    BY <2>1 DEF Created
  <2>3. Held' \subseteq Held
    BY <2>0, <2>1, DequeueMoves DEF Held
  <2> HIDE DEF r
  <2>4. \A k \in 1..Len(queue') : queue'[k] # r
    <3>1. CASE ~Contains(queue, r) /\ UNCHANGED queue
      BY <3>1 DEF Contains
    <3>2. CASE \E i \in 1..Len(queue) : queue[i] = r /\ queue' = RemoveAt(queue, i)
      <4>1. PICK i \in 1..Len(queue) : queue[i] = r /\ queue' = RemoveAt(queue, i)
        BY <3>2
      <4>2. /\ Len(queue') = Len(queue) - 1
            /\ \A k \in 1..(Len(queue) - 1) :
                 queue'[k] = IF k < i THEN queue[k] ELSE queue[k + 1]
        BY <2>0, <2>1, <4>1, RemoveAtProperties
      <4>3. \A k \in 1..Len(queue) : k # i => queue[k] # r
        BY <4>1 DEF Placed
      <4>4. ASSUME NEW k \in 1..Len(queue') PROVE queue'[k] # r
        <5>1. k \in 1..(Len(queue) - 1) /\ k \in 1..Len(queue) /\ k + 1 \in 1..Len(queue)
          BY <2>0, <4>2
        <5>2. CASE k < i
          BY <4>2, <4>3, <5>1, <5>2
        <5>3. CASE ~(k < i)
          <6>1. queue'[k] = queue[k + 1] /\ k + 1 # i
            BY <4>2, <5>1, <5>3
          <6>2. QED
            BY <4>3, <5>1, <6>1
        <5>4. QED
          BY <5>2, <5>3
      <4>5. QED
        BY <4>4
    <3>3. QED
      BY <2>1, <3>1, <3>2 DEF Dequeue
  <2>5. active # r /\ creator[r] # "created" => r \notin Sched'
    BY <2>1, <2>2, <2>4 DEF Sched, Created, Held
  <2>6. QED
    BY <2>2, <2>3, <2>5 DEF Sched, r
<1>5. QED
  BY <1>1, <1>2, <1>3, <1>4

\* A row that no run has is nowhere.
LEMMA NewIsNowhere ==
  ASSUME TypeOK, Placed, NEW r \in Runs, row[r] = "none"
  PROVE  r \notin Sched
BY DEF Placed, Fresh, Sched, Created, Held

LEMMA FinalStep == TypeOK /\ Placed /\ FinalInv /\ [Next]_vars => FinalInv'
<1> SUFFICES ASSUME TypeOK, Placed, FinalInv, [Next]_vars PROVE FinalInv'
  OBVIOUS
<1> USE DEF dbVars, origin, heap, locals, creators, recovery, history, bounds, surroundings
<1>0. /\ ClosedIsPast /\ FinalizingIsPast /\ AskedExists /\ BootAlone
      /\ active # None => active \in Runs /\ active \in Sched /\ row[active] # "none"
  BY DEF FinalInv, TypeOK, Placed, Fresh, Sched, Held
<1>a. ASSUME UNCHANGED <<early, cancel>>, Sched' \subseteq Sched, boot' # "up" => boot # "up",
             \A r \in Runs : row'[r] = "none" => row[r] = "none",
             \A r \in Runs \ early : row'[r] \in Conclusions => row[r] \in Conclusions \/ r \notin Sched'
      PROVE  FinalInv'
  <2>1. ClosedIsPast'
    BY <1>0, <1>a DEF ClosedIsPast, Completed
  <2>2. FinalizingIsPast'
    BY <1>0, <1>a DEF FinalizingIsPast, Finalizing
  <2>3. AskedExists'
    BY <1>0, <1>a DEF AskedExists, TypeOK
  <2>4. BootAlone'
    BY <1>0, <1>a DEF BootAlone
  <2>5. QED
    BY <2>1, <2>2, <2>3, <2>4 DEF FinalInv
<1>b. ASSUME UNCHANGED <<row, early, cancel>>, Sched' \subseteq Sched, boot' # "up" => boot # "up"
      PROVE  FinalInv'
  BY <1>a, <1>b
<1>1. ASSUME NEW r \in Runs, NEW st \in {"queued", "failure"}, NEW c, Insert(r, c, st),
             UNCHANGED <<early, cancel, boot>>,
             Sched' \subseteq IF st = "queued" THEN Sched \cup {r} ELSE Sched
      PROVE  FinalInv'
  <2>1. /\ row[r] = "none" /\ row'[r] = st /\ boot = "up" /\ r \notin Sched
        /\ \A q \in Runs \ {r} : row'[q] = row[q]
    BY <1>1, NewIsNowhere DEF TypeOK, Insert, NextId, SetRow
  <2>2. ClosedIsPast'
    BY <1>0, <1>1, <2>1 DEF ClosedIsPast, Completed
  <2>3. r \notin Finalizing
    BY <1>0, <2>1 DEF AskedExists, Finalizing
  <2>4. FinalizingIsPast'
    BY <1>0, <1>1, <2>3 DEF FinalizingIsPast, Finalizing
  <2>5. AskedExists'
    BY <1>0, <1>1, <2>1 DEF AskedExists, TypeOK
  <2>6. QED
    BY <1>1, <2>1, <2>2, <2>4, <2>5 DEF FinalInv, BootAlone
<1>2. ASSUME NEW r \in Runs, Trigger(r) PROVE FinalInv'
  <2>1. ASSUME NEW c \in Commits, Create(r, c) PROVE FinalInv'
    <3>1. Sched' \subseteq Sched \cup {r}
      BY <2>1 DEF TypeOK, Create, Sched, Created, Held
    <3>2. QED
      BY <1>1, <2>1, <3>1 DEF Create
  <2>2. ASSUME NEW c \in Commits, ParseFailure(r, c) PROVE FinalInv'
    <3>1. Sched' \subseteq Sched
      BY <2>2 DEF ParseFailure, Sched, Created, Held
    <3>2. QED
      BY <1>1, <2>2, <3>1 DEF ParseFailure
  <2>3. ASSUME NEW src \in Runs, Rerun(r, src) PROVE FinalInv'
    <3>1. Sched' \subseteq Sched \cup {r}
      BY <2>3 DEF TypeOK, Rerun, Sched, Created, Held
    <3>2. QED
      BY <1>1, <2>3, <3>1 DEF Rerun
  <2>4. QED
    BY <1>2, <2>1, <2>2, <2>3 DEF Trigger
<1>3. ASSUME NEW r \in Runs, Enqueue(r) PROVE FinalInv'
  BY <1>3, <1>b, SchedShrinks DEF Enqueue
<1>4. ASSUME NEW r \in Runs, PruneFind(r) \/ PruneDelete(r) PROVE FinalInv'
  <2>1. Sched' \subseteq Sched
    BY <1>4 DEF TypeOK, PruneFind, PruneDelete, Sched, Created, Held
  <2>2. CASE PruneFind(r)
    BY <1>b, <2>1, <2>2 DEF PruneFind
  <2>3. CASE PruneDelete(r)
    <3>1. \A q \in Runs : row'[q] = row[q] \/ row'[q] = "gone"
      BY <2>3 DEF TypeOK, PruneDelete
    <3>2. QED
      BY <1>a, <2>1, <2>3, <3>1 DEF PruneDelete
  <2>4. QED
    BY <1>4, <2>2, <2>3
<1>5. ASSUME Load PROVE FinalInv'
  BY <1>5, <1>b, SchedShrinks DEF Load, Executing
<1>6. ASSUME MarkRunning PROVE FinalInv'
  <2>1. row' = SetRow(active, "running") /\ active \in Runs /\ UNCHANGED <<early, cancel, boot, queue, active, creator>>
    BY <1>6, <1>0 DEF MarkRunning, Executing
  <2>2. \A r \in Runs : row'[r] = row[r] \/ row'[r] = "running"
    BY <2>1 DEF TypeOK, SetRow
  <2>3. QED
    BY <1>a, <2>1, <2>2, SchedShrinks
<1>7. ASSUME ClaimJob \/ JobBody \/ SettleJob \/ CancelRemaining \/ FinalizeActiveJobs
             \/ RowVanished \/ ExecutorDbError
      PROVE  FinalInv'
  <2>1. UNCHANGED <<row, early, cancel, boot, queue, active, creator>>
    BY <1>7 DEF ClaimJob, JobBody, SettleJob, CancelRemaining, FinalizeActiveJobs, RowVanished, ExecutorDbError
  <2>2. QED
    BY <1>b, <2>1, SchedShrinks
<1>c. ASSUME EndRun, active # None, UNCHANGED <<early, cancel, boot, creator>>,
             \A r \in Runs \ {active} : row'[r] = row[r], row'[active] # "none"
      PROVE  FinalInv'
  <2>1. Sched' \subseteq Sched \ {active}
    BY <1>c, SchedShrinks
  <2>2. QED
    BY <1>a, <1>c, <2>1
<1>8. ASSUME CancelActiveRow \/ Conclude \/ FinalizeActiveRow \/ FailRun PROVE FinalInv'
  <2>1. /\ EndRun /\ active # None /\ active \in Runs /\ UNCHANGED <<early, cancel, boot, creator>>
        /\ \/ row' = row \/ row' = CloseRows({active}, "cancelled")
           \/ \E st \in Conclusions : row' = SetRow(active, st)
    BY <1>8, <1>0 DEF CancelActiveRow, Conclude, FinalizeActiveRow, FailRun, Executing
  <2>2. /\ \A r \in Runs \ {active} : row'[r] = row[r]
        /\ row'[active] # "none"
    BY <2>1, <1>0 DEF TypeOK, SetRow, CloseRows
  <2>3. QED
    BY <1>c, <2>1, <2>2
<1>9. ASSUME NEW c \in Requests, NEW r \in Runs, CancelAsk(c, r) PROVE FinalInv'
  <2>1. /\ UNCHANGED <<row, early, boot, queue, active, creator>> /\ row[r] # "none" /\ boot = "up"
        /\ cancel'[c].run = r /\ cancel'[c].at = "asked"
        /\ \A d \in Requests \ {c} : cancel'[d] = cancel[d]
    BY <1>9 DEF TypeOK, CancelAsk, At
  <2>2. Finalizing' \subseteq Finalizing
    BY <2>1 DEF Finalizing
  <2>3. Sched' = Sched
    BY <2>1, SchedShrinks
  <2>4. AskedExists'
    BY <1>0, <2>1 DEF AskedExists
  <2>5. QED
    BY <1>0, <2>1, <2>2, <2>3, <2>4 DEF FinalInv, ClosedIsPast, Completed, FinalizingIsPast, BootAlone
<1>10. ASSUME NEW c \in Requests, CancelRun(c) PROVE FinalInv'
  <2> DEFINE r == cancel[c].run
  <2>1. /\ UNCHANGED <<row, boot>> /\ boot = "up" /\ r \in Runs /\ early \subseteq early'
        /\ creator[r] = "created" => r \in early'
        /\ cancel'[c].run = r /\ cancel'[c].at = IF active = r THEN "done" ELSE "jobs"
        /\ \A d \in Requests \ {c} : cancel'[d] = cancel[d]
        /\ cancel[c].at # "idle"
    BY <1>10, RequestTypes DEF TypeOK, CancelRun, At
  <2>2. /\ Sched' \subseteq Sched
        /\ active # r /\ creator[r] # "created" => r \notin Sched'
    BY <1>10, SchedShrinks
  <2>3. \A q \in Finalizing' : q \in Finalizing \/ (q = r /\ active # r)
    BY <2>1 DEF Finalizing
  <2> HIDE DEF r
  <2>4. FinalizingIsPast'
    BY <1>0, <2>1, <2>2, <2>3 DEF FinalizingIsPast
  <2>5. AskedExists'
    BY <1>0, <2>1 DEF AskedExists, r
  <2>6. QED
    BY <1>0, <2>1, <2>2, <2>4, <2>5 DEF FinalInv, ClosedIsPast, Completed, BootAlone
<1>d. ASSUME UNCHANGED <<early, boot, queue, active, creator>>, Finalizing' \subseteq Finalizing,
             \A c \in Requests : cancel'[c].at # "idle" =>
               cancel[c].at # "idle" /\ cancel'[c].run = cancel[c].run,
             \A r \in Runs : row'[r] = "none" => row[r] = "none",
             \A r \in Runs \ early : row'[r] \in Conclusions => row[r] \in Conclusions \/ r \notin Sched
      PROVE  FinalInv'
  <2>1. Sched' = Sched
    BY <1>d, SchedShrinks
  <2>2. AskedExists'
    BY <1>0, <1>d, RequestTypes DEF AskedExists
  <2>3. QED
    BY <1>0, <1>d, <2>1, <2>2 DEF FinalInv, ClosedIsPast, Completed, FinalizingIsPast, BootAlone
<1>11. ASSUME NEW c \in Requests, CancelFinalizeJobs(c) \/ CancelFinalizeRow(c) \/ CancelDbError(c)
       PROVE  FinalInv'
  <2> DEFINE r == cancel[c].run
  <2>1. cancel[c].at \in {"jobs", "row"} /\ \E where \in {"row", "done"} : GoTo(c, where)
    BY <1>11 DEF CancelFinalizeJobs, CancelFinalizeRow, CancelDbError, At
  <2>2. /\ UNCHANGED <<early, boot, queue, active, creator>>
        /\ row' = row \/ row' = CloseRows({r}, "cancelled")
    BY <1>11 DEF CancelFinalizeJobs, CancelFinalizeRow, CancelDbError
  <2>3. /\ cancel'[c].run = r /\ cancel'[c].at \in {"row", "done"}
        /\ \A d \in Requests \ {c} : cancel'[d] = cancel[d]
    BY <2>1 DEF GoTo, TypeOK
  <2>4. r \in Runs /\ r \in Finalizing
    BY <2>1, RequestTypes DEF Finalizing
  <2> HIDE DEF r
  <2>5. \A q \in Runs : q # r => row'[q] = row[q]
    BY <2>2 DEF TypeOK, CloseRows
  <2>6. row'[r] = "none" => row[r] = "none"
    BY <2>2 DEF TypeOK, CloseRows
  <2>7. r \in early \/ r \notin Sched
    BY <1>0, <2>4 DEF FinalizingIsPast
  <2>8. Finalizing' \subseteq Finalizing
    BY <2>1, <2>3 DEF Finalizing, r
  <2>9. \A d \in Requests : cancel'[d].at # "idle" => cancel[d].at # "idle" /\ cancel'[d].run = cancel[d].run
    BY <2>1, <2>3 DEF r
  <2>10. QED
    BY <1>d, <2>2, <2>5, <2>6, <2>7, <2>8, <2>9
<1>12. ASSUME Crash PROVE FinalInv'
  <2>1. /\ UNCHANGED <<row, early>> /\ active' = None /\ queue' = <<>> /\ Len(queue') = 0
        /\ \A r \in Runs : creator'[r] = "idle"
        /\ cancel' = [c \in Requests |->
                        IF cancel[c].at = "idle" THEN cancel[c] ELSE [cancel[c] EXCEPT !.at = "done"]]
    BY <1>12, EmptySeq DEF Crash
  <2>2. Sched' = {}
    BY <2>1, RunsAssumption DEF Sched, Created, Held
  <2>3. \A c \in Requests : cancel'[c].at # "idle" => cancel[c].at # "idle" /\ cancel'[c].run = cancel[c].run
    BY <2>1 DEF TypeOK
  <2>4. AskedExists'
    BY <1>0, <2>1, <2>3 DEF AskedExists
  <2>5. QED
    BY <2>2, <2>4 DEF FinalInv, ClosedIsPast, FinalizingIsPast, BootAlone
<1>13. ASSUME BootFind \/ BootFailJobs \/ BootDbError PROVE FinalInv'
  <2>1. UNCHANGED <<row, early, cancel, queue, active, creator>> /\ boot # "up"
    BY <1>13 DEF BootFind, BootFailJobs, BootDbError
  <2>2. QED
    BY <1>b, <2>1, SchedShrinks
<1>14. ASSUME BootFailRows PROVE FinalInv'
  <2>1. UNCHANGED <<early, cancel, queue, active, creator>> /\ boot # "up" /\ boot' = "up"
        /\ row' = CloseRows(orphans, "failure")
    BY <1>14 DEF BootFailRows
  <2>2. Sched' = {}
    BY <1>0, <2>1, SchedShrinks DEF BootAlone
  <2>3. \A r \in Runs : row'[r] = "none" => row[r] = "none"
    BY <2>1 DEF TypeOK, CloseRows
  <2>4. QED
    BY <1>a, <2>1, <2>2, <2>3
<1>15. CASE UNCHANGED vars
  <2>1. UNCHANGED <<row, early, cancel, boot, queue, active, creator>>
    BY <1>15 DEF vars
  <2>2. QED
    BY <1>b, <2>1, SchedShrinks
<1>16. QED
  BY <1>2, <1>3, <1>4, <1>5, <1>6, <1>7, <1>8, <1>9, <1>10, <1>11, <1>12, <1>13, <1>14, <1>15
     DEF Next, CreatorStep, ExecutorStep, CancelStep, BootStep

LEMMA InitFinal == Init => FinalInv
<1>1. Init => Sched = {}
  BY EmptySeq, RunsAssumption DEF Init, Sched, Created, Held
<1>2. QED
  BY <1>1 DEF Init, FinalInv, ClosedIsPast, FinalizingIsPast, AskedExists, BootAlone

LEMMA FinalInvHolds == Spec => [](TypeOK /\ Placed /\ FinalInv)
<1>1. Init => TypeOK /\ Placed /\ FinalInv
  BY InitType, InitPlaced, InitFinal
<1>2. TypeOK /\ Placed /\ FinalInv /\ [Next]_vars => (TypeOK /\ Placed /\ FinalInv)'
  BY TypeStep, PlacedStep, FinalStep
<1>3. QED
  BY <1>1, <1>2, PTL DEF Spec

\* Whoever writes a row writes a pending one, or deletes it.
LEMMA VerdictStep ==
  ASSUME TypeOK, Placed, FinalInv, [Next]_vars, NEW r \in Runs \ early, Completed(r)
  PROVE  row'[r] \in {row[r], "gone"}
<1> USE DEF dbVars, origin, heap, locals, creators, recovery, history, bounds, surroundings
<1>0. row[r] \in Conclusions /\ r # active
  BY DEF FinalInv, ClosedIsPast, Completed, Sched, Held
<1>1. ASSUME NEW q \in Runs, NEW st, NEW c, Insert(q, c, st) PROVE row'[r] = row[r]
  BY <1>0, <1>1 DEF TypeOK, Insert, NextId, SetRow
<1>2. ASSUME NEW q \in Runs, PruneDelete(q) PROVE row'[r] \in {row[r], "gone"}
  BY <1>2 DEF TypeOK, PruneDelete
<1>3. ASSUME NEW st, row' = SetRow(active, st) PROVE row'[r] = row[r]
  BY <1>0, <1>3 DEF TypeOK, SetRow
<1>4. ASSUME NEW rs, NEW st, row' = CloseRows(rs, st) PROVE row'[r] = row[r]
  BY <1>0, <1>4 DEF TypeOK, CloseRows
<1>5. ASSUME NEW q \in Runs, Trigger(q) \/ CreatorStep(q) PROVE row'[r] \in {row[r], "gone"}
  BY <1>1, <1>2, <1>5 DEF Trigger, CreatorStep, Create, Rerun, ParseFailure, Enqueue, PruneFind
<1>6. ASSUME ExecutorStep \/ ExecutorDbError PROVE row'[r] = row[r]
  <2>1. row' = row \/ (\E st : row' = SetRow(active, st)) \/ \E rs, st : row' = CloseRows(rs, st)
    BY <1>6 DEF ExecutorStep, ExecutorDbError, Load, MarkRunning, ClaimJob, JobBody, SettleJob, CancelRemaining,
       CancelActiveRow, FinalizeActiveJobs, FinalizeActiveRow, Conclude, RowVanished, FailRun
  <2>2. QED
    BY <1>3, <1>4, <2>1
<1>7. ASSUME NEW c \in Requests, CancelStep(c) \/ CancelDbError(c) \/ \E q \in Runs : CancelAsk(c, q)
      PROVE  row'[r] = row[r]
  BY <1>4, <1>7 DEF CancelStep, CancelRun, CancelFinalizeJobs, CancelFinalizeRow, CancelDbError, CancelAsk
<1>8. ASSUME Crash \/ BootStep \/ BootDbError PROVE row'[r] = row[r]
  BY <1>4, <1>8 DEF Crash, BootStep, BootFind, BootFailJobs, BootFailRows, BootDbError
<1>9. CASE UNCHANGED vars
  BY <1>9 DEF vars
<1>10. QED
  BY <1>5, <1>6, <1>7, <1>8, <1>9 DEF Next

\* A completed run keeps its conclusion until retention deletes it: the writes that are
\* not guarded by the status are the executor's, and it holds no completed run
\* (runner.ts, executeRun and failRun).
THEOREM VerdictsAreFinal == Spec => VerdictIsFinal
<1>1. TypeOK /\ Placed /\ FinalInv /\ [Next]_vars =>
        [\A r \in Runs \ early : Completed(r) => row'[r] \in {row[r], "gone"}]_vars
  BY VerdictStep
<1>2. QED
  BY <1>1, FinalInvHolds, PTL DEF Spec, VerdictIsFinal

(***************************************************************************)
(* A cancel that came in time does not end in a success.                   *)
(***************************************************************************)

\* A flag that is set will be looked at, or the run is past being a success.
Heeding ==
  \/ pc \in {"load", "mark", "claim", "body", "cancelJobs", "cancelRow", "finalJobs", "finalRow", "fail"}
  \/ pc = "settle" /\ (todo # {} \/ verdict # "success")
  \/ pc = "conclude" /\ anyFailed

Heeded(c) ==
  /\ cancel[c].inTime => cancel[c].at # "idle"
  /\ cancel[c].inTime /\ cancel[c].run \notin early =>
       /\ row[cancel[c].run] # "success"
       /\ cancel[c].run \in Sched =>
            active = cancel[c].run /\ cancel[c].run \in cancelRequested /\ Heeding

HonourInv == \A c \in Requests : Heeded(c)

LEMMA HonourStep == TypeOK /\ Placed /\ FinalInv /\ HonourInv /\ [Next]_vars => HonourInv'
<1> SUFFICES ASSUME TypeOK, Placed, FinalInv, HonourInv, [Next]_vars, NEW c \in Requests
             PROVE  Heeded(c)'
  BY DEF HonourInv
<1> USE DEF dbVars, origin, heap, locals, creators, recovery, history, bounds, surroundings
<1> DEFINE r == cancel[c].run
<1>0. /\ Heeded(c) /\ ClosedIsPast /\ FinalizingIsPast /\ AskedExists /\ BootAlone
      /\ active # None => active \in Runs /\ active \in Sched /\ row[active] # "none"
      /\ cancel[c].at # "idle" => r \in Runs /\ row[r] # "none" /\ r # None
  BY RequestTypes, RunsAssumption DEF HonourInv, FinalInv, AskedExists, TypeOK, Placed, Fresh, Sched, Held
\* A step of somebody else, who leaves the run in hand alone.
<1>a. ASSUME cancel'[c] = cancel[c] \/ (cancel[c].at # "idle" /\ cancel'[c].at # "idle"
                                        /\ cancel'[c].inTime = cancel[c].inTime /\ cancel'[c].run = r),
             early \subseteq early',
             cancel[c].at # "idle" /\ r \notin early' /\ row[r] # "success" => row'[r] # "success",
             cancel[c].at # "idle" /\ r \notin early' /\ r \in Sched' =>
               /\ r \in Sched
               /\ active = r => active' = r
               /\ active = r /\ r \in cancelRequested => r \in cancelRequested'
               /\ active = r /\ r \in cancelRequested /\ Heeding => Heeding'
      PROVE  Heeded(c)'
  BY <1>0, <1>a DEF Heeded
<1>b. ASSUME UNCHANGED <<row, cancel, early, queue, active, creator, cancelRequested, pc, todo, verdict, anyFailed>>
      PROVE  Heeded(c)'
  <2>1. Sched' = Sched
    BY <1>b, SchedShrinks
  <2>2. Heeding' = Heeding
    BY <1>b DEF Heeding
  <2>3. QED
    BY <1>a, <1>b, <2>1, <2>2
<1> HIDE DEF r
<1>1. ASSUME NEW q \in Runs, NEW st \in {"queued", "failure"}, NEW d, Insert(q, d, st),
             Sched' \subseteq Sched \cup {q}, UNCHANGED <<cancel, early, heap, pc, locals>>
      PROVE  Heeded(c)'
  <2>1. row[q] = "none" /\ row'[q] = st /\ \A x \in Runs \ {q} : row'[x] = row[x]
    BY <1>1 DEF TypeOK, Insert, NextId, SetRow
  <2>2. Heeding' = Heeding
    BY <1>1 DEF Heeding
  <2>3. cancel[c].at # "idle" => r # q /\ row'[r] = row[r]
    BY <1>0, <2>1
  <2>4. QED
    BY <1>a, <1>1, <2>2, <2>3
<1>2. ASSUME NEW q \in Runs, Trigger(q) PROVE Heeded(c)'
  <2>1. ASSUME NEW d \in Commits, Create(q, d) PROVE Heeded(c)'
    <3>1. Sched' \subseteq Sched \cup {q}
      BY <2>1 DEF TypeOK, Create, Sched, Created, Held
    <3>2. QED
      BY <1>1, <2>1, <3>1 DEF Create
  <2>2. ASSUME NEW d \in Commits, ParseFailure(q, d) PROVE Heeded(c)'
    <3>1. Sched' \subseteq Sched \cup {q}
      BY <2>2 DEF ParseFailure, Sched, Created, Held
    <3>2. QED
      BY <1>1, <2>2, <3>1 DEF ParseFailure
  <2>3. ASSUME NEW src \in Runs, Rerun(q, src) PROVE Heeded(c)'
    <3>1. Sched' \subseteq Sched \cup {q}
      BY <2>3 DEF TypeOK, Rerun, Sched, Created, Held
    <3>2. QED
      BY <1>1, <2>3, <3>1 DEF Rerun
  <2>4. QED
    BY <1>2, <2>1, <2>2, <2>3 DEF Trigger
<1>3. ASSUME NEW q \in Runs, Enqueue(q) PROVE Heeded(c)'
  <2>1. Sched' \subseteq Sched /\ UNCHANGED <<row, cancel, early, cancelRequested, locals>>
        /\ (active # None => UNCHANGED <<active, pc>>)
    BY <1>3, SchedShrinks DEF Enqueue
  <2>2. active # None => Heeding' = Heeding
    BY <2>1 DEF Heeding
  <2>3. QED
    BY <1>0, <1>a, <2>1, <2>2
<1>4. ASSUME NEW q \in Runs, PruneFind(q) \/ PruneDelete(q) PROVE Heeded(c)'
  <2>1. /\ Sched' \subseteq Sched /\ UNCHANGED <<cancel, early, heap, pc, locals>>
        /\ \A x \in Runs : row'[x] = row[x] \/ row'[x] = "gone"
    BY <1>4 DEF TypeOK, PruneFind, PruneDelete, Sched, Created, Held
  <2>2. Heeding' = Heeding
    BY <2>1 DEF Heeding
  <2>3. cancel[c].at # "idle" /\ row[r] # "success" => row'[r] # "success"
    BY <1>0, <2>1
  <2>4. QED
    BY <1>a, <2>1, <2>2, <2>3
\* The executor goes on with the run.
<1>c. ASSUME UNCHANGED <<queue, active, creator, cancelRequested, cancel, early>>,
             \A x \in Runs : row'[x] = "success" => row[x] = "success",
             active \in cancelRequested /\ Heeding => Heeding'
      PROVE  Heeded(c)'
  <2>1. Sched' = Sched
    BY <1>c, SchedShrinks
  <2>2. cancel[c].at # "idle" /\ row[r] # "success" => row'[r] # "success"
    BY <1>0, <1>c
  <2>3. QED
    BY <1>a, <1>c, <2>1, <2>2
\* The executor lets go of the run.
<1>d. ASSUME EndRun, active # None, UNCHANGED <<creator, cancel, early>>,
             \A x \in Runs : row'[x] = "success" => row[x] = "success" \/ (x = active /\ ~anyFailed /\ pc = "conclude")
      PROVE  Heeded(c)'
  <2>1. Sched' \subseteq Sched \ {active}
    BY <1>d, SchedShrinks
  <2>2. cancel'[c].inTime /\ r \notin early => r \notin Sched'
    BY <1>0, <1>d, <2>1 DEF Heeded, r
  <2>3. cancel'[c].inTime /\ r \notin early => row'[r] # "success"
    <3>1. SUFFICES ASSUME cancel[c].inTime, r \notin early, row'[r] = "success" PROVE FALSE
      BY <1>d
    <3>2. row[r] # "success" /\ r \in Runs
      BY <1>0, <3>1 DEF Heeded, r
    <3>3. r = active /\ ~anyFailed /\ pc = "conclude"
      BY <1>d, <3>1, <3>2
    <3>4. Heeding
      BY <1>0, <1>d, <3>1, <3>3 DEF Heeded, r
    <3>5. QED
      BY <3>3, <3>4 DEF Heeding
  <2>4. QED
    BY <1>0, <1>d, <2>2, <2>3 DEF Heeded, r
<1>5. ASSUME Load PROVE Heeded(c)'
  <2>1. CASE EndRun
    BY <1>5, <1>d, <2>1 DEF Load, Executing
  <2>2. CASE UNCHANGED heap /\ pc' \in {"finalJobs", "mark"}
    <3>1. Heeding'
      BY <2>2 DEF Heeding
    <3>2. QED
      BY <1>5, <1>c, <2>2, <3>1 DEF Load
  <2>3. QED
    BY <1>5, <2>1, <2>2 DEF Load
<1>6. ASSUME MarkRunning PROVE Heeded(c)'
  <2>1. /\ active # None /\ UNCHANGED <<queue, active, creator, cancelRequested, cancel, early>>
        /\ NextJob(Jobs, FALSE)
        /\ \A x \in Runs : row'[x] = "success" => row[x] = "success"
    BY <1>6, <1>0 DEF TypeOK, MarkRunning, Executing, SetRow
  <2>2. active \in cancelRequested => pc' = "cancelJobs"
    BY <2>1, JobsAssumption DEF NextJob
  <2>3. active \in cancelRequested => Heeding'
    BY <2>2 DEF Heeding
  <2>4. QED
    BY <1>c, <2>1, <2>3
<1>7. ASSUME ClaimJob \/ CancelRemaining \/ FinalizeActiveJobs \/ RowVanished \/ ExecutorDbError
      PROVE  Heeded(c)'
  <2>1. /\ UNCHANGED <<row, queue, active, creator, cancelRequested, cancel, early>>
        /\ pc' \in {"body", "cancelRow", "finalRow", "fail"}
    BY <1>7 DEF ClaimJob, CancelRemaining, FinalizeActiveJobs, RowVanished, ExecutorDbError
  <2>2. Heeding'
    BY <2>1 DEF Heeding
  <2>3. QED
    BY <1>c, <2>1, <2>2
<1>8. ASSUME JobBody PROVE Heeded(c)'
  <2>1. /\ UNCHANGED <<row, queue, active, creator, cancelRequested, cancel, early>> /\ pc' = "settle"
        /\ active \in cancelRequested => verdict' # "success"
    BY <1>8 DEF JobBody
  <2>2. active \in cancelRequested => Heeding'
    BY <2>1 DEF Heeding
  <2>3. QED
    BY <1>c, <2>1, <2>2
<1>9. ASSUME SettleJob PROVE Heeded(c)'
  <2>1. /\ UNCHANGED <<row, queue, active, creator, cancelRequested, cancel, early>>
        /\ pc = "settle" /\ verdict \in Conclusions
    BY <1>9 DEF SettleJob, Executing, TypeOK
  <2>2. ASSUME active \in cancelRequested, Heeding PROVE Heeding'
    <3>1. CASE verdict = "cancelled"
      BY <1>9, <3>1 DEF SettleJob, Heeding
    <3>2. CASE verdict # "cancelled"
      <4>1. NextJob(todo, anyFailed \/ verdict = "failure")
        BY <1>9, <3>2 DEF SettleJob
      <4>2. CASE todo # {}
        <5>1. pc' = "cancelJobs"
          BY <2>2, <4>1, <4>2 DEF NextJob
        <5>2. QED
          BY <5>1 DEF Heeding
      <4>3. CASE todo = {}
        <5>1. verdict = "failure"
          BY <2>1, <2>2, <3>2, <4>3 DEF Heeding
        <5>2. pc' \in {"conclude", "cancelJobs"} /\ anyFailed'
          BY <2>2, <4>1, <5>1 DEF NextJob
        <5>3. QED
          BY <5>2 DEF Heeding
      <4>4. QED
        BY <4>2, <4>3
    <3>3. QED
      BY <3>1, <3>2
  <2>3. QED
    BY <1>c, <2>1, <2>2
<1>10. ASSUME CancelActiveRow \/ FinalizeActiveRow \/ FailRun PROVE Heeded(c)'
  <2>1. /\ EndRun /\ active # None /\ UNCHANGED <<creator, cancel, early>>
        /\ row' = row \/ row' = CloseRows({active}, "cancelled")
           \/ \E st \in {"cancelled", "failure"} : row' = SetRow(active, st)
    BY <1>10 DEF CancelActiveRow, FinalizeActiveRow, FailRun, Executing
  <2>2. \A x \in Runs : row'[x] = "success" => row[x] = "success"
    BY <2>1, ClosingKeepsGreen DEF TypeOK, SetRow
  <2>3. QED
    BY <1>d, <2>1, <2>2
<1>11. ASSUME Conclude PROVE Heeded(c)'
  <2>1. /\ EndRun /\ active # None /\ UNCHANGED <<creator, cancel, early>> /\ pc = "conclude"
        /\ row' = SetRow(active, IF anyFailed THEN "failure" ELSE "success")
    BY <1>11 DEF Conclude, Executing
  <2>2. \A x \in Runs : row'[x] = "success" => row[x] = "success" \/ (x = active /\ ~anyFailed)
    BY <2>1 DEF TypeOK, SetRow
  <2>3. QED
    BY <1>d, <2>1, <2>2
<1>12. ASSUME NEW d \in Requests, NEW q \in Runs, CancelAsk(d, q) PROVE Heeded(c)'
  <2>1. /\ UNCHANGED <<row, early, queue, active, creator, cancelRequested, pc, todo, verdict, anyFailed>>
        /\ cancel[d].at = "idle" /\ cancel'[d].inTime = cancel[d].inTime
        /\ c # d => cancel'[c] = cancel[c]
    BY <1>12 DEF TypeOK, CancelAsk, At
  <2>2. CASE c = d
    BY <1>0, <2>1, <2>2 DEF Heeded
  <2>3. CASE c # d
    <3>1. Sched' = Sched /\ Heeding' = Heeding
      BY <2>1, SchedShrinks DEF Heeding
    <3>2. QED
      BY <1>a, <2>1, <2>3, <3>1
  <2>4. QED
    BY <2>2, <2>3
<1>13. ASSUME NEW d \in Requests, CancelRun(d) PROVE Heeded(c)'
  <2>1. /\ UNCHANGED <<row, active, pc, todo, verdict, anyFailed>> /\ early \subseteq early'
        /\ cancelRequested' = cancelRequested \cup {cancel[d].run}
        /\ c # d => cancel'[c] = cancel[c]
        /\ c = d => /\ cancel'[c].run = r /\ cancel'[c].at # "idle"
                    /\ cancel'[c].inTime = (active = r /\ StopStillSeen)
                    /\ cancel[c].at = "asked"
    BY <1>13 DEF TypeOK, CancelRun, At, r
  <2>2. Sched' \subseteq Sched /\ Heeding' = Heeding
    BY <1>13, <2>1, SchedShrinks DEF Heeding
  <2>3. CASE c # d
    BY <1>a, <2>1, <2>2, <2>3
  <2>4. CASE c = d
    <3>1. SUFFICES ASSUME active = r, StopStillSeen, r \notin early'
                   PROVE  row[r] # "success" /\ r \in cancelRequested' /\ Heeding
      BY <1>0, <2>1, <2>2, <2>4 DEF Heeded
    <3>2. r \in Runs /\ active # None
      BY <1>0, <2>1, <2>4, <3>1
    <3>3. row[r] # "success"
      BY <1>0, <2>1, <3>1, <3>2 DEF ClosedIsPast, Completed
    <3>4. Heeding
      BY <3>1 DEF StopStillSeen, Heeding
    <3>5. QED
      BY <2>1, <2>4, <3>3, <3>4 DEF r
  <2>5. QED
    BY <2>3, <2>4
<1>14. ASSUME NEW d \in Requests, CancelFinalizeJobs(d) \/ CancelFinalizeRow(d) \/ CancelDbError(d)
       PROVE  Heeded(c)'
  <2>1. cancel[d].at \in {"jobs", "row"} /\ \E where \in {"row", "done"} : GoTo(d, where)
    BY <1>14 DEF CancelFinalizeJobs, CancelFinalizeRow, CancelDbError, At
  <2>2. /\ UNCHANGED <<early, queue, active, creator, pc, todo, verdict, anyFailed>>
        /\ row' = row \/ row' = CloseRows({cancel[d].run}, "cancelled")
        /\ cancelRequested' = cancelRequested \/ cancelRequested' = cancelRequested \ {cancel[d].run}
    BY <1>14 DEF CancelFinalizeJobs, CancelFinalizeRow, CancelDbError
  <2>3. /\ c # d => cancel'[c] = cancel[c]
        /\ c = d => cancel[c].at # "idle" /\ cancel'[c].at # "idle"
                    /\ cancel'[c].inTime = cancel[c].inTime /\ cancel'[c].run = r
    BY <2>1 DEF GoTo, TypeOK, r
  <2>4. cancel[d].run \in early \/ cancel[d].run \notin Sched
    BY <1>0, <2>1, RequestTypes DEF FinalizingIsPast, Finalizing
  <2>5. Sched' = Sched /\ Heeding' = Heeding
    BY <2>2, SchedShrinks DEF Heeding
  <2>6. cancel[c].at # "idle" /\ row[r] # "success" => row'[r] # "success"
    BY <1>0, <2>2, ClosingKeepsGreen
  <2>7. QED
    BY <1>a, <2>2, <2>3, <2>4, <2>5, <2>6
<1>15. ASSUME Crash PROVE Heeded(c)'
  <2>1. /\ UNCHANGED <<row, early>> /\ active' = None /\ queue' = <<>> /\ Len(queue') = 0
        /\ \A q \in Runs : creator'[q] = "idle"
        /\ cancel' = [d \in Requests |->
                        IF cancel[d].at = "idle" THEN cancel[d] ELSE [cancel[d] EXCEPT !.at = "done"]]
    BY <1>15, EmptySeq DEF Crash
  <2>2. Sched' = {}
    BY <2>1, RunsAssumption DEF Sched, Created, Held
  <2>3. cancel'[c] = cancel[c] \/ (cancel[c].at # "idle" /\ cancel'[c].at # "idle"
                                   /\ cancel'[c].inTime = cancel[c].inTime /\ cancel'[c].run = r)
    BY <2>1 DEF TypeOK, r
  <2>4. QED
    BY <1>a, <2>1, <2>2, <2>3
<1>16. ASSUME BootFind \/ BootFailJobs \/ BootDbError PROVE Heeded(c)'
  BY <1>16, <1>b DEF BootFind, BootFailJobs, BootDbError
<1>17. ASSUME BootFailRows PROVE Heeded(c)'
  <2>1. row' = CloseRows(orphans, "failure")
        /\ UNCHANGED <<queue, active, creator, cancelRequested, cancel, early, pc, todo, verdict, anyFailed>>
    BY <1>17 DEF BootFailRows
  <2>2. \A x \in Runs : row'[x] = "success" => row[x] = "success"
    BY <2>1, ClosingKeepsGreen
  <2>3. Heeding' = Heeding
    BY <2>1 DEF Heeding
  <2>4. QED
    BY <1>c, <2>1, <2>2, <2>3
<1>18. CASE UNCHANGED vars
  BY <1>18, <1>b DEF vars
<1>19. QED
  BY <1>2, <1>3, <1>4, <1>5, <1>6, <1>7, <1>8, <1>9, <1>10, <1>11, <1>12, <1>13, <1>14, <1>15,
     <1>16, <1>17, <1>18 DEF Next, CreatorStep, ExecutorStep, CancelStep, BootStep

\* A cancel that is accepted while the runner still looks at the flag ends the run as
\* cancelled or failed, whichever way out the executor takes and whoever else cancels
\* the run (runner.ts, cancelRun and the flag of executeRun).
THEOREM CancelsAreHonoured == Spec => []CancelHonoured
<1>1. Init => HonourInv
  BY DEF Init, HonourInv, Heeded
<1>2. TypeOK /\ Placed /\ FinalInv /\ HonourInv /\ [Next]_vars => HonourInv'
  BY HonourStep
<1>3. HonourInv => CancelHonoured
  BY DEF HonourInv, Heeded, CancelHonoured
<1>4. QED
  BY <1>1, <1>2, <1>3, FinalInvHolds, PTL DEF Spec

(***************************************************************************)
(* A run that reads completed leaves no check pending.                     *)
(***************************************************************************)

Closed(r) == \A j \in Jobs : check[r][j] \notin Pending

\* What the executor's place says of the checks of the run in hand.
ExecutorCloses ==
  active # None =>
    /\ pc \in {"cancelRow", "finalRow", "conclude"} => Closed(active)
    /\ pc \in {"claim", "body", "settle"} =>
         \A j \in Jobs : j \in todo \/ j = job \/ check[active][j] \notin Pending
    /\ pc = "fail" => active \in threw

CancelsClose == \A c \in Requests : cancel[c].at = "row" /\ cancel[c].run \notin early => Closed(cancel[c].run)
BootCloses == boot = "rows" => \A r \in orphans : Closed(r)

ClosedInv == ClosedRunHasNoPendingJob /\ ExecutorCloses /\ CancelsClose /\ BootCloses

\* Closing the checks of some runs closes those, and opens none.
LEMMA ClosingCloses ==
  ASSUME TypeOK, NEW rs, NEW how \in {"failure", "cancelled"}
  PROVE  \A r \in Runs, j \in Jobs :
           /\ CloseChecks(rs, how)[r][j] \in Pending => check[r][j] \in Pending
           /\ r \in rs => CloseChecks(rs, how)[r][j] \notin Pending
BY DEF TypeOK, CloseChecks

LEMMA ClosedStep == TypeOK /\ Placed /\ FinalInv /\ ClosedInv /\ [Next]_vars => ClosedInv'
<1> SUFFICES ASSUME TypeOK, Placed, FinalInv, ClosedInv, [Next]_vars PROVE ClosedInv'
  OBVIOUS
<1> USE DEF dbVars, origin, heap, locals, creators, recovery, history, bounds, surroundings
<1>0. /\ ClosedRunHasNoPendingJob /\ ExecutorCloses /\ CancelsClose /\ BootCloses
      /\ ClosedIsPast /\ FinalizingIsPast /\ AskedExists /\ BootAlone
      /\ active # None => active \in Runs /\ active \in Sched /\ row[active] # "none"
  BY DEF ClosedInv, FinalInv, TypeOK, Placed, Fresh, Sched, Held
\* No check is opened.
<1>a. ASSUME \A r \in Runs, j \in Jobs : check'[r][j] \in Pending => check[r][j] \in Pending,
             \A r \in Runs \ (threw \cup early) : row'[r] \in Conclusions =>
               row[r] \in Conclusions \/ Closed(r) \/ Closed(r)',
             early \subseteq early', threw \subseteq threw'
      PROVE  ClosedRunHasNoPendingJob'
  BY <1>0, <1>a DEF ClosedRunHasNoPendingJob, Completed, Closed
<1>b. ASSUME \A r \in Runs, j \in Jobs : check'[r][j] \in Pending => check[r][j] \in Pending,
             early \subseteq early',
             \A c \in Requests : cancel'[c].at = "row" /\ cancel'[c].run \notin early' =>
               cancel'[c] = cancel[c] \/ \A j \in Jobs : check'[cancel'[c].run][j] \notin Pending
      PROVE  CancelsClose'
  <2>1. ASSUME NEW c \in Requests, cancel[c].at = "row", cancel[c].run \notin early'
        PROVE  \A j \in Jobs : check'[cancel[c].run][j] \notin Pending
    <3>1. cancel[c].run \in Runs /\ Closed(cancel[c].run)
      BY <1>0, <1>b, <2>1, RequestTypes DEF CancelsClose
    <3>2. QED
      BY <1>b, <3>1 DEF Closed
  <2>2. ASSUME NEW c \in Requests, cancel'[c].at = "row", cancel'[c].run \notin early'
        PROVE  \A j \in Jobs : check'[cancel'[c].run][j] \notin Pending
    <3>1. CASE cancel'[c] = cancel[c]
      <4>1. cancel[c].at = "row" /\ cancel[c].run \notin early'
        BY <2>2, <3>1
      <4>2. QED
        BY <2>1, <3>1, <4>1
    <3>2. CASE cancel'[c] # cancel[c]
      BY <1>b, <2>2, <3>2
    <3>3. QED
      BY <3>1, <3>2
  <2>3. QED
    BY <2>2 DEF CancelsClose, Closed
\* Somebody who does not write a check, nor touch the executor.
<1>c. ASSUME UNCHANGED <<check, active, boot, orphans>>, early \subseteq early', threw \subseteq threw',
             active # None => UNCHANGED <<pc, todo, job>>,
             \A r \in Runs \ (threw \cup early) : row'[r] \in Conclusions => row[r] \in Conclusions \/ Closed(r),
             \A c \in Requests : cancel'[c].at = "row" => cancel'[c] = cancel[c]
      PROVE  ClosedInv'
  <2>1. ClosedRunHasNoPendingJob' /\ CancelsClose'
    BY <1>a, <1>b, <1>c
  <2>2. ExecutorCloses'
    BY <1>0, <1>c DEF ExecutorCloses, Closed
  <2>3. BootCloses'
    BY <1>0, <1>c DEF BootCloses, Closed
  <2>4. QED
    BY <2>1, <2>2, <2>3 DEF ClosedInv
<1>1. ASSUME NEW r \in Runs, NEW st \in {"queued", "failure"}, NEW c, Insert(r, c, st),
             UNCHANGED <<early, threw, cancel, boot, orphans, heap, pc, locals>>
      PROVE  ClosedInv'
  <2>1. /\ row[r] = "none" /\ row'[r] = st /\ \A q \in Runs \ {r} : row'[q] = row[q] /\ check'[q] = check[q]
        /\ \A j \in Jobs : check'[r][j] = st
        /\ boot = "up"
    BY <1>1 DEF TypeOK, Insert, NextId, SetRow
  <2>2. ClosedRunHasNoPendingJob'
    BY <1>0, <1>1, <2>1 DEF ClosedRunHasNoPendingJob, Completed
  <2>3. ExecutorCloses'
    <3>1. active # None => active \in Runs \ {r}
      BY <1>0, <2>1
    <3>2. QED
      BY <1>0, <1>1, <2>1, <3>1 DEF ExecutorCloses, Closed
  <2>4. \A d \in Requests : cancel[d].at # "idle" => cancel[d].run \in Runs \ {r}
    BY <1>0, <2>1, RequestTypes DEF AskedExists
  <2>5. CancelsClose'
    BY <1>0, <1>1, <2>1, <2>4 DEF CancelsClose, Closed
  <2>6. QED
    BY <1>1, <2>1, <2>2, <2>3, <2>5 DEF ClosedInv, BootCloses
<1>2. ASSUME NEW r \in Runs, Trigger(r) PROVE ClosedInv'
  BY <1>1, <1>2 DEF Trigger, Create, ParseFailure, Rerun
<1>3. ASSUME NEW r \in Runs, Enqueue(r) PROVE ClosedInv'
  <2>1. CASE active = None
    <3>1. pc' \in {"idle", "load"} /\ UNCHANGED <<row, check, early, threw, cancel, boot, orphans>>
      <4>1. Append(queue, r) \in Seq(Runs)
        BY AppendProperties DEF TypeOK
      <4>2. Pump(Append(queue, r))
        BY <1>3, <2>1 DEF Enqueue
      <4>3. QED
        BY <1>3, <4>1, <4>2, PumpFacts DEF Enqueue
    <3>2. ClosedRunHasNoPendingJob' /\ CancelsClose'
      BY <1>a, <1>b, <3>1
    <3>3. QED
      BY <1>0, <3>1, <3>2 DEF ClosedInv, ExecutorCloses, BootCloses, Closed
  <2>2. CASE active # None
    BY <1>3, <1>c, <2>2 DEF Enqueue
  <2>3. QED
    BY <2>1, <2>2
<1>4. ASSUME NEW r \in Runs, PruneFind(r) PROVE ClosedInv'
  BY <1>4, <1>c DEF PruneFind
<1>5. ASSUME NEW r \in Runs, PruneDelete(r) PROVE ClosedInv'
  <2>1. /\ UNCHANGED <<heap, pc, locals, cancel, early, threw, boot, orphans>> /\ boot = "up"
        /\ \A q \in Runs : row'[q] \in Conclusions => row[q] \in Conclusions
        /\ \A q \in Runs, j \in Jobs : check'[q][j] \in Pending => check[q][j] \in Pending
    BY <1>5 DEF TypeOK, PruneDelete
  <2>2. ClosedRunHasNoPendingJob' /\ CancelsClose'
    BY <1>a, <1>b, <2>1
  <2>3. ExecutorCloses'
    BY <1>0, <2>1 DEF ExecutorCloses, Closed
  <2>4. QED
    BY <2>1, <2>2, <2>3 DEF ClosedInv, BootCloses
\* The executor goes on with the run: it writes no row but a running one.
<1>d. ASSUME UNCHANGED <<active, cancel, early, boot, orphans>>, boot = "up", threw \subseteq threw', ExecutorCloses',
             active # None,
             \A r \in Runs : row'[r] \in Conclusions => row[r] \in Conclusions,
             \A r \in Runs \ {active}, j \in Jobs : check'[r][j] \in Pending => check[r][j] \in Pending
      PROVE  ClosedInv'
  <2>1. active \in early \/ row[active] \notin Conclusions
    BY <1>0, <1>d DEF ClosedIsPast, Completed
  <2>2. ClosedRunHasNoPendingJob'
    BY <1>0, <1>d, <2>1 DEF ClosedRunHasNoPendingJob, Completed
  <2>3. ASSUME NEW c \in Requests, cancel[c].at = "row", cancel[c].run \notin early
        PROVE  \A j \in Jobs : check'[cancel[c].run][j] \notin Pending
    <3>1. cancel[c].run \in Runs /\ cancel[c].run \in Finalizing
      BY <2>3, RequestTypes DEF Finalizing
    <3>2. cancel[c].run # active
      BY <1>0, <1>d, <2>3, <3>1 DEF FinalizingIsPast
    <3>3. Closed(cancel[c].run)
      BY <1>0, <2>3 DEF CancelsClose
    <3>4. QED
      BY <1>d, <3>1, <3>2, <3>3 DEF Closed
  <2>4. CancelsClose'
    BY <1>d, <2>3 DEF CancelsClose, Closed
  <2>5. QED
    BY <1>d, <2>2, <2>4 DEF ClosedInv, BootCloses
\* The executor lets go of the run, whose checks are closed.
<1>e. ASSUME EndRun, active # None, UNCHANGED <<check, cancel, early, threw, boot, orphans>>,
             \A r \in Runs \ {active} : row'[r] = row[r],
             active \in threw \/ Closed(active) \/ row'[active] \notin Conclusions
      PROVE  ClosedInv'
  <2>1. pc' \in {"idle", "load"}
    BY <1>e, ReleaseMoves
  <2>2. ClosedRunHasNoPendingJob' /\ CancelsClose'
    BY <1>a, <1>b, <1>e
  <2>3. QED
    BY <1>0, <1>e, <2>1, <2>2 DEF ClosedInv, ExecutorCloses, BootCloses, Closed
<1>6. ASSUME Load PROVE ClosedInv'
  <2>1. CASE EndRun /\ row[active] = "gone"
    BY <1>6, <1>e, <2>1 DEF Load, Executing
  <2>2. CASE UNCHANGED heap /\ pc' \in {"finalJobs", "mark"}
    <3>1. ExecutorCloses'
      BY <2>2 DEF ExecutorCloses
    <3>2. QED
      BY <1>6, <1>d, <2>2, <3>1 DEF Load, Executing
  <2>3. QED
    BY <1>6, <2>1, <2>2 DEF Load
<1>7. ASSUME MarkRunning PROVE ClosedInv'
  <2>1. /\ active # None /\ boot = "up" /\ NextJob(Jobs, FALSE)
        /\ UNCHANGED <<check, active, cancel, early, threw, boot, orphans>>
        /\ \A r \in Runs : row'[r] \in Conclusions => row[r] \in Conclusions
    BY <1>7, <1>0 DEF TypeOK, MarkRunning, Executing, SetRow
  <2>2. pc' = "cancelJobs" \/ (pc' = "claim" /\ todo' = Jobs \ {job'})
    BY <2>1, JobsAssumption DEF NextJob
  <2>3. ExecutorCloses'
    BY <2>2 DEF ExecutorCloses
  <2>4. QED
    BY <1>d, <2>1, <2>3
<1>8. ASSUME ClaimJob PROVE ClosedInv'
  <2>1. /\ active # None /\ active \in Runs /\ boot = "up" /\ pc = "claim" /\ pc' = "body"
        /\ UNCHANGED <<row, active, todo, job, cancel, early, threw, boot, orphans>>
    BY <1>8, <1>0 DEF ClaimJob, Executing
  <2>2. /\ \A r \in Runs \ {active} : check'[r] = check[r]
        /\ \A j \in Jobs \ {job} : check'[active][j] = check[active][j]
    BY <1>8, <2>1 DEF TypeOK, ClaimJob, SetCheck
  <2>3. ExecutorCloses'
    BY <1>0, <2>1, <2>2 DEF ExecutorCloses
  <2>4. QED
    BY <1>d, <2>1, <2>2, <2>3
<1>9. ASSUME JobBody PROVE ClosedInv'
  <2>1. /\ active # None /\ boot = "up" /\ pc = "body" /\ pc' = "settle"
        /\ UNCHANGED <<row, check, active, todo, job, cancel, early, threw, boot, orphans>>
    BY <1>9 DEF JobBody, Executing
  <2>2. ExecutorCloses'
    BY <1>0, <2>1 DEF ExecutorCloses
  <2>3. QED
    BY <1>d, <2>1, <2>2
<1>10. ASSUME SettleJob PROVE ClosedInv'
  <2>1. /\ active # None /\ active \in Runs /\ boot = "up" /\ pc = "settle" /\ verdict \in Conclusions
        /\ UNCHANGED <<row, active, cancel, early, threw, boot, orphans>>
    BY <1>10, <1>0 DEF SettleJob, Executing, TypeOK
  <2>2. /\ \A r \in Runs \ {active} : check'[r] = check[r]
        /\ \A j \in Jobs \ {job} : check'[active][j] = check[active][j]
        /\ \A j \in Jobs : j = job => check'[active][j] = verdict
    BY <1>10, <2>1 DEF TypeOK, SettleJob, SetCheck
  <2>3. \A j \in Jobs : j \in todo \/ check'[active][j] \notin Pending
    BY <1>0, <2>1, <2>2 DEF ExecutorCloses
  <2>4. \/ pc' = "cancelJobs"
        \/ pc' = "conclude" /\ todo = {}
        \/ pc' = "claim" /\ todo' = todo \ {job'}
    BY <1>10 DEF SettleJob, NextJob
  <2>5. ExecutorCloses'
    BY <2>1, <2>3, <2>4 DEF ExecutorCloses, Closed
  <2>6. QED
    BY <1>d, <2>1, <2>2, <2>5
<1>11. ASSUME CancelRemaining \/ FinalizeActiveJobs PROVE ClosedInv'
  <2>1. /\ active # None /\ active \in Runs /\ boot = "up" /\ pc' \in {"cancelRow", "finalRow"}
        /\ check' = CloseChecks({active}, "cancelled")
        /\ UNCHANGED <<row, active, cancel, early, threw, boot, orphans>>
    BY <1>11, <1>0 DEF CancelRemaining, FinalizeActiveJobs, Executing
  <2>2. /\ \A r \in Runs, j \in Jobs : check'[r][j] \in Pending => check[r][j] \in Pending
        /\ \A j \in Jobs : check'[active][j] \notin Pending
    BY <2>1, ClosingCloses
  <2>3. ExecutorCloses'
    BY <2>1, <2>2 DEF ExecutorCloses, Closed
  <2>4. QED
    BY <1>d, <2>1, <2>2, <2>3
<1>12. ASSUME RowVanished \/ ExecutorDbError PROVE ClosedInv'
  <2>1. /\ active # None /\ boot = "up" /\ pc' = "fail" /\ threw' = threw \cup {active}
        /\ UNCHANGED <<row, check, active, cancel, early, boot, orphans>>
    BY <1>12 DEF RowVanished, ExecutorDbError
  <2>2. ExecutorCloses'
    BY <2>1 DEF ExecutorCloses
  <2>3. QED
    BY <1>d, <2>1, <2>2
<1>13. ASSUME CancelActiveRow \/ Conclude \/ FinalizeActiveRow \/ FailRun PROVE ClosedInv'
  <2>1. /\ EndRun /\ active # None /\ active \in Runs
        /\ UNCHANGED <<check, cancel, early, threw, boot, orphans>>
        /\ pc \in {"cancelRow", "conclude", "finalRow", "fail"}
        /\ \/ row' = row \/ row' = CloseRows({active}, "cancelled")
           \/ \E st \in Conclusions : row' = SetRow(active, st)
    BY <1>13, <1>0 DEF CancelActiveRow, Conclude, FinalizeActiveRow, FailRun, Executing
  <2>2. \A r \in Runs \ {active} : row'[r] = row[r]
    BY <2>1 DEF TypeOK, SetRow, CloseRows
  <2>3. active \in threw \/ Closed(active)
    BY <1>0, <2>1 DEF ExecutorCloses
  <2>4. QED
    BY <1>e, <2>1, <2>2, <2>3
<1>14. ASSUME NEW c \in Requests, NEW r \in Runs, CancelAsk(c, r) PROVE ClosedInv'
  <2>1. \A d \in Requests : cancel'[d].at = "row" => cancel'[d] = cancel[d]
    BY <1>14 DEF TypeOK, CancelAsk
  <2>2. QED
    BY <1>14, <1>c, <2>1 DEF CancelAsk
<1>15. ASSUME NEW c \in Requests, CancelRun(c) PROVE ClosedInv'
  <2>1. \A d \in Requests : cancel'[d].at = "row" => cancel'[d] = cancel[d]
    BY <1>15 DEF TypeOK, CancelRun
  <2>2. early \subseteq early'
    BY <1>15 DEF CancelRun
  <2>3. QED
    BY <1>15, <1>c, <2>1, <2>2 DEF CancelRun
<1>16. ASSUME NEW c \in Requests, CancelFinalizeJobs(c) PROVE ClosedInv'
  <2>1. /\ UNCHANGED <<row, active, pc, todo, job, early, threw, boot, orphans>>
        /\ check' = CloseChecks({cancel[c].run}, "cancelled")
        /\ boot = "up" /\ cancel[c].at = "jobs" /\ GoTo(c, "row")
    BY <1>16 DEF CancelFinalizeJobs, At
  <2>2. /\ \A r \in Runs, j \in Jobs : check'[r][j] \in Pending => check[r][j] \in Pending
        /\ \A j \in Jobs : check'[cancel[c].run][j] \notin Pending
    <3>1. cancel[c].run \in Runs
      BY <2>1, RequestTypes
    <3>2. \A r \in Runs, j \in Jobs :
             /\ check'[r][j] \in Pending => check[r][j] \in Pending
             /\ r \in {cancel[c].run} => check'[r][j] \notin Pending
      BY <2>1, ClosingCloses
    <3>3. QED
      BY <3>1, <3>2
  <2>3. /\ cancel'[c].run = cancel[c].run
        /\ \A d \in Requests \ {c} : cancel'[d] = cancel[d]
    BY <2>1 DEF GoTo, TypeOK
  <2>4. ClosedRunHasNoPendingJob'
    BY <1>a, <2>1, <2>2
  <2>5. \A d \in Requests :
           cancel'[d] = cancel[d] \/ \A j \in Jobs : check'[cancel'[d].run][j] \notin Pending
    BY <2>2, <2>3
  <2>6. CancelsClose'
    BY <1>b, <2>1, <2>2, <2>5
  <2>7. ExecutorCloses'
    BY <1>0, <2>1, <2>2 DEF ExecutorCloses, Closed
  <2>8. QED
    BY <2>1, <2>4, <2>6, <2>7 DEF ClosedInv, BootCloses
<1>17. ASSUME NEW c \in Requests, CancelFinalizeRow(c) \/ CancelDbError(c) PROVE ClosedInv'
  <2>1. GoTo(c, "done")
    BY <1>17 DEF CancelFinalizeRow, CancelDbError
  <2>2. \A d \in Requests : cancel'[d].at = "row" => cancel'[d] = cancel[d]
    BY <2>1 DEF GoTo, TypeOK
  <2>3. CASE CancelDbError(c)
    BY <1>c, <2>2, <2>3 DEF CancelDbError
  <2>4. CASE CancelFinalizeRow(c)
    <3>1. /\ UNCHANGED <<check, active, pc, todo, job, early, threw, boot, orphans>>
          /\ cancel[c].at = "row" /\ row' = CloseRows({cancel[c].run}, "cancelled")
      BY <2>4 DEF CancelFinalizeRow, At
    <3>2. \A r \in Runs : r # cancel[c].run => row'[r] = row[r]
      BY <3>1 DEF TypeOK, CloseRows
    <3>3. cancel[c].run \in early \/ Closed(cancel[c].run)
      BY <1>0, <3>1 DEF CancelsClose
    <3>4. QED
      BY <1>c, <2>2, <3>1, <3>2, <3>3
  <2>5. QED
    BY <1>17, <2>3, <2>4
<1>18. ASSUME Crash PROVE ClosedInv'
  <2>1. /\ UNCHANGED <<row, check, early, threw>> /\ active' = None /\ boot' = "find"
        /\ cancel' = [c \in Requests |->
                        IF cancel[c].at = "idle" THEN cancel[c] ELSE [cancel[c] EXCEPT !.at = "done"]]
    BY <1>18 DEF Crash
  <2>2. \A c \in Requests : cancel'[c].at # "row"
    BY <2>1 DEF TypeOK
  <2>3. ClosedRunHasNoPendingJob'
    BY <1>a, <2>1
  <2>4. QED
    BY <2>1, <2>2, <2>3 DEF ClosedInv, ExecutorCloses, CancelsClose, BootCloses
<1>19. ASSUME BootFind \/ BootDbError PROVE ClosedInv'
  <2>1. UNCHANGED <<row, check, active, pc, todo, job, cancel, early, threw>> /\ boot' # "rows"
    BY <1>19 DEF BootFind, BootDbError
  <2>2. ClosedRunHasNoPendingJob' /\ CancelsClose'
    BY <1>a, <1>b, <2>1
  <2>3. QED
    BY <1>0, <2>1, <2>2 DEF ClosedInv, ExecutorCloses, BootCloses, Closed
<1>20. ASSUME BootFailJobs PROVE ClosedInv'
  <2>1. /\ UNCHANGED <<row, active, pc, todo, job, cancel, early, threw, orphans>>
        /\ check' = CloseChecks(orphans, "failure") /\ orphans \subseteq Runs
    BY <1>20 DEF BootFailJobs, TypeOK
  <2>2. /\ \A r \in Runs, j \in Jobs : check'[r][j] \in Pending => check[r][j] \in Pending
        /\ \A r \in orphans, j \in Jobs : check'[r][j] \notin Pending
    BY <2>1, ClosingCloses
  <2>3. ClosedRunHasNoPendingJob' /\ CancelsClose'
    BY <1>a, <1>b, <2>1, <2>2
  <2>4. ExecutorCloses'
    BY <1>0, <2>1, <2>2 DEF ExecutorCloses, Closed
  <2>5. QED
    BY <2>1, <2>2, <2>3, <2>4 DEF ClosedInv, BootCloses, Closed
<1>21. ASSUME BootFailRows PROVE ClosedInv'
  <2>1. /\ UNCHANGED <<check, active, pc, todo, job, cancel, early, threw>>
        /\ boot = "rows" /\ boot' = "up" /\ row' = CloseRows(orphans, "failure")
    BY <1>21 DEF BootFailRows
  <2>2. \A r \in Runs : row'[r] = row[r] \/ Closed(r)
    BY <1>0, <2>1 DEF TypeOK, CloseRows, BootCloses
  <2>3. ClosedRunHasNoPendingJob' /\ CancelsClose'
    BY <1>a, <1>b, <2>1, <2>2
  <2>4. QED
    BY <1>0, <2>1, <2>3 DEF ClosedInv, ExecutorCloses, BootCloses, Closed
<1>22. CASE UNCHANGED vars
  BY <1>22, <1>c DEF vars
<1>23. QED
  BY <1>2, <1>3, <1>4, <1>5, <1>6, <1>7, <1>8, <1>9, <1>10, <1>11, <1>12, <1>13, <1>14, <1>15,
     <1>16, <1>17, <1>18, <1>19, <1>20, <1>21, <1>22 DEF Next, CreatorStep, ExecutorStep, CancelStep, BootStep

\* The jobs are closed before the run, in every way out that does not throw, and no cancel
\* reopens them: a completed run leaves no check that branch protection counts as pending
\* (runner.ts, finalizeCancelled and executeRun; boot.ts, failOrphanedRuns).
THEOREM NoPendingJobIsLeft == Spec => []ClosedRunHasNoPendingJob
<1>1. Init => ClosedInv
  BY DEF Init, ClosedInv, ClosedRunHasNoPendingJob, Completed, ExecutorCloses, CancelsClose, BootCloses
<1>2. TypeOK /\ Placed /\ FinalInv /\ ClosedInv /\ [Next]_vars => ClosedInv'
  BY ClosedStep
<1>3. ClosedInv => ClosedRunHasNoPendingJob
  BY DEF ClosedInv
<1>4. QED
  BY <1>1, <1>2, <1>3, FinalInvHolds, PTL DEF Spec

(***************************************************************************)
(* Retention keeps the newest completed runs.                              *)
(***************************************************************************)

\* Numbers: a set of them has a least, and when it is bounded a greatest.
LEMMA LeastOfNaturals ==
  ASSUME NEW T, T \subseteq Nat, T # {}
  PROVE  \E x \in T : \A y \in T : x <= y
<1> DEFINE R == {pair \in Nat \X Nat : pair[1] < pair[2]}
<1>1. IsWellFoundedOn(R, Nat)
  BY NatLessThanWellFounded DEF OpToRel
<1>2. PICK x \in T : \A y \in T : <<y, x>> \notin R
  <2> HIDE DEF R
  <2>1. QED
    BY <1>1, WFMin
<1>3. ASSUME NEW y \in T PROVE x <= y
  <2>1. x \in Nat /\ y \in Nat
    OBVIOUS
  <2>2. ~(y < x)
    BY <1>2, <2>1
  <2>3. QED
    BY <2>1, <2>2
<1>4. QED
  BY <1>3

LEMMA GreatestOfBounded ==
  ASSUME NEW T, T \subseteq Nat, T # {}, NEW n \in Nat, \A x \in T : x <= n
  PROVE  \E x \in T : \A y \in T : y <= x
<1> DEFINE U == {n - x : x \in T}
<1>1. U \subseteq Nat /\ U # {}
  <2>1. ASSUME NEW x \in T PROVE n - x \in Nat
    <3>1. x \in Nat /\ x <= n
      OBVIOUS
    <3>2. QED
      BY <3>1
  <2>2. QED
    BY <2>1
<1>2. PICK u \in U : \A y \in U : u <= y
  <2> HIDE DEF U
  <2>1. QED
    BY <1>1, LeastOfNaturals
<1>3. PICK x \in T : u = n - x
  OBVIOUS
<1>4. ASSUME NEW y \in T PROVE y <= x
  <2>1. n - x <= n - y /\ x \in Nat /\ y \in Nat
    BY <1>2, <1>3
  <2>2. QED
    BY <2>1
<1>5. QED
  BY <1>4

\* The runs that count for keeping r, those of an early cancel by their row alone.
Ended(q) == Completed(q) \/ (q \in early /\ Exists(q))
Newer(r) == {q \in Runs : q > r /\ Ended(q)}
Outlived(r) == Cardinality(Newer(r)) >= RetentionCap
Doomed == UNION {stale[p] : p \in Runs}

RunsAreFew == \E n \in Nat : \A r \in Runs : row[r] # "none" => r <= n
GoneAndDoomed == \A r \in Runs : row[r] = "gone" \/ r \in Doomed => Outlived(r)
DoomedIsPast == \A r \in Doomed : row[r] # "none" /\ (r \notin early => r \notin Sched)
SchedExists == \A r \in Sched \ early : Exists(r)

RetainInv == RunsAreFew /\ GoneAndDoomed /\ DoomedIsPast /\ SchedExists

\* Nothing but a trigger adds a run to those that are about to be executed.
LEMMA SchedStep ==
  ASSUME TypeOK, Placed, [Next]_vars
  PROVE  \A r \in Sched' : r \in Sched \/ (r \in Runs /\ row[r] = "none" /\ row'[r] = "queued")
<1> USE DEF dbVars, origin, heap, locals, creators, recovery, history, bounds, surroundings
<1>1. \A r \in Created' : r \in Created \/ (r \in Runs /\ row[r] = "none" /\ row'[r] = "queued")
  <2> DEFINE Goal == \A r \in Runs : creator'[r] = "created" =>
                       creator[r] = "created" \/ (row[r] = "none" /\ row'[r] = "queued")
  <2>0. ASSUME NEW r \in Runs, NEW c, Insert(r, c, "queued"), creator' = [creator EXCEPT ![r] = "created"]
        PROVE  Goal
    <3>1. row[r] = "none" /\ row'[r] = "queued"
      BY <2>0 DEF TypeOK, Insert, NextId, SetRow
    <3>2. \A q \in Runs \ {r} : creator'[q] = creator[q]
      BY <2>0 DEF TypeOK
    <3>3. QED
      BY <3>1, <3>2
  <2>1. ASSUME NEW r \in Runs, NEW c, Create(r, c) PROVE Goal
    BY <2>0, <2>1 DEF Create
  <2>2. ASSUME NEW r \in Runs, NEW src, Rerun(r, src) PROVE Goal
    BY <2>0, <2>2 DEF Rerun
  <2>3. ASSUME NEW r \in Runs, NEW c, ParseFailure(r, c) PROVE Goal
    BY <2>3 DEF ParseFailure
  <2>4. ASSUME NEW r \in Runs, CreatorStep(r) PROVE Goal
    BY <2>4 DEF TypeOK, CreatorStep, Enqueue, PruneFind, PruneDelete
  <2>5. ASSUME ExecutorStep \/ ExecutorDbError PROVE Goal
    BY <2>5 DEF ExecutorStep, ExecutorDbError, Load, MarkRunning, ClaimJob, JobBody, SettleJob, CancelRemaining,
       CancelActiveRow, FinalizeActiveJobs, FinalizeActiveRow, Conclude, RowVanished, FailRun
  <2>6. ASSUME NEW c \in Requests, CancelStep(c) \/ CancelDbError(c) \/ \E q \in Runs : CancelAsk(c, q) PROVE Goal
    BY <2>6 DEF CancelStep, CancelRun, CancelFinalizeJobs, CancelFinalizeRow, CancelDbError, CancelAsk
  <2>7. ASSUME Crash \/ BootStep \/ BootDbError PROVE Goal
    BY <2>7 DEF Crash, BootStep, BootFind, BootFailJobs, BootFailRows, BootDbError
  <2>8. ASSUME UNCHANGED vars PROVE Goal
    BY <2>8 DEF vars
  <2>9. Goal
    BY <2>1, <2>2, <2>3, <2>4, <2>5, <2>6, <2>7, <2>8 DEF Next, Trigger
  <2>10. QED
    BY <2>9 DEF Created
<1>2. CASE Quiet
  <2>1. Held' = Held
    BY <1>2 DEF Quiet, Held
  <2>2. QED
    BY <1>1, <2>1 DEF Sched
<1>3. CASE Release
  <2>1. Held' \subseteq Held
    BY <1>3, ReleaseMoves, RunsAssumption DEF Release, Held
  <2>2. QED
    BY <1>1, <2>1 DEF Sched
<1>4. CASE Crash
  <2>1. Held' = {} /\ Created' = {}
    BY <1>4, EmptySeq, RunsAssumption DEF Crash, Held, Created
  <2>2. QED
    BY <2>1 DEF Sched
<1>5. CASE (\E r \in Runs : Enqueue(r)) \/ \E c \in Requests : CancelRun(c)
  BY <1>5, SchedShrinks
<1>6. QED
  BY <1>2, <1>3, <1>4, <1>5, FreshShrinks

\* What a step other than retention's own does to the rows and to what retention found.
RowsGoOn ==
  /\ \A r \in Runs : row'[r] = "gone" <=> row[r] = "gone"
  /\ \A r \in Runs : row'[r] = "none" => row[r] = "none"
  /\ early \subseteq early'
OneMore ==
  \E r \in Runs : \A q \in Runs : row'[q] # "none" => row[q] # "none" \/ q = r

LEMMA RowsStep ==
  ASSUME TypeOK, Placed, [Next]_vars
  PROVE  /\ RowsGoOn \/ \E p \in Runs : PruneDelete(p)
         /\ OneMore \/ \A q \in Runs : row'[q] # "none" => row[q] # "none" \/ q \in Doomed
         /\ Doomed' \subseteq Doomed \/ \E p \in Runs : PruneFind(p)
<1> USE DEF dbVars, origin, heap, locals, creators, recovery, history, bounds, surroundings
<1> DEFINE Same == \A q \in Runs : row'[q] # "none" => row[q] # "none"
<1>0. active # None => active \in Runs /\ row[active] # "none"
  BY DEF TypeOK, Placed, Fresh
<1>1. ASSUME NEW r \in Runs, NEW c, NEW st \in {"queued", "failure"}, Insert(r, c, st), UNCHANGED <<stale, early>>
      PROVE  RowsGoOn /\ OneMore /\ Doomed' \subseteq Doomed
  <2>1. row[r] = "none" /\ row'[r] = st /\ \A q \in Runs \ {r} : row'[q] = row[q]
    BY <1>1 DEF TypeOK, Insert, NextId, SetRow
  <2>2. st # "none" /\ st # "gone"
    OBVIOUS
  <2>3. RowsGoOn
    BY <1>1, <2>1, <2>2 DEF RowsGoOn
  <2>4. OneMore
    BY <2>1 DEF OneMore
  <2>5. QED
    BY <1>1, <2>3, <2>4 DEF Doomed
<1>2. ASSUME NEW st \in Conclusions \cup {"running"}, active # None, row[active] # "gone", row' = SetRow(active, st),
             UNCHANGED <<stale, early>>
      PROVE  RowsGoOn /\ Same /\ Doomed' \subseteq Doomed
  BY <1>0, <1>2 DEF TypeOK, SetRow, RowsGoOn, Doomed, Conclusions
<1>3. ASSUME NEW rs, NEW st \in Conclusions, row' = CloseRows(rs, st), UNCHANGED <<stale, early>>
      PROVE  RowsGoOn /\ Same /\ Doomed' \subseteq Doomed
  BY <1>3 DEF TypeOK, CloseRows, RowsGoOn, Doomed, Conclusions, Pending
<1>4. ASSUME UNCHANGED row, early \subseteq early', UNCHANGED stale \/ \A p \in Runs : stale'[p] = {}
      PROVE  RowsGoOn /\ Same /\ Doomed' \subseteq Doomed
  BY <1>4 DEF TypeOK, RowsGoOn, Doomed
<1>5. ASSUME NEW r \in Runs, Trigger(r) PROVE RowsGoOn /\ OneMore /\ Doomed' \subseteq Doomed
  <2>1. ASSUME NEW c, Create(r, c) PROVE RowsGoOn /\ OneMore /\ Doomed' \subseteq Doomed
    <3>1. Insert(r, c, "queued") /\ UNCHANGED <<stale, early>>
      BY <2>1 DEF Create
    <3>2. QED
      BY <1>1, <3>1
  <2>2. ASSUME NEW c, ParseFailure(r, c) PROVE RowsGoOn /\ OneMore /\ Doomed' \subseteq Doomed
    <3>1. Insert(r, c, "failure") /\ UNCHANGED <<stale, early>>
      BY <2>2 DEF ParseFailure
    <3>2. QED
      BY <1>1, <3>1
  <2>3. ASSUME NEW src, Rerun(r, src) PROVE RowsGoOn /\ OneMore /\ Doomed' \subseteq Doomed
    <3>1. Insert(r, commit[src], "queued") /\ UNCHANGED <<stale, early>>
      BY <2>3 DEF Rerun
    <3>2. QED
      BY <1>1, <3>1
  <2>4. QED
    BY <1>5, <2>1, <2>2, <2>3 DEF Trigger
<1>6. ASSUME NEW r \in Runs, Enqueue(r) PROVE RowsGoOn /\ Same /\ Doomed' \subseteq Doomed
  BY <1>4, <1>6 DEF Enqueue
<1>7. ASSUME NEW r \in Runs, PruneFind(r) PROVE RowsGoOn /\ Same
  BY <1>7 DEF PruneFind, TypeOK, RowsGoOn
<1>8. ASSUME NEW r \in Runs, PruneDelete(r)
      PROVE  /\ Doomed' \subseteq Doomed
             /\ \A q \in Runs : row'[q] # "none" => row[q] # "none" \/ q \in Doomed
  <2>1. \A p \in Runs : stale'[p] \subseteq stale[p]
    BY <1>8 DEF PruneDelete, TypeOK
  <2>2. \A q \in Runs : row'[q] # "none" => row[q] # "none" \/ q \in stale[r]
    BY <1>8 DEF PruneDelete
  <2>3. QED
    BY <2>1, <2>2 DEF Doomed
<1>9. ASSUME ExecutorStep \/ ExecutorDbError PROVE RowsGoOn /\ Same /\ Doomed' \subseteq Doomed
  <2>1. /\ UNCHANGED <<stale, early>>
        /\ \/ UNCHANGED row
           \/ \E st \in Conclusions \cup {"running"} : active # None /\ row[active] # "gone" /\ row' = SetRow(active, st)
           \/ \E st \in Conclusions : \E rs : row' = CloseRows(rs, st)
    BY <1>9 DEF ExecutorStep, ExecutorDbError, Load, MarkRunning, ClaimJob, JobBody, SettleJob, CancelRemaining,
       CancelActiveRow, FinalizeActiveJobs, FinalizeActiveRow, Conclude, RowVanished, FailRun, Executing, Conclusions
  <2>2. QED
    BY <1>2, <1>3, <1>4, <2>1
<1>10. ASSUME NEW c \in Requests, CancelStep(c) \/ CancelDbError(c) \/ \E q \in Runs : CancelAsk(c, q)
       PROVE  RowsGoOn /\ Same /\ Doomed' \subseteq Doomed
  <2>1. CASE CancelFinalizeRow(c)
    BY <1>3, <2>1 DEF CancelFinalizeRow, Conclusions
  <2>2. CASE ~CancelFinalizeRow(c)
    BY <1>4, <1>10, <2>2 DEF CancelStep, CancelRun, CancelFinalizeJobs, CancelDbError, CancelAsk
  <2>3. QED
    BY <2>1, <2>2
<1>11. ASSUME Crash \/ BootStep \/ BootDbError PROVE RowsGoOn /\ Same /\ Doomed' \subseteq Doomed
  <2>1. CASE BootFailRows
    BY <1>3, <2>1 DEF BootFailRows, Conclusions
  <2>2. CASE ~BootFailRows
    BY <1>4, <1>11, <2>2 DEF Crash, BootStep, BootFind, BootFailJobs, BootDbError
  <2>3. QED
    BY <2>1, <2>2
<1>12. CASE UNCHANGED vars
  BY <1>4, <1>12 DEF vars
<1>13. QED
  BY <1>5, <1>6, <1>7, <1>8, <1>9, <1>10, <1>11, <1>12 DEF Next, CreatorStep

\* Who counted goes on counting, as long as it is not deleted.
LEMMA EndedStays ==
  ASSUME TypeOK, Placed, FinalInv, [Next]_vars, NEW q \in Runs, Ended(q), row'[q] # "gone"
  PROVE  Ended(q)'
<1>1. row[q] \notin {"none", "gone"}
  BY DEF Ended, Completed, Conclusions, Exists
<1>2. early \subseteq early' /\ row'[q] # "none"
  BY <1>1, RowsStep DEF RowsGoOn, PruneDelete, history
<1>3. CASE q \in early
  BY <1>2, <1>3 DEF Ended, Exists
<1>4. CASE q \notin early
  <2>1. Completed(q)
    BY <1>4 DEF Ended
  <2>2. row'[q] = row[q]
    BY <1>4, <2>1, VerdictStep
  <2>3. QED
    BY <2>1, <2>2 DEF Ended, Completed
<1>5. QED
  BY <1>3, <1>4

\* Newer runs are finitely many, so that more of them are no fewer.
LEMMA MoreOutlive ==
  ASSUME RunsAreFew', NEW r \in Runs, NEW S, S \subseteq Newer(r)', Cardinality(S) >= RetentionCap
  PROVE  Outlived(r)'
<1>1. PICK n \in Nat : \A q \in Runs : row'[q] # "none" => q <= n
  BY DEF RunsAreFew
<1>2. Newer(r)' \in SUBSET Nat /\ \A q \in Newer(r)' : q <= n
  BY <1>1, RunsAssumption DEF Newer, Ended, Completed, Conclusions, Exists
<1>3. IsFiniteSet(Newer(r)')
  <2> DEFINE N == Newer(r)'
  <2>1. N \in SUBSET Nat /\ \A q \in N : q <= n
    BY <1>2
  <2> HIDE DEF N
  <2>2. IsFiniteSet(N)
    BY <2>1, FS_BoundedSetOfNaturals
  <2>3. QED
    BY <2>2 DEF N
<1>4. /\ IsFiniteSet(S) /\ Cardinality(S) \in Nat /\ Cardinality(Newer(r)') \in Nat
      /\ Cardinality(S) <= Cardinality(Newer(r)')
  <2> DEFINE N == Newer(r)'
  <2>1. IsFiniteSet(N) /\ S \in SUBSET N
    BY <1>3
  <2> HIDE DEF N
  <2>2. IsFiniteSet(S) /\ Cardinality(S) \in Nat /\ Cardinality(N) \in Nat /\ Cardinality(S) <= Cardinality(N)
    BY <2>1, FS_Subset, FS_CardinalityType
  <2>3. QED
    BY <2>2 DEF N
<1>5. QED
  BY <1>4, BoundsAssumption DEF Outlived

\* What retention deletes leaves enough newer ones: those of the newest run that goes.
LEMMA DeletingKeepsEnough ==
  ASSUME TypeOK, Placed, FinalInv, [Next]_vars, RunsAreFew, RunsAreFew', GoneAndDoomed,
         NEW p \in Runs, PruneDelete(p), NEW r \in Runs, Outlived(r)
  PROVE  Outlived(r)'
<1> DEFINE D == {q \in Newer(r) : q \in stale[p]}
<1>1. \A q \in Runs : row'[q] = "gone" => row[q] = "gone" \/ q \in stale[p]
  BY DEF PruneDelete
<1>2. ASSUME NEW m \in Runs, Outlived(m), Newer(m) \subseteq Newer(r), Newer(m) \cap stale[p] = {}
      PROVE  Outlived(r)'
  <2>1. ASSUME NEW q \in Newer(m) PROVE q \in Newer(r)'
    <3>1. q \in Runs /\ q > r /\ Ended(q) /\ q \notin stale[p]
      BY <1>2, <2>1 DEF Newer
    <3>2. row[q] # "gone"
      BY <3>1 DEF Ended, Completed, Conclusions, Exists
    <3>3. Ended(q)'
      BY <1>1, <3>1, <3>2, EndedStays
    <3>4. QED
      BY <3>1, <3>3 DEF Newer
  <2>2. Newer(m) \subseteq Newer(r)'
    BY <2>1
  <2>3. QED
    BY <1>2, <2>2, MoreOutlive DEF Outlived
<1>3. CASE D = {}
  BY <1>2, <1>3
<1>4. CASE D # {}
  <2>1. PICK n \in Nat : \A q \in Runs : row[q] # "none" => q <= n
    BY DEF RunsAreFew
  <2>2. D \subseteq Nat /\ \A q \in D : q <= n
    BY <2>1, RunsAssumption DEF Newer, Ended, Completed, Conclusions, Exists
  <2>3. PICK m \in D : \A q \in D : q <= m
    <3> HIDE DEF D
    <3>1. QED
      BY <1>4, <2>2, GreatestOfBounded
  <2>4. m \in Runs /\ m \in Nat /\ r \in Nat /\ m > r /\ m \in stale[p]
    BY <2>3, RunsAssumption DEF Newer
  <2>5. Outlived(m)
    BY <2>4 DEF GoneAndDoomed, Doomed
  <2>6. Newer(m) \subseteq Newer(r)
    <3>1. ASSUME NEW q \in Runs, q > m PROVE q > r
      <4>1. q \in Nat
        BY RunsAssumption
      <4>2. QED
        BY <2>4, <3>1, <4>1
    <3>2. QED
      BY <3>1 DEF Newer
  <2>7. ASSUME NEW q \in Newer(m), q \in stale[p] PROVE FALSE
    <3>1. q \in D
      BY <2>6, <2>7
    <3>2. q <= m /\ q > m /\ q \in Nat
      BY <2>2, <2>3, <3>1 DEF Newer
    <3>3. QED
      BY <2>4, <3>2
  <2>8. QED
    BY <1>2, <2>4, <2>5, <2>6, <2>7
<1>5. QED
  BY <1>3, <1>4

LEMMA RetainStep == TypeOK /\ Placed /\ FinalInv /\ RetainInv /\ [Next]_vars => RetainInv'
<1> SUFFICES ASSUME TypeOK, Placed, FinalInv, RetainInv, [Next]_vars PROVE RetainInv'
  OBVIOUS
<1> USE DEF RetainInv
<1>0. /\ RunsAreFew /\ GoneAndDoomed /\ DoomedIsPast /\ SchedExists
      /\ \A r \in Doomed : r \in Runs
  BY DEF Doomed, TypeOK
<1>1. RunsAreFew'
  <2>1. PICK n \in Nat : \A r \in Runs : row[r] # "none" => r <= n
    BY DEF RunsAreFew
  <2>2. CASE \A q \in Runs : row'[q] # "none" => row[q] # "none" \/ q \in Doomed
    BY <1>0, <2>1, <2>2 DEF RunsAreFew, DoomedIsPast
  <2>3. CASE OneMore
    <3>1. PICK r \in Runs : \A q \in Runs : row'[q] # "none" => row[q] # "none" \/ q = r
      BY <2>3 DEF OneMore
    <3>2. PICK m \in Nat : n <= m /\ r <= m
      <4>1. r \in Nat /\ (n <= r \/ r <= n)
        BY RunsAssumption
      <4>2. QED
        BY <4>1
    <3>3. ASSUME NEW q \in Runs, row'[q] # "none" PROVE q <= m
      <4>1. q \in Nat /\ r \in Nat
        BY RunsAssumption
      <4>2. CASE row[q] # "none"
        BY <2>1, <3>2, <4>1, <4>2
      <4>3. CASE q = r
        BY <3>2, <4>3
      <4>4. QED
        BY <3>1, <3>3, <4>2, <4>3
    <3>4. QED
      BY <3>3 DEF RunsAreFew
  <2>4. QED
    BY <2>2, <2>3, RowsStep
<1>2. early \subseteq early'
  BY RowsStep DEF RowsGoOn, PruneDelete, history
<1>3. ASSUME NEW r \in Runs, Outlived(r) PROVE Outlived(r)'
  <2>1. CASE RowsGoOn
    <3>1. ASSUME NEW q \in Newer(r) PROVE q \in Newer(r)'
      <4>1. q \in Runs /\ q > r /\ Ended(q)
        BY <3>1 DEF Newer
      <4>2. row'[q] # "gone"
        BY <2>1, <4>1 DEF RowsGoOn, Ended, Completed, Conclusions, Exists
      <4>3. QED
        BY <4>1, <4>2, EndedStays DEF Newer
    <3>2. QED
      BY <1>1, <1>3, <3>1, MoreOutlive DEF Outlived
  <2>2. ASSUME NEW p \in Runs, PruneDelete(p) PROVE Outlived(r)'
    BY <1>0, <1>1, <1>3, <2>2, DeletingKeepsEnough
  <2>3. QED
    BY <2>1, <2>2, RowsStep
<1>4. \A r \in Runs : r \in Prunable => Outlived(r)
  <2> SUFFICES ASSUME NEW r \in Runs, r \in Prunable PROVE Outlived(r)
    OBVIOUS
  <2> DEFINE S == {q \in Runs : q > r /\ Completed(q)}
             N == Newer(r)
  <2>1. Cardinality(S) >= RetentionCap /\ S \in SUBSET N
    BY DEF Prunable, Newer, Ended
  <2>2. PICK n \in Nat : \A q \in Runs : row[q] # "none" => q <= n
    BY DEF RunsAreFew
  <2>3. N \in SUBSET Nat /\ \A q \in N : q <= n
    BY <2>2, RunsAssumption DEF Newer, Ended, Completed, Conclusions, Exists
  <2> HIDE DEF S, N
  <2>4. IsFiniteSet(N)
    BY <2>3, FS_BoundedSetOfNaturals
  <2>5. IsFiniteSet(S) /\ Cardinality(S) \in Nat /\ Cardinality(N) \in Nat /\ Cardinality(S) <= Cardinality(N)
    BY <2>1, <2>4, FS_Subset, FS_CardinalityType
  <2>6. QED
    BY <2>1, <2>5, BoundsAssumption DEF Outlived, N
<1>5. ASSUME NEW r \in Doomed' PROVE r \in Doomed \/ (r \in Prunable /\ UNCHANGED row)
  <2>1. CASE Doomed' \subseteq Doomed
    BY <2>1
  <2>2. ASSUME NEW p \in Runs, PruneFind(p) PROVE r \in Doomed \/ (r \in Prunable /\ UNCHANGED row)
    BY <2>2 DEF PruneFind, Doomed, TypeOK, dbVars
  <2>3. QED
    BY <2>1, <2>2, RowsStep
<1>6. \A r \in Runs : row'[r] = "gone" => row[r] = "gone" \/ r \in Doomed
  BY RowsStep DEF RowsGoOn, PruneDelete, Doomed
<1>7. \A r \in Doomed' : r \in Runs
  BY TypeStep DEF Doomed, TypeOK
<1>8. GoneAndDoomed'
  BY <1>0, <1>3, <1>4, <1>5, <1>6, <1>7 DEF GoneAndDoomed
<1>9. DoomedIsPast'
  <2> SUFFICES ASSUME NEW r \in Doomed' PROVE row'[r] # "none" /\ (r \notin early' => r \notin Sched')
    BY DEF DoomedIsPast
  <2>1. row[r] # "none" /\ (r \notin early => r \notin Sched)
    <3>1. CASE r \in Doomed
      BY <1>0, <3>1 DEF DoomedIsPast
    <3>2. CASE r \in Prunable
      BY <1>7, <3>2 DEF Prunable, Completed, Conclusions, FinalInv, ClosedIsPast
    <3>3. QED
      BY <1>5, <3>1, <3>2
  <2>2. row'[r] # "none"
    BY <1>7, <2>1, RowsStep DEF RowsGoOn, PruneDelete
  <2>3. QED
    BY <1>2, <2>1, <2>2, SchedStep
<1>10. SchedExists'
  <2> SUFFICES ASSUME NEW r \in Sched' \ early' PROVE Exists(r)'
    BY DEF SchedExists
  <2>1. CASE r \in Runs /\ row[r] = "none" /\ row'[r] = "queued"
    BY <2>1 DEF Exists
  <2>2. CASE r \in Sched
    <3>1. Exists(r) /\ r \in Runs
      BY <1>0, <1>2, <2>2 DEF SchedExists, Sched, Created, Held
    <3>2. r \notin Doomed
      BY <1>0, <1>2, <2>2 DEF DoomedIsPast
    <3>3. row'[r] # "none"
      BY <3>1, RowsStep DEF RowsGoOn, PruneDelete, Exists
    <3>4. QED
      BY <1>6, <3>1, <3>2, <3>3 DEF Exists
  <2>3. QED
    BY <2>1, <2>2, SchedStep
<1>11. QED
  BY <1>1, <1>8, <1>9, <1>10

\* Retention keeps the newest completed runs and never takes the run that executes, however
\* many passes overlap with each other, with cancels and with the executor (runner.ts,
\* pruneCompletedRuns).
THEOREM NewestAreKept == Spec => []RetentionKeepsNewest
<1>1. Init => RetainInv
  <2> SUFFICES ASSUME Init PROVE RetainInv
    OBVIOUS
  <2>1. Doomed = {} /\ Sched = {}
    BY EmptySeq, RunsAssumption DEF Init, Doomed, Sched, Created, Held
  <2>2. RunsAreFew
    BY DEF Init, RunsAreFew
  <2>3. QED
    BY <2>1, <2>2 DEF Init, RetainInv, GoneAndDoomed, DoomedIsPast, SchedExists
<1>2. RetainInv => RetentionKeepsNewest
  <2> SUFFICES ASSUME RetainInv PROVE RetentionKeepsNewest
    OBVIOUS
  <2>1. \A r \in Runs : row[r] = "gone" => Outlived(r)
    BY DEF RetainInv, GoneAndDoomed
  <2>2. active \in Runs \ early => Exists(active)
    BY DEF RetainInv, SchedExists, Sched, Held
  <2>3. QED
    BY <2>1, <2>2 DEF RetentionKeepsNewest, Outlived, Newer, Ended
<1>3. TypeOK /\ Placed /\ FinalInv /\ RetainInv /\ [Next]_vars => RetainInv'
  BY RetainStep
<1>4. QED
  BY <1>1, <1>2, <1>3, FinalInvHolds, PTL DEF Spec
=============================================================================

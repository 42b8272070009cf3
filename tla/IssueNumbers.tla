---------------------------- MODULE IssueNumbers ----------------------------
(***************************************************************************)
(* The numbers of issues and pull requests, one sequence per repository,   *)
(* and the transfer of an issue to another repository, which gives it a    *)
(* number there and leaves a pointer behind.  Creating an issue is one     *)
(* transaction; opening a pull request and transferring an issue are split *)
(* at every await.  An issue that was deleted makes room for a new one.    *)
(***************************************************************************)
EXTENDS Naturals, Sequences, FiniteSets

CONSTANTS
  Repos, Issues, Pulls,
  Requests,    \* requests in progress that open a pull request or transfer an issue
  MaxLegacy,   \* bound: numbers in use before the counter existed
  MaxNumber,   \* bound: numbers handed out in a repository
  MaxMoves,    \* bound: transfers stored before the last one begins
  MaxFaults,   \* bound: crashes, refused event writes and deletions
  None

ASSUME NumberBounds == MaxLegacy \in Nat /\ MaxNumber \in Nat /\ MaxLegacy <= MaxNumber
                       /\ MaxMoves \in Nat /\ MaxFaults \in Nat
ASSUME KindsAreDisjoint == Issues \cap Pulls = {}

Things == Issues \cup Pulls
Numbers == 1..MaxNumber
Places == [repo: Repos, number: Numbers]
ASSUME NowhereIsNoPlace == None \notin Places

VARIABLES
  lastNumber,  \* Repo.lastNumber
  place,       \* repository and number of each issue and pull request, or None
  events,      \* "transferred" timeline events, oldest first
  req,         \* the requests in progress
  faults,      \* bound
  legacy,      \* history: what still has a number of its own, from before the counter
  moves,       \* history: the transfers stored
  tangled      \* history: issues with two transfers under way at once

vars == <<lastNumber, place, events, req, faults, legacy, moves, tangled>>

Idle == [pc |-> "idle", thing |-> None, from |-> None, repo |-> None,
         left |-> {}, floor |-> 0, number |-> 0]
Active == {q \in Requests : req[q].pc # "idle"}
Events == [at: Places, to: Places \cup {None}]

TypeOK ==
  /\ lastNumber \in [Repos -> 0..MaxNumber]
  /\ place \in [Things -> Places \cup {None}]
  /\ events \in Seq(Events)
  /\ req \in [Requests -> [pc: {"idle", "read", "raise", "increment", "store", "out", "in"},
                           thing: Things \cup {None}, from: Places \cup {None},
                           repo: Repos \cup {None}, left: SUBSET {"issue", "pull"},
                           floor: 0..MaxNumber, number: 0..MaxNumber]]
  /\ \A q \in Requests :
       /\ req[q].pc \in {"read", "raise", "increment", "store", "out", "in"} =>
            req[q].thing \in Things /\ req[q].repo \in Repos
       /\ req[q].pc \in {"store", "out", "in"} => req[q].number \in Numbers
       /\ req[q].pc \in {"out", "in"} => req[q].from \in Places
  /\ faults \in 0..MaxFaults
  /\ legacy \subseteq Things /\ tangled \subseteq Issues
  /\ moves \subseteq [thing: Issues, from: Places, to: Places, due: BOOLEAN]

\* Repositories from before the counter numbered each kind on its own.
Init ==
  /\ lastNumber = [r \in Repos |-> 0]
  /\ place \in [Things -> [repo: Repos, number: 1..MaxLegacy] \cup {None}]
  /\ \A kind \in {Issues, Pulls} : \A t, u \in kind : place[t] = place[u] /\ place[t] # None => t = u
  /\ events = <<>>
  /\ req = [q \in Requests |-> Idle]
  /\ faults = 0
  /\ legacy = {t \in Things : place[t] # None}
  /\ moves = {} /\ tangled = {}

-----------------------------------------------------------------------------
(***************************************************************************)
(* nextNumber                                                              *)
(***************************************************************************)
Kind(k) == IF k = "issue" THEN Issues ELSE Pulls
Held(things, r) == {place[t].number : t \in {u \in things : place[u] # None /\ place[u].repo = r}}

\* aggregate _max ?? 0: the one number that n can be
Highest(n, held) == (n = 0 \/ n \in held) /\ \A m \in held : m <= n
Larger(a, b) == IF a < b THEN b ELSE a

\* the two aggregates of Promise.all, in either order
Read(q, k) ==
  /\ req[q].pc = "read" /\ k \in req[q].left
  /\ \E n \in 0..MaxNumber :
       /\ Highest(n, Held(Kind(k), req[q].repo))
       /\ req' = [req EXCEPT ![q].left = @ \ {k}, ![q].floor = Larger(@, n),
                             ![q].pc = IF req[q].left = {k} THEN "raise" ELSE "read"]
  /\ UNCHANGED <<lastNumber, place, events, faults, legacy, moves, tangled>>

\* mutant: the raise asks for no lower counter
RaiseAlways(last, floor) == floor

\* updateMany where lastNumber < floor
Raised(last, floor) == Larger(last, floor)
Raise(q) ==
  /\ req[q].pc = "raise"
  /\ lastNumber' = [lastNumber EXCEPT ![req[q].repo] = Raised(@, req[q].floor)]
  /\ req' = [req EXCEPT ![q].pc = "increment"]
  /\ UNCHANGED <<place, events, faults, legacy, moves, tangled>>

\* mutant: the number is the counter before it was incremented
IncrementAfter(q) ==
  LET last == lastNumber[req[q].repo] IN
  /\ req[q].pc = "increment" /\ last < MaxNumber
  /\ lastNumber' = [lastNumber EXCEPT ![req[q].repo] = last + 1]
  /\ req' = [req EXCEPT ![q].pc = "store", ![q].number = last]
  /\ UNCHANGED <<place, events, faults, legacy, moves, tangled>>

\* the atomic increment
Increment(q) ==
  LET last == lastNumber[req[q].repo] IN
  /\ req[q].pc = "increment" /\ last < MaxNumber
  /\ lastNumber' = [lastNumber EXCEPT ![req[q].repo] = last + 1]
  /\ req' = [req EXCEPT ![q].pc = "store", ![q].number = last + 1]
  /\ UNCHANGED <<place, events, faults, legacy, moves, tangled>>

-----------------------------------------------------------------------------
(***************************************************************************)
(* The requests.                                                           *)
(***************************************************************************)
Begin(q, t, from, r) ==
  /\ req[q].pc = "idle"
  /\ req' = [req EXCEPT ![q] = [pc |-> "read", thing |-> t, from |-> from, repo |-> r,
                                left |-> {"issue", "pull"}, floor |-> 0, number |-> 0]]
  /\ UNCHANGED <<lastNumber, place, events, faults, legacy, moves>>

\* POST .../pulls, up to nextNumber
OpenPull(q, t, r) ==
  /\ place[t] = None /\ \A p \in Active : req[p].thing # t
  /\ Begin(q, t, None, r)
  /\ UNCHANGED tangled

\* POST .../transfer: the issue is found at its place, and updated by id later
Transfer(q, t, r) ==
  /\ place[t] # None /\ place[t].repo # r /\ Cardinality(moves) < MaxMoves
  /\ Begin(q, t, place[t], r)
  /\ tangled' = IF \E p \in Active : req[p].thing = t THEN tangled \cup {t} ELSE tangled

\* POST .../issues: nextNumber and the insert, in one transaction
CreateIssue(t, r) ==
  /\ place[t] = None /\ \A q \in Active : req[q].thing # t
  /\ \E n \in 0..MaxNumber :
       /\ Highest(n, Held(Things, r))
       /\ Raised(lastNumber[r], n) < MaxNumber
       /\ lastNumber' = [lastNumber EXCEPT ![r] = Raised(@, n) + 1]
       /\ place' = [place EXCEPT ![t] = [repo |-> r, number |-> Raised(lastNumber[r], n) + 1]]
  /\ UNCHANGED <<events, req, faults, legacy, moves, tangled>>

\* DELETE .../issues/:number: by id, wherever the issue has gone since it was found
DeleteIssue(t) ==
  /\ faults < MaxFaults /\ faults' = faults + 1
  /\ place[t] # None
  /\ place' = [place EXCEPT ![t] = None] /\ legacy' = legacy \ {t}
  /\ UNCHANGED <<lastNumber, events, req, moves, tangled>>

Taken(kind, p) == \E t \in kind : place[t] = p

\* the insert of the pull request, the update of the issue: it is refused when the issue
\* has been deleted, and the unique index refuses a number that another row of the same
\* kind holds
Refused(k, to) ==
  \/ k.from # None /\ place[k.thing] = None
  \/ Taken(IF k.thing \in Issues THEN Issues ELSE Pulls, to)

Store(q) ==
  LET k == req[q]
      to == [repo |-> k.repo, number |-> k.number] IN
  /\ k.pc = "store"
  /\ \/ Refused(k, to)
        /\ req' = [req EXCEPT ![q] = Idle] /\ UNCHANGED <<place, legacy, moves>>
     \/ ~Refused(k, to)
        /\ place' = [place EXCEPT ![k.thing] = to] /\ legacy' = legacy \ {k.thing}
        /\ IF k.from = None
           THEN req' = [req EXCEPT ![q] = Idle] /\ UNCHANGED moves
           ELSE /\ req' = [req EXCEPT ![q].pc = "out"]
                /\ moves' = moves \cup {[thing |-> k.thing, from |-> k.from, to |-> to,
                     due |-> k.from.number <= lastNumber[k.from.repo]]}
  /\ UNCHANGED <<lastNumber, events, faults, tangled>>

\* mutant: the pointer is left at the new place
RecordOutAtTarget(q) ==
  LET to == [repo |-> req[q].repo, number |-> req[q].number] IN
  /\ req[q].pc = "out"
  /\ events' = Append(events, [at |-> to, to |-> req[q].from])
  /\ req' = [req EXCEPT ![q].pc = "in"]
  /\ UNCHANGED <<lastNumber, place, faults, legacy, moves, tangled>>

\* the "out" event, then the "in" event; a refused write is logged and passed over
RecordOut(q) ==
  LET to == [repo |-> req[q].repo, number |-> req[q].number] IN
  /\ req[q].pc = "out"
  /\ events' = Append(events, [at |-> req[q].from, to |-> to])
  /\ req' = [req EXCEPT ![q].pc = "in"]
  /\ UNCHANGED <<lastNumber, place, faults, legacy, moves, tangled>>

RecordIn(q) ==
  LET to == [repo |-> req[q].repo, number |-> req[q].number] IN
  /\ req[q].pc = "in"
  /\ events' = Append(events, [at |-> to, to |-> None])
  /\ req' = [req EXCEPT ![q] = Idle]
  /\ UNCHANGED <<lastNumber, place, faults, legacy, moves, tangled>>

\* the requests in qs do not write their events any more
Lose(qs) ==
  moves' = {[m EXCEPT !.due = @ /\ ~\E q \in qs :
               req[q].pc = "out" /\ m.thing = req[q].thing /\ m.from = req[q].from] : m \in moves}

EventRefused(q) ==
  /\ req[q].pc \in {"out", "in"}
  /\ faults < MaxFaults /\ faults' = faults + 1
  /\ req' = IF req[q].pc = "out" THEN [req EXCEPT ![q].pc = "in"] ELSE [req EXCEPT ![q] = Idle]
  /\ Lose({q})
  /\ UNCHANGED <<lastNumber, place, events, legacy, tangled>>

Crash ==
  /\ faults < MaxFaults /\ faults' = faults + 1
  /\ req' = [q \in Requests |-> Idle]
  /\ Lose(Requests)
  /\ UNCHANGED <<lastNumber, place, events, legacy, tangled>>

RequestStep(q) ==
  \/ \E k \in {"issue", "pull"} : Read(q, k)
  \/ Raise(q) \/ Increment(q) \/ Store(q) \/ RecordOut(q) \/ RecordIn(q) \/ EventRefused(q)

Next ==
  \/ \E q \in Requests : RequestStep(q)
  \/ \E q \in Requests, r \in Repos : (\E t \in Pulls : OpenPull(q, t, r)) \/ (\E t \in Issues : Transfer(q, t, r))
  \/ \E t \in Issues, r \in Repos : CreateIssue(t, r)
  \/ \E t \in Issues : DeleteIssue(t)
  \/ Crash

Spec == Init /\ [][Next]_vars

-----------------------------------------------------------------------------
(***************************************************************************)
(* Properties.                                                             *)
(***************************************************************************)

\* A number names one thing: two that share a place both had their numbers from before
\* the counter (nextNumber's raise and increment, interleaved by any number of requests,
\* over repositories that already hold numbers of their own).
NumberNamesOne ==
  \A t, u \in Things : place[t] = place[u] /\ place[t] # None /\ t # u => {t, u} \subseteq legacy

\* GET .../issues/:number answers 410 with the new place: no issue is there, and the
\* latest transfer event of that number is an "out" event
PointsTo(p, to) ==
  /\ \A t \in Issues : place[t] # p
  /\ \E i \in 1..Len(events) :
       /\ events[i] = [at |-> p, to |-> to]
       /\ \A j \in (i + 1)..Len(events) : events[j].at # p

\* no request has still to write the events of the move m
Announced(m) == \A q \in Active : req[q].thing = m.thing => req[q].pc \notin {"out", "in"}

\* Whenever an issue left p, it was by one transfer at a time, the counter had passed p
\* (due) and the pointer was not lost.
Settled(p) == \A m \in moves : m.from = p => m.due /\ m.thing \notin tangled

\* The old address of a transferred issue points to where that transfer took it, for
\* settled numbers: the number is never handed out again, and no later event hides the
\* pointer, whatever other transfers and creations write meanwhile.
OldUrlPointsUnlessTangled ==
  \A m \in moves : Settled(m.from) /\ Announced(m) => PointsTo(m.from, m.to)
=============================================================================

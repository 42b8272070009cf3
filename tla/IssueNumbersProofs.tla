------------------------- MODULE IssueNumbersProofs -------------------------
(***************************************************************************)
(* Theorems about IssueNumbers: whatever the repositories, the issues and  *)
(* pull requests, the numbers that existed before the counter, and however *)
(* many requests interleave.                                               *)
(***************************************************************************)
EXTENDS IssueNumbers, SequenceTheorems, TLAPS

ReqStates == [pc: {"idle", "read", "raise", "increment", "store", "out", "in"},
              thing: Things \cup {None}, from: Places \cup {None},
              repo: Repos \cup {None}, left: SUBSET {"issue", "pull"},
              floor: 0..MaxNumber, number: 0..MaxNumber]

(***************************************************************************)
(* The inductive invariant: what a request knows at each of its awaits     *)
(* about the numbers of the rows, as they are by then.                     *)
(***************************************************************************)
Underway == {"read", "raise", "increment", "store", "out", "in"}

\* A request knows what it is about, and only issues are transferred.
ReqFormed(x) ==
  /\ x.pc \in Underway => x.thing \in Things /\ x.repo \in Repos
  /\ x.pc \in Underway /\ x.from # None => x.thing \in Issues
  /\ x.pc \in {"store", "out", "in"} => x.number \in Numbers
  /\ x.pc \in {"out", "in"} => x.from \in Places

TypeInv == TypeOK /\ \A q \in Requests : ReqFormed(req[q])

At(row, r) == row # None /\ row.repo = r

\* The kind of t has been read.
Seen(q, t) == (t \in Issues => "issue" \notin req[q].left) /\ (t \in Pulls => "pull" \notin req[q].left)

\* Before the raise: rows of the kinds read are within the floor or the counter, for a
\* row that came after the read took its number from the counter.
FloorCovers ==
  \A q \in Requests : req[q].pc \in {"read", "raise"} =>
    /\ req[q].pc = "raise" => req[q].left = {}
    /\ \A t \in Things : At(place[t], req[q].repo) /\ Seen(q, t) =>
         place[t].number <= req[q].floor \/ place[t].number <= lastNumber[req[q].repo]

\* After the raise: every row is within the counter.
CounterCovers ==
  \A q \in Requests : req[q].pc = "increment" =>
    \A t \in Things : At(place[t], req[q].repo) => place[t].number <= lastNumber[req[q].repo]

\* After the increment: the number in hand is in nobody else's hand and on no row.
InHand ==
  \A q \in Requests : req[q].pc = "store" =>
    /\ req[q].number <= lastNumber[req[q].repo]
    /\ \A t \in Things : At(place[t], req[q].repo) => place[t].number # req[q].number
    /\ \A p \in Requests : req[p].pc = "store" /\ p # q /\ req[p].repo = req[q].repo =>
         req[p].number # req[q].number

NumberInv == FloorCovers /\ CounterCovers /\ InHand /\ NumberNamesOne
IInv == TypeInv /\ NumberInv

(***************************************************************************)
(* Type correctness.                                                       *)
(***************************************************************************)
ReqPart == req \in [Requests -> ReqStates] /\ \A q \in Requests : ReqFormed(req[q])
Moved == [thing: Issues, from: Places, to: Places, due: BOOLEAN]
OtherPart ==
  /\ lastNumber \in [Repos -> 0..MaxNumber] /\ place \in [Things -> Places \cup {None}]
  /\ events \in Seq(Events) /\ faults \in 0..MaxFaults
  /\ legacy \subseteq Things /\ tangled \subseteq Issues /\ moves \subseteq Moved

LEMMA TypeParts == TypeInv <=> ReqPart /\ OtherPart
BY DEF TypeInv, TypeOK, ReqPart, OtherPart, ReqStates, ReqFormed, Underway, Moved

LEMMA IdleState == Idle \in ReqStates /\ Idle.pc = "idle" /\ ReqFormed(Idle)
<1>1. Idle \in ReqStates
  BY NumberBounds DEF Idle, ReqStates
<1>2. Idle.pc = "idle"
  BY DEF Idle
<1>3. QED
  BY <1>1, <1>2 DEF ReqFormed, Underway

\* One request moves on.
LEMMA OneReq ==
  ASSUME ReqPart, NEW q \in Requests, NEW x \in ReqStates, ReqFormed(x), req' = [req EXCEPT ![q] = x]
  PROVE  ReqPart' /\ req'[q] = x /\ \A p \in Requests \ {q} : req'[p] = req[p]
<1>1. req' \in [Requests -> ReqStates] /\ req'[q] = x /\ \A p \in Requests \ {q} : req'[p] = req[p]
  BY DEF ReqPart
<1>2. \A p \in Requests : ReqFormed(req'[p])
  <2>1. ASSUME NEW p \in Requests PROVE ReqFormed(req'[p])
    BY <1>1 DEF ReqPart
  <2>2. QED
    BY <2>1
<1>3. QED
  BY <1>1, <1>2 DEF ReqPart, ReqFormed

\* What a step makes of its request.
LEMMA BeginMoves ==
  ASSUME ReqPart, NEW q \in Requests, NEW t \in Things, NEW from \in Places \cup {None}, NEW r \in Repos,
         Begin(q, t, from, r), from # None => t \in Issues
  PROVE  /\ ReqPart' /\ \A p \in Requests \ {q} : req'[p] = req[p]
         /\ req'[q].pc = "read" /\ req'[q].left = {"issue", "pull"} /\ req'[q].repo = r
<1> DEFINE x == [pc |-> "read", thing |-> t, from |-> from, repo |-> r,
                 left |-> {"issue", "pull"}, floor |-> 0, number |-> 0]
<1>1. req' = [req EXCEPT ![q] = x]
  BY DEF Begin
<1>2. x \in ReqStates
  BY NumberBounds DEF ReqStates
<1>3. x.pc = "read" /\ x.left = {"issue", "pull"} /\ x.repo = r /\ x.thing = t /\ x.from = from
  OBVIOUS
<1> HIDE DEF x
<1>4. ReqFormed(x)
  BY <1>3 DEF ReqFormed
<1>5. QED
  BY <1>1, <1>2, <1>3, <1>4, OneReq

LEMMA ReadMoves ==
  ASSUME ReqPart, NEW q \in Requests, NEW k \in {"issue", "pull"}, NEW n \in 0..MaxNumber,
         req[q].pc = "read",
         req' = [req EXCEPT ![q].left = @ \ {k}, ![q].floor = Larger(@, n),
                            ![q].pc = IF req[q].left = {k} THEN "raise" ELSE "read"]
  PROVE  /\ ReqPart' /\ \A p \in Requests \ {q} : req'[p] = req[p]
         /\ req'[q].repo = req[q].repo /\ req'[q].left = req[q].left \ {k}
         /\ req'[q].floor = Larger(req[q].floor, n)
         /\ req'[q].pc = IF req[q].left = {k} THEN "raise" ELSE "read"
<1> DEFINE pc == IF req[q].left = {k} THEN "raise" ELSE "read"
           floor == Larger(req[q].floor, n)
           x == [req[q] EXCEPT !.left = @ \ {k}, !.floor = floor, !.pc = pc]
<1>1. req[q] \in ReqStates /\ ReqFormed(req[q])
  BY DEF ReqPart
<1>2. req' = [req EXCEPT ![q] = x]
  BY DEF ReqPart
<1>3. floor \in 0..MaxNumber /\ pc \in {"raise", "read"}
  BY <1>1, NumberBounds DEF Larger, ReqStates
<1> HIDE DEF pc, floor
<1>4. x \in ReqStates
  BY <1>1, <1>3 DEF ReqStates
<1>5. /\ x.pc = pc /\ x.left = req[q].left \ {k} /\ x.repo = req[q].repo /\ x.floor = floor
      /\ x.thing = req[q].thing /\ x.from = req[q].from
  BY <1>1 DEF ReqStates
<1> HIDE DEF x
<1>6. ReqFormed(x)
  BY <1>1, <1>3, <1>5 DEF ReqFormed, Underway
<1>7. QED
  BY <1>2, <1>4, <1>5, <1>6, OneReq DEF pc, floor

LEMMA RaiseMoves ==
  ASSUME ReqPart, OtherPart, NEW q \in Requests, Raise(q)
  PROVE  /\ ReqPart' /\ \A p \in Requests \ {q} : req'[p] = req[p]
         /\ req'[q].pc = "increment" /\ req'[q].repo = req[q].repo /\ req[q].repo \in Repos
         /\ req[q].floor \in 0..MaxNumber
         /\ lastNumber' = [lastNumber EXCEPT ![req[q].repo] = Larger(@, req[q].floor)]
         /\ lastNumber' \in [Repos -> 0..MaxNumber]
<1> DEFINE x == [req[q] EXCEPT !.pc = "increment"]
<1>1. req[q] \in ReqStates /\ ReqFormed(req[q])
  BY DEF ReqPart
<1>2. req' = [req EXCEPT ![q] = x] /\ req[q].pc = "raise"
  BY DEF Raise, ReqPart
<1>3. x \in ReqStates
  BY <1>1 DEF ReqStates
<1>4. x.pc = "increment" /\ x.repo = req[q].repo /\ x.thing = req[q].thing /\ x.from = req[q].from
  BY <1>1 DEF ReqStates
<1> HIDE DEF x
<1>5. ReqFormed(x) /\ req[q].repo \in Repos
  BY <1>1, <1>2, <1>4 DEF ReqFormed, Underway
<1>6. req[q].floor \in 0..MaxNumber
  BY <1>1 DEF ReqStates
<1>7. lastNumber' = [lastNumber EXCEPT ![req[q].repo] = Larger(@, req[q].floor)]
  BY DEF Raise, Raised
<1>8. lastNumber' \in [Repos -> 0..MaxNumber]
  BY <1>6, <1>7, NumberBounds DEF OtherPart, Larger
<1>9. QED
  BY <1>2, <1>3, <1>4, <1>5, <1>6, <1>7, <1>8, OneReq

LEMMA IncrementMoves ==
  ASSUME ReqPart, OtherPart, NEW q \in Requests, Increment(q)
  PROVE  /\ ReqPart' /\ \A p \in Requests \ {q} : req'[p] = req[p]
         /\ req'[q].pc = "store" /\ req'[q].repo = req[q].repo /\ req[q].repo \in Repos
         /\ req'[q].number = lastNumber[req[q].repo] + 1
         /\ lastNumber' = [lastNumber EXCEPT ![req[q].repo] = @ + 1]
         /\ lastNumber' \in [Repos -> 0..MaxNumber]
<1> DEFINE n == lastNumber[req[q].repo] + 1
           x == [req[q] EXCEPT !.pc = "store", !.number = n]
<1>1. req[q] \in ReqStates /\ ReqFormed(req[q])
  BY DEF ReqPart
<1>2. req' = [req EXCEPT ![q] = x] /\ req[q].pc = "increment"
  BY DEF Increment, ReqPart
<1>3. req[q].repo \in Repos
  BY <1>1, <1>2 DEF ReqFormed, Underway
<1>4. lastNumber[req[q].repo] \in 0..MaxNumber /\ lastNumber[req[q].repo] < MaxNumber
  BY <1>3 DEF OtherPart, Increment
<1>5. n \in Numbers /\ n \in 0..MaxNumber
  BY <1>4, NumberBounds DEF Numbers
<1>6. lastNumber' = [lastNumber EXCEPT ![req[q].repo] = n]
  BY DEF Increment
<1> HIDE DEF n
<1>7. lastNumber' \in [Repos -> 0..MaxNumber]
  BY <1>5, <1>6 DEF OtherPart
<1>8. x \in ReqStates
  BY <1>1, <1>5 DEF ReqStates
<1>9. /\ x.pc = "store" /\ x.repo = req[q].repo /\ x.thing = req[q].thing
      /\ x.from = req[q].from /\ x.number = n
  BY <1>1 DEF ReqStates
<1> HIDE DEF x
<1>10. ReqFormed(x)
  BY <1>1, <1>2, <1>5, <1>9 DEF ReqFormed, Underway
<1>11. QED
  BY <1>2, <1>3, <1>6, <1>7, <1>8, <1>9, <1>10, OneReq DEF n

\* After the insert or the update, a transfer has its events to write.
LEMMA LaterMoves ==
  ASSUME ReqPart, NEW q \in Requests, NEW pc \in {"out", "in"}, req[q].pc \in {"store", "out", "in"},
         req[q].from # None, req' = [req EXCEPT ![q].pc = pc]
  PROVE  ReqPart' /\ req'[q].pc = pc /\ \A p \in Requests \ {q} : req'[p] = req[p]
<1> DEFINE x == [req[q] EXCEPT !.pc = pc]
<1>1. req[q] \in ReqStates /\ ReqFormed(req[q])
  BY DEF ReqPart
<1>2. req' = [req EXCEPT ![q] = x]
  BY DEF ReqPart
<1>3. x \in ReqStates
  BY <1>1 DEF ReqStates
<1>4. /\ x.pc = pc /\ x.repo = req[q].repo /\ x.thing = req[q].thing
      /\ x.from = req[q].from /\ x.number = req[q].number
  BY <1>1 DEF ReqStates
<1>5. req[q].from \in Places
  BY <1>1 DEF ReqStates
<1> HIDE DEF x
<1>6. ReqFormed(x)
  BY <1>1, <1>4, <1>5 DEF ReqFormed, Underway
<1>7. QED
  BY <1>2, <1>3, <1>4, <1>6, OneReq

LEMMA EndMoves ==
  ASSUME ReqPart, NEW q \in Requests, req' = [req EXCEPT ![q] = Idle]
  PROVE  ReqPart' /\ req'[q].pc = "idle" /\ \A p \in Requests \ {q} : req'[p] = req[p]
BY IdleState, OneReq

\* The row that a request stores, and where.
LEMMA StoreFacts ==
  ASSUME ReqPart, OtherPart, NEW q \in Requests, Store(q)
  PROVE  /\ ReqPart' /\ req'[q].pc \in {"idle", "out"} /\ \A p \in Requests \ {q} : req'[p] = req[p]
         /\ [repo |-> req[q].repo, number |-> req[q].number] \in Places
         /\ req[q].thing \in Things /\ req[q].repo \in Repos /\ req[q].number \in Numbers
         /\ UNCHANGED <<lastNumber, events, faults, tangled>>
         /\ \/ UNCHANGED <<place, legacy, moves>>
            \/ /\ place' = [place EXCEPT ![req[q].thing] = [repo |-> req[q].repo, number |-> req[q].number]]
               /\ legacy' = legacy \ {req[q].thing}
         /\ OtherPart'
<1> DEFINE to == [repo |-> req[q].repo, number |-> req[q].number]
           m == [thing |-> req[q].thing, from |-> req[q].from, to |-> to,
                 due |-> req[q].from.number <= lastNumber[req[q].from.repo]]
<1>1. req[q] \in ReqStates /\ ReqFormed(req[q]) /\ req[q].pc = "store"
  BY DEF ReqPart, Store
<1>2. /\ req[q].thing \in Things /\ req[q].repo \in Repos /\ req[q].number \in Numbers
      /\ req[q].from # None => req[q].thing \in Issues
  BY <1>1 DEF ReqFormed, Underway
<1>3. to \in Places /\ req[q].from \in Places \cup {None}
  BY <1>1, <1>2 DEF Places, ReqStates
<1>4. \/ req' = [req EXCEPT ![q] = Idle] /\ UNCHANGED <<place, legacy, moves>>
      \/ /\ req' = [req EXCEPT ![q] = Idle] /\ UNCHANGED moves
         /\ place' = [place EXCEPT ![req[q].thing] = to] /\ legacy' = legacy \ {req[q].thing}
      \/ /\ req' = [req EXCEPT ![q].pc = "out"] /\ moves' = moves \cup {m} /\ req[q].from # None
         /\ place' = [place EXCEPT ![req[q].thing] = to] /\ legacy' = legacy \ {req[q].thing}
  BY DEF Store
<1>5. UNCHANGED <<lastNumber, events, faults, tangled>>
  BY DEF Store
<1>6. ReqPart' /\ req'[q].pc \in {"idle", "out"} /\ \A p \in Requests \ {q} : req'[p] = req[p]
  <2>1. CASE req' = [req EXCEPT ![q] = Idle]
    BY <2>1, EndMoves
  <2>2. CASE req' = [req EXCEPT ![q].pc = "out"] /\ req[q].from # None
    BY <1>1, <2>2, LaterMoves
  <2>3. QED
    BY <1>4, <2>1, <2>2
<1>7. req[q].from # None => m \in Moved
  <2>1. SUFFICES ASSUME req[q].from # None PROVE m \in Moved
    OBVIOUS
  <2>2. (req[q].from.number <= lastNumber[req[q].from.repo]) \in BOOLEAN
    OBVIOUS
  <2>3. QED
    BY <1>2, <1>3, <2>1, <2>2 DEF Moved
<1> HIDE DEF to, m
<1>8. moves' \subseteq Moved
  BY <1>4, <1>7 DEF OtherPart
<1>9. place' \in [Things -> Places \cup {None}] /\ legacy' \subseteq Things
  BY <1>2, <1>3, <1>4 DEF OtherPart
<1>10. OtherPart'
  BY <1>5, <1>8, <1>9 DEF OtherPart
<1>11. \/ UNCHANGED <<place, legacy, moves>>
       \/ place' = [place EXCEPT ![req[q].thing] = to] /\ legacy' = legacy \ {req[q].thing}
  BY <1>4
<1>12. QED
  BY <1>2, <1>3, <1>5, <1>6, <1>10, <1>11 DEF to

\* A pointer that is lost is marked, and the transfers keep their shape.
LEMMA LoseTyped ==
  ASSUME OtherPart, NEW qs \in SUBSET Requests, Lose(qs)
  PROVE  moves' \subseteq Moved
<1>1. moves \subseteq Moved
  BY DEF OtherPart
<1>2. \A m \in Moved, b \in BOOLEAN : [m EXCEPT !.due = m.due /\ b] \in Moved
  BY DEF Moved
<1>3. QED
  BY <1>1, <1>2 DEF Lose

\* The events of a transfer.
LEMMA RecordFacts ==
  ASSUME ReqPart, OtherPart, NEW q \in Requests, RecordOut(q) \/ RecordIn(q) \/ EventRefused(q)
  PROVE  /\ ReqPart' /\ req'[q].pc \in {"idle", "in"} /\ \A p \in Requests \ {q} : req'[p] = req[p]
         /\ UNCHANGED <<lastNumber, place, legacy>> /\ OtherPart'
<1> DEFINE to == [repo |-> req[q].repo, number |-> req[q].number]
<1>1. req[q] \in ReqStates /\ ReqFormed(req[q]) /\ req[q].pc \in {"out", "in"}
  BY DEF ReqPart, RecordOut, RecordIn, EventRefused
<1>2. req[q].from \in Places /\ to \in Places /\ req[q].from # None
  BY <1>1, NowhereIsNoPlace DEF ReqFormed, Places, Underway
<1>3. req' = [req EXCEPT ![q] = Idle] \/ req' = [req EXCEPT ![q].pc = "in"]
  BY DEF RecordOut, RecordIn, EventRefused
<1>4. ReqPart' /\ req'[q].pc \in {"idle", "in"} /\ \A p \in Requests \ {q} : req'[p] = req[p]
  BY <1>1, <1>2, <1>3, EndMoves, LaterMoves
<1>5. [at |-> req[q].from, to |-> to] \in Events /\ [at |-> to, to |-> None] \in Events
  BY <1>2 DEF Events
<1>6. \/ events' = events
      \/ events' = Append(events, [at |-> req[q].from, to |-> to])
      \/ events' = Append(events, [at |-> to, to |-> None])
  BY DEF RecordOut, RecordIn, EventRefused
<1> HIDE DEF to
<1>7. events' \in Seq(Events)
  <2>1. events \in Seq(Events)
    BY DEF OtherPart
  <2>2. \A e \in Events : Append(events, e) \in Seq(Events)
    BY <2>1, AppendProperties
  <2>3. QED
    BY <1>5, <1>6, <2>1, <2>2
<1>8. faults' \in 0..MaxFaults
  BY NumberBounds DEF RecordOut, RecordIn, EventRefused, OtherPart
<1>9. UNCHANGED <<lastNumber, place, legacy, tangled>>
  BY DEF RecordOut, RecordIn, EventRefused
<1>10. moves' \subseteq Moved
  <2>1. CASE RecordOut(q) \/ RecordIn(q)
    BY <2>1 DEF RecordOut, RecordIn, OtherPart
  <2>2. CASE EventRefused(q)
    BY <2>2, LoseTyped DEF EventRefused
  <2>3. QED
    BY <2>1, <2>2
<1>11. QED
  BY <1>4, <1>7, <1>8, <1>9, <1>10 DEF OtherPart

\* The number of a new issue.
LEMMA CreateFacts ==
  ASSUME OtherPart, NEW t \in Issues, NEW r \in Repos, CreateIssue(t, r)
  PROVE  \E n \in 0..MaxNumber, m \in Numbers :
           /\ Highest(n, Held(Things, r)) /\ n < m /\ lastNumber[r] < m /\ place[t] = None
           /\ lastNumber' = [lastNumber EXCEPT ![r] = m]
           /\ place' = [place EXCEPT ![t] = [repo |-> r, number |-> m]]
           /\ UNCHANGED <<req, legacy>> /\ OtherPart'
<1>1. PICK n \in 0..MaxNumber :
        /\ Highest(n, Held(Things, r))
        /\ Raised(lastNumber[r], n) < MaxNumber
        /\ lastNumber' = [lastNumber EXCEPT ![r] = Raised(@, n) + 1]
        /\ place' = [place EXCEPT ![t] = [repo |-> r, number |-> Raised(lastNumber[r], n) + 1]]
  BY DEF CreateIssue
<1> DEFINE m == Raised(lastNumber[r], n) + 1
<1>2. lastNumber[r] \in 0..MaxNumber
  BY DEF OtherPart
<1>3. m \in Numbers /\ m \in 0..MaxNumber /\ n < m /\ lastNumber[r] < m
  BY <1>1, <1>2, NumberBounds DEF Raised, Larger, Numbers
<1>4. lastNumber' = [lastNumber EXCEPT ![r] = m] /\ place' = [place EXCEPT ![t] = [repo |-> r, number |-> m]]
  BY <1>1
<1> HIDE DEF m
<1>5. [repo |-> r, number |-> m] \in Places /\ t \in Things
  BY <1>3 DEF Places, Things
<1>6. lastNumber' \in [Repos -> 0..MaxNumber] /\ place' \in [Things -> Places \cup {None}]
  BY <1>3, <1>4, <1>5 DEF OtherPart
<1>7. place[t] = None /\ UNCHANGED <<events, req, faults, legacy, moves, tangled>>
  BY DEF CreateIssue
<1>8. OtherPart'
  BY <1>6, <1>7 DEF OtherPart
<1>9. QED
  BY <1>1, <1>3, <1>4, <1>7, <1>8

LEMMA DeleteFacts ==
  ASSUME OtherPart, NEW t \in Issues, DeleteIssue(t)
  PROVE  /\ place' = [place EXCEPT ![t] = None] /\ legacy' = legacy \ {t}
         /\ UNCHANGED <<lastNumber, req>> /\ OtherPart'
<1>1. /\ place' = [place EXCEPT ![t] = None] /\ legacy' = legacy \ {t}
      /\ UNCHANGED <<lastNumber, events, req, moves, tangled>> /\ faults' \in 0..MaxFaults
  BY NumberBounds DEF DeleteIssue, OtherPart
<1>2. place' \in [Things -> Places \cup {None}] /\ legacy' \subseteq Things
  BY <1>1 DEF OtherPart
<1>3. QED
  BY <1>1, <1>2 DEF OtherPart

LEMMA CrashFacts ==
  ASSUME Crash, OtherPart
  PROVE  /\ ReqPart' /\ \A q \in Requests : req'[q].pc = "idle"
         /\ UNCHANGED <<lastNumber, place, legacy>> /\ OtherPart'
<1>1. req' = [q \in Requests |-> Idle] /\ faults' \in 0..MaxFaults
      /\ UNCHANGED <<lastNumber, place, events, legacy, tangled>>
  BY NumberBounds DEF Crash, OtherPart
<1>2. ReqPart' /\ \A q \in Requests : req'[q].pc = "idle"
  BY <1>1, IdleState DEF ReqPart, ReqFormed
<1>3. moves' \subseteq Moved
  BY LoseTyped DEF Crash
<1>4. QED
  BY <1>1, <1>2, <1>3 DEF OtherPart

(***************************************************************************)
(* What each step may do, in terms of the numbers.                         *)
(***************************************************************************)
LEMMA TypeInit == Init => TypeInv
<1> SUFFICES ASSUME Init PROVE TypeInv
  OBVIOUS
<1>1. [repo: Repos, number: 1..MaxLegacy] \subseteq Places
  BY NumberBounds DEF Places, Numbers
<1>2. place \in [Things -> Places \cup {None}] /\ legacy \subseteq Things
  BY <1>1 DEF Init
<1>3. req \in [Requests -> ReqStates] /\ \A q \in Requests : req[q] = Idle
  BY IdleState DEF Init
<1>4. ReqPart
  BY <1>3, IdleState DEF ReqPart
<1>5. events \in Seq(Events)
  BY EmptySeq DEF Init
<1>6. OtherPart
  BY <1>2, <1>5, NumberBounds DEF Init, OtherPart
<1>7. QED
  BY <1>4, <1>6, TypeParts

\* A step that neither numbers nor places anything, and leaves no request at work on one.
Quiet ==
  /\ UNCHANGED <<lastNumber, place, legacy>>
  /\ \A q \in Requests : \/ req'[q] = req[q]
                         \/ req'[q].pc \in {"idle", "out", "in"}
                         \/ req'[q].pc = "read" /\ req'[q].left = {"issue", "pull"}

\* The steps, one by one, with what they leave typed.
LEMMA Steps ==
  ASSUME TypeInv, [Next]_vars
  PROVE  /\ TypeInv'
         /\ \/ Quiet
            \/ \E q \in Requests, k \in {"issue", "pull"} : Read(q, k)
            \/ \E q \in Requests : Raise(q) \/ Increment(q) \/ Store(q)
            \/ \E t \in Issues, r \in Repos : CreateIssue(t, r)
            \/ \E t \in Issues : DeleteIssue(t)
<1> USE TypeParts
<1>1. ASSUME NEW q \in Requests, NEW k \in {"issue", "pull"}, Read(q, k) PROVE TypeInv'
  <2>1. ReqPart'
    BY <1>1, ReadMoves DEF Read
  <2>2. OtherPart'
    BY <1>1 DEF Read, OtherPart
  <2>3. QED
    BY <2>1, <2>2 DEF TypeInv, TypeOK, ReqPart, OtherPart, ReqStates, ReqFormed, Underway, Moved
<1>2. ASSUME NEW q \in Requests, Raise(q) PROVE ReqPart' /\ OtherPart'
  BY <1>2, RaiseMoves DEF Raise, OtherPart
<1>3. ASSUME NEW q \in Requests, Increment(q) PROVE ReqPart' /\ OtherPart'
  BY <1>3, IncrementMoves DEF Increment, OtherPart
<1>4. ASSUME NEW q \in Requests, Store(q) PROVE ReqPart' /\ OtherPart'
  BY <1>4, StoreFacts
<1>5. ASSUME NEW q \in Requests, RecordOut(q) \/ RecordIn(q) \/ EventRefused(q)
      PROVE  ReqPart' /\ OtherPart' /\ Quiet
  BY <1>5, RecordFacts DEF Quiet
<1>6. ASSUME NEW q \in Requests, NEW r \in Repos, NEW t \in Pulls, OpenPull(q, t, r)
      PROVE  ReqPart' /\ OtherPart' /\ Quiet
  <2>1. t \in Things /\ Begin(q, t, None, r)
    BY <1>6 DEF OpenPull, Things
  <2>2. /\ ReqPart' /\ \A p \in Requests \ {q} : req'[p] = req[p]
        /\ req'[q].pc = "read" /\ req'[q].left = {"issue", "pull"}
    BY <2>1, BeginMoves
  <2>3. QED
    BY <1>6, <2>1, <2>2 DEF OpenPull, Begin, Quiet, OtherPart
<1>7. ASSUME NEW q \in Requests, NEW r \in Repos, NEW t \in Issues, Transfer(q, t, r)
      PROVE  ReqPart' /\ OtherPart' /\ Quiet
  <2>1. t \in Things /\ Begin(q, t, place[t], r) /\ place[t] \in Places \cup {None}
    BY <1>7 DEF Transfer, Things, OtherPart
  <2>2. /\ ReqPart' /\ \A p \in Requests \ {q} : req'[p] = req[p]
        /\ req'[q].pc = "read" /\ req'[q].left = {"issue", "pull"}
    BY <2>1, BeginMoves
  <2>3. QED
    BY <1>7, <2>1, <2>2 DEF Transfer, Begin, Quiet, OtherPart
<1>8. ASSUME NEW t \in Issues, NEW r \in Repos, CreateIssue(t, r) PROVE ReqPart' /\ OtherPart'
  BY <1>8, CreateFacts DEF ReqPart
<1>8a. ASSUME NEW t \in Issues, DeleteIssue(t) PROVE ReqPart' /\ OtherPart'
  BY <1>8a, DeleteFacts DEF ReqPart
<1>9. ASSUME Crash PROVE ReqPart' /\ OtherPart' /\ Quiet
  BY <1>9, CrashFacts DEF Quiet
<1>10. ASSUME UNCHANGED vars PROVE ReqPart' /\ OtherPart' /\ Quiet
  BY <1>10 DEF vars, ReqPart, OtherPart, Quiet
<1>11. ReqPart' /\ OtherPart' => TypeInv'
  BY DEF TypeInv, TypeOK, ReqPart, OtherPart, ReqStates, ReqFormed, Underway, Moved
<1>12. QED
  BY <1>1, <1>2, <1>3, <1>4, <1>5, <1>6, <1>7, <1>8, <1>8a, <1>9, <1>10, <1>11 DEF Next, RequestStep

\* Every variable of the numbering keeps its type: a number in hand is between one and
\* the counter's bound, and a transfer under way knows where it came from.
THEOREM TypeCorrect == Spec => []TypeOK
<1>1. TypeInv => TypeOK
  BY DEF TypeInv
<1>2. TypeInv /\ [Next]_vars => TypeInv'
  BY Steps
<1>3. QED
  BY <1>1, <1>2, TypeInit, PTL DEF Spec

(***************************************************************************)
(* A number names one thing.                                               *)
(***************************************************************************)
LEMMA NumberInit == Init => NumberInv
<1> SUFFICES ASSUME Init PROVE NumberInv
  OBVIOUS
<1>1. \A q \in Requests : req[q].pc = "idle"
  BY IdleState DEF Init
<1>2. NumberNamesOne
  BY DEF Init, NumberNamesOne
<1>3. QED
  BY <1>1, <1>2 DEF NumberInv, FloorCovers, CounterCovers, InHand

LEMMA QuietStep == TypeInv /\ NumberInv /\ Quiet => NumberInv'
<1> SUFFICES ASSUME TypeInv, NumberInv, Quiet PROVE NumberInv'
  OBVIOUS
<1>1. UNCHANGED <<lastNumber, place, legacy>>
  BY DEF Quiet
<1>2. ASSUME NEW q \in Requests, req'[q].pc \in {"raise", "increment", "store"} PROVE req'[q] = req[q]
  BY <1>2 DEF Quiet
<1>3. FloorCovers'
  <2> SUFFICES ASSUME NEW q \in Requests, req'[q].pc \in {"read", "raise"}
               PROVE  /\ req'[q].pc = "raise" => req'[q].left = {}
                      /\ \A t \in Things : At(place[t], req'[q].repo) /\ Seen(q, t)' =>
                           place[t].number <= req'[q].floor \/ place[t].number <= lastNumber[req'[q].repo]
    BY <1>1 DEF FloorCovers, At
  <2>1. CASE req'[q] = req[q]
    BY <2>1 DEF NumberInv, FloorCovers, Seen
  <2>2. CASE req'[q] # req[q]
    <3>1. req'[q].pc = "read" /\ req'[q].left = {"issue", "pull"}
      BY <2>2 DEF Quiet
    <3>2. \A t \in Things : ~ Seen(q, t)'
      BY <3>1 DEF Seen, Things
    <3>3. QED
      BY <3>1, <3>2
  <2>3. QED
    BY <2>1, <2>2
<1>4. CounterCovers'
  BY <1>1, <1>2 DEF NumberInv, CounterCovers, At
<1>5. InHand'
  BY <1>1, <1>2 DEF NumberInv, InHand, At
<1>6. NumberNamesOne'
  BY <1>1 DEF NumberInv, NumberNamesOne
<1>7. QED
  BY <1>3, <1>4, <1>5, <1>6 DEF NumberInv

\* The numbers of rows and counters, for arithmetic.
LEMMA NumberTypes ==
  ASSUME TypeInv
  PROVE  /\ \A q \in Requests : req[q].floor \in Nat /\ req[q].number \in Nat
         /\ \A q \in Requests : req[q].pc \in Underway => req[q].repo \in Repos
         /\ \A r \in Repos : lastNumber[r] \in Nat
         /\ \A t \in Things : place[t] # None => place[t].number \in Nat /\ place[t].repo \in Repos
<1>1. ReqPart /\ OtherPart
  BY TypeParts
<1>2. \A q \in Requests : req[q].floor \in Nat /\ req[q].number \in Nat
  BY <1>1, NumberBounds DEF ReqPart, ReqStates
<1>3. \A q \in Requests : req[q].pc \in Underway => req[q].repo \in Repos
  BY <1>1 DEF ReqPart, ReqFormed
<1>4. \A r \in Repos : lastNumber[r] \in Nat
  BY <1>1, NumberBounds DEF OtherPart
<1>5. ASSUME NEW t \in Things, place[t] # None PROVE place[t].number \in Nat /\ place[t].repo \in Repos
  <2>1. place[t] \in Places
    BY <1>1, <1>5 DEF OtherPart
  <2>2. QED
    BY <2>1, NumberBounds DEF Places, Numbers
<1>6. QED
  BY <1>2, <1>3, <1>4, <1>5

LEMMA ReadStep ==
  ASSUME TypeInv, NumberInv, NEW q \in Requests, NEW k \in {"issue", "pull"}, Read(q, k)
  PROVE  NumberInv'
<1>1. PICK n \in 0..MaxNumber :
        /\ Highest(n, Held(Kind(k), req[q].repo))
        /\ req' = [req EXCEPT ![q].left = @ \ {k}, ![q].floor = Larger(@, n),
                              ![q].pc = IF req[q].left = {k} THEN "raise" ELSE "read"]
  BY DEF Read
<1>2. req[q].pc = "read" /\ k \in req[q].left /\ UNCHANGED <<lastNumber, place, legacy>>
  BY DEF Read
<1>3. /\ \A p \in Requests \ {q} : req'[p] = req[p]
      /\ req'[q].repo = req[q].repo /\ req'[q].left = req[q].left \ {k}
      /\ req'[q].floor = Larger(req[q].floor, n)
      /\ req'[q].pc = IF req[q].left = {k} THEN "raise" ELSE "read"
  BY <1>1, <1>2, ReadMoves, TypeParts
<1>4. ASSUME NEW t \in Things, At(place[t], req[q].repo), Seen(q, t)'
      PROVE  place[t].number <= req'[q].floor \/ place[t].number <= lastNumber[req[q].repo]
  <2>1. place[t].number \in Nat /\ req[q].floor \in Nat /\ n \in Nat /\ lastNumber[req[q].repo] \in Nat
    BY <1>2, <1>4, NumberTypes, NumberBounds DEF At, Underway
  <2>2. req'[q].floor >= req[q].floor /\ req'[q].floor >= n /\ req'[q].floor \in Nat
    BY <1>3, <2>1 DEF Larger
  <2>3. CASE t \in Kind(k)
    <3>1. place[t].number \in Held(Kind(k), req[q].repo)
      BY <1>4, <2>3 DEF Held, At
    <3>2. place[t].number <= n
      BY <1>1, <3>1 DEF Highest
    <3>3. QED
      BY <2>1, <2>2, <3>2
  <2>4. CASE t \notin Kind(k)
    <3>1. Seen(q, t)
      BY <1>3, <1>4, <2>4 DEF Seen, Kind
    <3>2. place[t].number <= req[q].floor \/ place[t].number <= lastNumber[req[q].repo]
      BY <1>2, <1>4, <3>1 DEF NumberInv, FloorCovers
    <3>3. QED
      BY <2>1, <2>2, <3>2
  <2>5. QED
    BY <2>3, <2>4
<1>5. FloorCovers'
  <2> SUFFICES ASSUME NEW p \in Requests, req'[p].pc \in {"read", "raise"}
               PROVE  /\ req'[p].pc = "raise" => req'[p].left = {}
                      /\ \A t \in Things : At(place[t], req'[p].repo) /\ Seen(p, t)' =>
                           place[t].number <= req'[p].floor \/ place[t].number <= lastNumber[req'[p].repo]
    BY <1>2 DEF FloorCovers, At
  <2>1. CASE p = q
    BY <1>3, <1>4, <2>1
  <2>2. CASE p # q
    BY <1>3, <2>2 DEF NumberInv, FloorCovers, Seen
  <2>3. QED
    BY <2>1, <2>2
<1>6. \A p \in Requests : req'[p].pc \in {"increment", "store"} => req'[p] = req[p]
  BY <1>3
<1>7. CounterCovers'
  BY <1>2, <1>6 DEF NumberInv, CounterCovers, At
<1>8. InHand'
  BY <1>2, <1>6 DEF NumberInv, InHand, At
<1>9. NumberNamesOne'
  BY <1>2 DEF NumberInv, NumberNamesOne
<1>10. QED
  BY <1>5, <1>7, <1>8, <1>9 DEF NumberInv

\* The raise covers the rows: those that the two reads saw, and those that came since.
LEMMA RaiseStep ==
  ASSUME TypeInv, NumberInv, NEW q \in Requests, Raise(q)
  PROVE  NumberInv'
<1> DEFINE r == req[q].repo
<1>1. /\ \A p \in Requests \ {q} : req'[p] = req[p]
      /\ req'[q].pc = "increment" /\ req'[q].repo = r /\ r \in Repos
      /\ lastNumber' = [lastNumber EXCEPT ![r] = Larger(@, req[q].floor)]
  BY RaiseMoves, TypeParts
<1>2. UNCHANGED <<place, legacy>> /\ req[q].pc = "raise"
  BY DEF Raise
<1>3. lastNumber \in [Repos -> 0..MaxNumber]
  BY DEF TypeInv, TypeOK
<1>4. /\ lastNumber'[r] \in Nat /\ lastNumber[r] \in Nat /\ req[q].floor \in Nat
      /\ lastNumber'[r] >= req[q].floor /\ lastNumber'[r] >= lastNumber[r]
      /\ \A s \in Repos \ {r} : lastNumber'[s] = lastNumber[s]
  BY <1>1, <1>3, NumberTypes DEF Larger
<1> HIDE DEF r
<1>5. ASSUME NEW s \in Repos, NEW n \in Nat, n <= lastNumber[s] PROVE n <= lastNumber'[s]
  BY <1>4, <1>5
<1>6. ASSUME NEW t \in Things, At(place[t], r) PROVE place[t].number <= lastNumber'[r]
  <2>1. req[q].left = {} /\ Seen(q, t)
    BY <1>2 DEF NumberInv, FloorCovers, Seen
  <2>2. place[t].number <= req[q].floor \/ place[t].number <= lastNumber[r]
    BY <1>2, <1>6, <2>1 DEF NumberInv, FloorCovers, r
  <2>3. place[t].number \in Nat
    BY <1>6, NumberTypes DEF At
  <2>4. QED
    BY <1>4, <2>2, <2>3
<1>7. FloorCovers'
  <2> SUFFICES ASSUME NEW p \in Requests, req'[p].pc \in {"read", "raise"}
               PROVE  /\ req'[p].pc = "raise" => req'[p].left = {}
                      /\ \A t \in Things : At(place[t], req'[p].repo) /\ Seen(p, t)' =>
                           place[t].number <= req'[p].floor \/ place[t].number <= lastNumber'[req'[p].repo]
    BY <1>2 DEF FloorCovers, At
  <2>1. req'[p] = req[p] /\ req[p].repo \in Repos
    BY <1>1, NumberTypes DEF Underway
  <2>2. \A t \in Things : At(place[t], req[p].repo) => place[t].number \in Nat
    BY NumberTypes DEF At
  <2>3. QED
    BY <1>5, <2>1, <2>2 DEF NumberInv, FloorCovers, Seen
<1>8. CounterCovers'
  <2> SUFFICES ASSUME NEW p \in Requests, req'[p].pc = "increment", NEW t \in Things, At(place[t], req'[p].repo)
               PROVE  place[t].number <= lastNumber'[req'[p].repo]
    BY <1>2 DEF CounterCovers, At
  <2>1. CASE p = q
    BY <1>1, <1>6, <2>1
  <2>2. CASE p # q
    <3>1. req'[p] = req[p] /\ req[p].repo \in Repos /\ place[t].number \in Nat
      BY <1>1, <2>2, NumberTypes DEF Underway, At
    <3>2. QED
      BY <1>5, <3>1 DEF NumberInv, CounterCovers
  <2>3. QED
    BY <2>1, <2>2
<1>9. InHand'
  <2>1. ASSUME NEW p \in Requests, req'[p].pc = "store" PROVE req'[p] = req[p] /\ req[p].number <= lastNumber'[req[p].repo]
    <3>1. req'[p] = req[p] /\ req[p].repo \in Repos /\ req[p].number \in Nat
      BY <1>1, <2>1, NumberTypes DEF Underway
    <3>2. QED
      BY <1>5, <2>1, <3>1 DEF NumberInv, InHand
  <2>2. QED
    BY <1>2, <2>1 DEF NumberInv, InHand, At
<1>10. NumberNamesOne'
  BY <1>2 DEF NumberInv, NumberNamesOne
<1>11. QED
  BY <1>7, <1>8, <1>9, <1>10 DEF NumberInv

\* The increment hands out a number above every row and every number in hand.
LEMMA IncrementStep ==
  ASSUME TypeInv, NumberInv, NEW q \in Requests, Increment(q)
  PROVE  NumberInv'
<1> DEFINE r == req[q].repo
<1>1. /\ \A p \in Requests \ {q} : req'[p] = req[p]
      /\ req'[q].pc = "store" /\ req'[q].repo = r /\ r \in Repos
      /\ req'[q].number = lastNumber[r] + 1
      /\ lastNumber' = [lastNumber EXCEPT ![r] = @ + 1]
  BY IncrementMoves, TypeParts
<1>2. UNCHANGED <<place, legacy>> /\ req[q].pc = "increment"
  BY DEF Increment
<1>3. lastNumber \in [Repos -> 0..MaxNumber]
  BY DEF TypeInv, TypeOK
<1>4. /\ lastNumber'[r] = lastNumber[r] + 1 /\ lastNumber[r] \in Nat
      /\ \A s \in Repos \ {r} : lastNumber'[s] = lastNumber[s]
  BY <1>1, <1>3, NumberTypes
<1>5. ASSUME NEW t \in Things, At(place[t], r) PROVE place[t].number # req'[q].number
  <2>1. place[t].number <= lastNumber[r] /\ place[t].number \in Nat
    BY <1>2, <1>5, NumberTypes DEF NumberInv, CounterCovers, At, r
  <2>2. QED
    BY <1>1, <1>4, <2>1
<1> HIDE DEF r
<1>6. ASSUME NEW s \in Repos, NEW n \in Nat, n <= lastNumber[s] PROVE n <= lastNumber'[s]
  BY <1>4, <1>6
<1>7. FloorCovers'
  <2> SUFFICES ASSUME NEW p \in Requests, req'[p].pc \in {"read", "raise"}
               PROVE  /\ req'[p].pc = "raise" => req'[p].left = {}
                      /\ \A t \in Things : At(place[t], req'[p].repo) /\ Seen(p, t)' =>
                           place[t].number <= req'[p].floor \/ place[t].number <= lastNumber'[req'[p].repo]
    BY <1>2 DEF FloorCovers, At
  <2>1. req'[p] = req[p] /\ req[p].repo \in Repos
    BY <1>1, NumberTypes DEF Underway
  <2>2. \A t \in Things : At(place[t], req[p].repo) => place[t].number \in Nat
    BY NumberTypes DEF At
  <2>3. QED
    BY <1>6, <2>1, <2>2 DEF NumberInv, FloorCovers, Seen
<1>8. CounterCovers'
  <2> SUFFICES ASSUME NEW p \in Requests, req'[p].pc = "increment", NEW t \in Things, At(place[t], req'[p].repo)
               PROVE  place[t].number <= lastNumber'[req'[p].repo]
    BY <1>2 DEF CounterCovers, At
  <2>1. req'[p] = req[p] /\ req[p].repo \in Repos /\ place[t].number \in Nat
    BY <1>1, NumberTypes DEF Underway, At
  <2>2. QED
    BY <1>6, <2>1 DEF NumberInv, CounterCovers
<1>9. InHand'
  <2>1. ASSUME NEW p \in Requests \ {q}, req'[p].pc = "store"
        PROVE  /\ req'[p] = req[p] /\ req[p].number \in Nat /\ req[p].repo \in Repos
               /\ req[p].number <= lastNumber[req[p].repo] /\ req[p].number <= lastNumber'[req[p].repo]
    <3>1. req'[p] = req[p] /\ req[p].repo \in Repos /\ req[p].number \in Nat
      BY <1>1, <2>1, NumberTypes DEF Underway
    <3>2. req[p].number <= lastNumber[req[p].repo]
      BY <2>1, <3>1 DEF NumberInv, InHand
    <3>3. QED
      BY <1>6, <3>1, <3>2
  <2>2. ASSUME NEW p \in Requests \ {q}, req'[p].pc = "store", req'[p].repo = r
        PROVE  req'[p].number # req'[q].number
    BY <1>1, <1>4, <2>1, <2>2
  <2>3. req'[q].number <= lastNumber'[r]
    BY <1>1, <1>4
  <2> SUFFICES ASSUME NEW p \in Requests, req'[p].pc = "store"
               PROVE  /\ req'[p].number <= lastNumber'[req'[p].repo]
                      /\ \A t \in Things : At(place[t], req'[p].repo) => place[t].number # req'[p].number
                      /\ \A o \in Requests : req'[o].pc = "store" /\ o # p /\ req'[o].repo = req'[p].repo =>
                           req'[o].number # req'[p].number
    BY <1>2 DEF InHand, At
  <2>4. CASE p = q
    BY <1>1, <1>5, <2>2, <2>3, <2>4
  <2>5. CASE p # q
    <3>1. req'[p] = req[p] /\ req[p].pc = "store" /\ req'[p].number <= lastNumber'[req'[p].repo]
      BY <2>1, <2>5
    <3>2. \A t \in Things : At(place[t], req'[p].repo) => place[t].number # req'[p].number
      BY <3>1 DEF NumberInv, InHand
    <3>3. ASSUME NEW o \in Requests, req'[o].pc = "store", o # p, req'[o].repo = req'[p].repo
          PROVE  req'[o].number # req'[p].number
      <4>1. CASE o = q
        BY <1>1, <2>2, <2>5, <3>3, <4>1
      <4>2. CASE o # q
        BY <2>1, <3>1, <3>3, <4>2 DEF NumberInv, InHand
      <4>3. QED
        BY <4>1, <4>2
    <3>4. QED
      BY <3>1, <3>2, <3>3
  <2>6. QED
    BY <2>4, <2>5
<1>10. NumberNamesOne'
  BY <1>2 DEF NumberInv, NumberNamesOne
<1>11. QED
  BY <1>7, <1>8, <1>9, <1>10 DEF NumberInv

\* The row that a request stores is within the counter and in nobody else's hand.
LEMMA StoreStep ==
  ASSUME TypeInv, NumberInv, NEW q \in Requests, Store(q)
  PROVE  NumberInv'
<1> DEFINE r == req[q].repo
           n == req[q].number
           x == req[q].thing
<1>1. /\ req'[q].pc \in {"idle", "out"} /\ \A p \in Requests \ {q} : req'[p] = req[p]
      /\ x \in Things /\ r \in Repos /\ n \in Numbers
      /\ UNCHANGED lastNumber
      /\ \/ UNCHANGED <<place, legacy>>
         \/ place' = [place EXCEPT ![x] = [repo |-> r, number |-> n]] /\ legacy' = legacy \ {x}
  BY StoreFacts, TypeParts
<1>2. req[q].pc = "store"
  BY DEF Store
<1>3. CASE UNCHANGED <<place, legacy>>
  <2>1. Quiet
    BY <1>1, <1>3 DEF Quiet
  <2>2. QED
    BY <2>1, QuietStep
<1>4. CASE place' = [place EXCEPT ![x] = [repo |-> r, number |-> n]] /\ legacy' = legacy \ {x}
  <2>1. /\ n <= lastNumber[r]
        /\ \A t \in Things : At(place[t], r) => place[t].number # n
        /\ \A p \in Requests : req[p].pc = "store" /\ p # q /\ req[p].repo = r => req[p].number # n
    BY <1>2 DEF NumberInv, InHand
  <2>2. place \in [Things -> Places \cup {None}]
    BY DEF TypeInv, TypeOK
  <2> DEFINE here == [repo |-> r, number |-> n]
  <2>3. here.repo = r /\ here.number = n
    OBVIOUS
  <2> HIDE DEF x, r, n, here
  <2>4. place'[x] = here /\ \A t \in Things \ {x} : place'[t] = place[t]
    BY <1>1, <1>4, <2>2 DEF here
  <2>5. \A s : \A t \in Things : At(place'[t], s) => (t = x /\ s = r /\ place'[t].number = n) \/ (t # x /\ At(place[t], s))
    BY <2>3, <2>4 DEF At
  <2>6. FloorCovers'
    <3> SUFFICES ASSUME NEW p \in Requests, req'[p].pc \in {"read", "raise"}
                 PROVE  /\ req'[p].pc = "raise" => req'[p].left = {}
                        /\ \A t \in Things : At(place'[t], req'[p].repo) /\ Seen(p, t)' =>
                             place'[t].number <= req'[p].floor \/ place'[t].number <= lastNumber'[req'[p].repo]
      BY DEF FloorCovers, At
    <3>1. req'[p] = req[p] /\ p # q
      BY <1>1
    <3>2. QED
      BY <1>1, <2>1, <2>4, <2>5, <3>1 DEF NumberInv, FloorCovers, Seen
  <2>7. CounterCovers'
    <3> SUFFICES ASSUME NEW p \in Requests, req'[p].pc = "increment", NEW t \in Things, At(place'[t], req'[p].repo)
                 PROVE  place'[t].number <= lastNumber'[req'[p].repo]
      BY DEF CounterCovers, At
    <3>1. req'[p] = req[p] /\ p # q
      BY <1>1
    <3>2. QED
      BY <1>1, <2>1, <2>4, <2>5, <3>1 DEF NumberInv, CounterCovers
  <2>8. InHand'
    <3> SUFFICES ASSUME NEW p \in Requests, req'[p].pc = "store"
                 PROVE  /\ req'[p].number <= lastNumber'[req'[p].repo]
                        /\ \A t \in Things : At(place'[t], req'[p].repo) => place'[t].number # req'[p].number
                        /\ \A o \in Requests : req'[o].pc = "store" /\ o # p /\ req'[o].repo = req'[p].repo =>
                             req'[o].number # req'[p].number
      BY DEF InHand, At
    <3>1. \A o \in Requests : req'[o].pc = "store" => req'[o] = req[o] /\ o # q
      BY <1>1
    <3>2. \A t \in Things : At(place'[t], req[p].repo) => place'[t].number # req[p].number
      <4>1. \A t \in Things : At(place[t], req[p].repo) => place[t].number # req[p].number
        BY <3>1 DEF NumberInv, InHand
      <4>2. req[p].repo = r => req[p].number # n
        BY <2>1, <3>1
      <4>3. QED
        BY <2>4, <2>5, <4>1, <4>2
    <3>3. QED
      BY <1>1, <3>1, <3>2 DEF NumberInv, InHand
  <2>9. NumberNamesOne'
    <3> SUFFICES ASSUME NEW t \in Things, NEW u \in Things, place'[t] = place'[u], place'[t] # None, t # u
                 PROVE  {t, u} \subseteq legacy'
      BY DEF NumberNamesOne
    <3>1. ASSUME NEW v \in Things, v # x, place[v] = here PROVE FALSE
      <4>1. here # None
        BY <1>1, NowhereIsNoPlace DEF Places, here
      <4>2. At(place[v], r) /\ place[v].number = n
        BY <2>3, <3>1, <4>1 DEF At
      <4>3. QED
        BY <2>1, <4>2
    <3>2. t # x /\ u # x
      BY <2>4, <3>1
    <3>3. {t, u} \subseteq legacy
      BY <2>4, <3>2 DEF NumberInv, NumberNamesOne
    <3>4. QED
      BY <1>4, <3>2, <3>3
  <2>10. QED
    BY <2>6, <2>7, <2>8, <2>9 DEF NumberInv
<1>5. QED
  BY <1>1, <1>3, <1>4

\* A new issue's number is above every row, every counter and every number in hand.
LEMMA CreateStep ==
  ASSUME TypeInv, NumberInv, NEW x \in Issues, NEW r \in Repos, CreateIssue(x, r)
  PROVE  NumberInv'
<1>1. PICK m \in 0..MaxNumber, n \in Numbers :
        /\ Highest(m, Held(Things, r)) /\ m < n /\ lastNumber[r] < n /\ place[x] = None
        /\ lastNumber' = [lastNumber EXCEPT ![r] = n]
        /\ place' = [place EXCEPT ![x] = [repo |-> r, number |-> n]]
        /\ UNCHANGED <<req, legacy>>
  BY CreateFacts, TypeParts
<1> DEFINE here == [repo |-> r, number |-> n]
<1>2. here.repo = r /\ here.number = n /\ here # None /\ x \in Things /\ n \in Nat
  BY NowhereIsNoPlace, NumberBounds DEF Places, Numbers, Things
<1>3. place \in [Things -> Places \cup {None}] /\ lastNumber \in [Repos -> 0..MaxNumber]
  BY DEF TypeInv, TypeOK
<1> HIDE DEF here
<1>4. place'[x] = here /\ \A t \in Things \ {x} : place'[t] = place[t]
  BY <1>1, <1>2, <1>3 DEF here
<1>5. /\ lastNumber'[r] = n /\ lastNumber[r] \in Nat /\ \A s \in Repos \ {r} : lastNumber'[s] = lastNumber[s]
  BY <1>1, <1>3, NumberBounds
<1>6. \A t \in Things : At(place[t], r) => place[t].number < n
  <2> SUFFICES ASSUME NEW t \in Things, At(place[t], r) PROVE place[t].number < n
    OBVIOUS
  <2>1. place[t].number \in Held(Things, r) /\ place[t].number \in Nat
    BY NumberTypes DEF Held, At
  <2>2. place[t].number <= m
    BY <1>1, <2>1 DEF Highest
  <2>3. QED
    BY <1>1, <1>2, <2>1, <2>2, NumberBounds
<1>7. \A s : \A t \in Things : At(place'[t], s) => (t = x /\ s = r /\ place'[t].number = n) \/ (t # x /\ At(place[t], s))
  BY <1>2, <1>4 DEF At
<1>8. ASSUME NEW s \in Repos, NEW k \in Nat, k <= lastNumber[s] PROVE k <= lastNumber'[s]
  BY <1>1, <1>2, <1>5, <1>8
<1>9. FloorCovers'
  <2> SUFFICES ASSUME NEW p \in Requests, req[p].pc \in {"read", "raise"}
               PROVE  /\ req[p].pc = "raise" => req[p].left = {}
                      /\ \A t \in Things : At(place'[t], req[p].repo) /\ Seen(p, t) =>
                           place'[t].number <= req[p].floor \/ place'[t].number <= lastNumber'[req[p].repo]
    BY <1>1 DEF FloorCovers, At, Seen
  <2>1. req[p].pc = "raise" => req[p].left = {}
    BY DEF NumberInv, FloorCovers
  <2>2. ASSUME NEW t \in Things, At(place'[t], req[p].repo), Seen(p, t)
        PROVE  place'[t].number <= req[p].floor \/ place'[t].number <= lastNumber'[req[p].repo]
    <3>1. CASE t = x
      BY <1>2, <1>5, <1>7, <2>2, <3>1
    <3>2. CASE t # x
      <4>1. At(place[t], req[p].repo) /\ place'[t] = place[t]
        BY <1>4, <1>7, <2>2, <3>2
      <4>2. place[t].number \in Nat /\ req[p].repo \in Repos
        BY <4>1, NumberTypes DEF At, Underway
      <4>3. place[t].number <= req[p].floor \/ place[t].number <= lastNumber[req[p].repo]
        BY <2>2, <4>1 DEF NumberInv, FloorCovers
      <4>4. QED
        BY <1>8, <4>1, <4>2, <4>3
    <3>3. QED
      BY <3>1, <3>2
  <2>3. QED
    BY <2>1, <2>2
<1>10. CounterCovers'
  <2> SUFFICES ASSUME NEW p \in Requests, req[p].pc = "increment", NEW t \in Things, At(place'[t], req[p].repo)
               PROVE  place'[t].number <= lastNumber'[req[p].repo]
    BY <1>1 DEF CounterCovers, At
  <2>1. CASE t = x
    BY <1>2, <1>5, <1>7, <2>1
  <2>2. CASE t # x
    <3>1. At(place[t], req[p].repo) /\ place'[t] = place[t]
      BY <1>4, <1>7, <2>2
    <3>2. place[t].number \in Nat /\ req[p].repo \in Repos
      BY <3>1, NumberTypes DEF At, Underway
    <3>3. QED
      BY <1>8, <3>1, <3>2 DEF NumberInv, CounterCovers
  <2>3. QED
    BY <2>1, <2>2
<1>11. InHand'
  <2> SUFFICES ASSUME NEW p \in Requests, req[p].pc = "store"
               PROVE  /\ req[p].number <= lastNumber'[req[p].repo]
                      /\ \A t \in Things : At(place'[t], req[p].repo) => place'[t].number # req[p].number
                      /\ \A o \in Requests : req[o].pc = "store" /\ o # p /\ req[o].repo = req[p].repo =>
                           req[o].number # req[p].number
    BY <1>1 DEF InHand, At
  <2>1. req[p].number \in Nat /\ req[p].repo \in Repos /\ req[p].number <= lastNumber[req[p].repo]
    BY NumberTypes DEF NumberInv, InHand, Underway
  <2>2. req[p].number <= lastNumber'[req[p].repo]
    BY <1>8, <2>1
  <2>3. ASSUME NEW t \in Things, At(place'[t], req[p].repo) PROVE place'[t].number # req[p].number
    <3>1. CASE t = x
      BY <1>1, <1>2, <1>5, <1>7, <2>1, <2>3, <3>1
    <3>2. CASE t # x
      BY <1>4, <1>7, <2>3, <3>2 DEF NumberInv, InHand
    <3>3. QED
      BY <3>1, <3>2
  <2>4. QED
    BY <2>2, <2>3 DEF NumberInv, InHand
<1>12. NumberNamesOne'
  <2> SUFFICES ASSUME NEW t \in Things, NEW u \in Things, place'[t] = place'[u], place'[t] # None, t # u
               PROVE  {t, u} \subseteq legacy
    BY <1>1 DEF NumberNamesOne
  <2>1. ASSUME NEW v \in Things, v # x, place[v] = here PROVE FALSE
    <3>1. At(place[v], r) /\ place[v].number = n
      BY <1>2, <2>1 DEF At
    <3>2. QED
      BY <1>2, <1>6, <3>1
  <2>2. t # x /\ u # x
    BY <1>4, <2>1
  <2>3. QED
    BY <1>4, <2>2 DEF NumberInv, NumberNamesOne
<1>13. QED
  BY <1>9, <1>10, <1>11, <1>12 DEF NumberInv

\* A deleted issue leaves fewer rows.
LEMMA DeleteStep ==
  ASSUME TypeInv, NumberInv, NEW x \in Issues, DeleteIssue(x)
  PROVE  NumberInv'
<1>1. /\ place' = [place EXCEPT ![x] = None] /\ legacy' = legacy \ {x}
      /\ UNCHANGED <<lastNumber, req>>
  BY DeleteFacts, TypeParts
<1>2. place \in [Things -> Places \cup {None}] /\ x \in Things
  BY DEF TypeInv, TypeOK, Things
<1>3. place'[x] = None /\ \A t \in Things \ {x} : place'[t] = place[t]
  BY <1>1, <1>2
<1>4. \A r : \A t \in Things : At(place'[t], r) => At(place[t], r) /\ place'[t] = place[t]
  BY <1>3 DEF At
<1>5. FloorCovers'
  <2> SUFFICES ASSUME NEW p \in Requests, req[p].pc \in {"read", "raise"}
               PROVE  /\ req[p].pc = "raise" => req[p].left = {}
                      /\ \A t \in Things : At(place'[t], req[p].repo) /\ Seen(p, t) =>
                           place'[t].number <= req[p].floor \/ place'[t].number <= lastNumber[req[p].repo]
    BY <1>1 DEF FloorCovers, Seen
  <2>1. QED
    BY <1>4 DEF NumberInv, FloorCovers
<1>6. CounterCovers'
  BY <1>1, <1>4 DEF NumberInv, CounterCovers
<1>7. InHand'
  BY <1>1, <1>4 DEF NumberInv, InHand
<1>8. NumberNamesOne'
  <2> SUFFICES ASSUME NEW t \in Things, NEW u \in Things, place'[t] = place'[u], place'[t] # None, t # u
               PROVE  {t, u} \subseteq legacy'
    BY DEF NumberNamesOne
  <2>1. t # x /\ u # x
    BY <1>3
  <2>2. QED
    BY <1>1, <1>3, <2>1 DEF NumberInv, NumberNamesOne
<1>9. QED
  BY <1>5, <1>6, <1>7, <1>8 DEF NumberInv

\* numbering.ts: #N names exactly one issue or pull request, save for two that both had
\* their numbers before the counter, whatever creations and transfers interleave at the
\* awaits of nextNumber.
THEOREM OneThingPerNumber == Spec => []NumberNamesOne
<1>1. Init => IInv
  BY TypeInit, NumberInit DEF IInv
<1>2. IInv /\ [Next]_vars => IInv'
  BY Steps, QuietStep, ReadStep, RaiseStep, IncrementStep, StoreStep, CreateStep, DeleteStep DEF IInv
<1>3. IInv => NumberNamesOne
  BY DEF IInv, NumberInv
<1>4. QED
  BY <1>1, <1>2, <1>3, PTL DEF Spec

(***************************************************************************)
(* The pointer at an old address.  The inductive invariant follows the     *)
(* number that a request holds from the increment to its last event, the   *)
(* row that it is about to move, and the moves that were stored.           *)
(***************************************************************************)
Handed(q) == req[q].pc \in {"store", "out", "in"}
Arrived(q) == req[q].pc \in {"out", "in"}
To(q) == [repo |-> req[q].repo, number |-> req[q].number]

\* A pull request comes from nowhere, and a transfer leads to another repository.
LeadsAway ==
  \A q \in Active : IF req[q].from = None THEN req[q].thing \notin Issues ELSE req[q].from.repo # req[q].repo

\* A number in hand has been counted, and no other request holds it, up to the last event.
HandedCounted == \A q \in Requests : Handed(q) => req[q].number <= lastNumber[req[q].repo]
HandedApart == \A p, q \in Requests : Handed(p) /\ Handed(q) /\ p # q => To(p) # To(q)

\* Two issues are never at one place, and at the place of a number in hand there is at
\* most the issue that was moved there.
IssuesApart == \A t, u \in Issues : place[t] = place[u] /\ place[t] # None => t = u
ArrivedAlone == \A q \in Requests : Arrived(q) => \A u \in Issues : place[u] = To(q) => u = req[q].thing

\* An issue that is not tangled is in the hands of one request, and until that request
\* stores it, it is where it was found or deleted.
OneByOne ==
  \A p, q \in Active : p # q /\ req[p].thing = req[q].thing /\ req[p].thing \in Issues => req[p].thing \in tangled
StillThere ==
  \A q \in Active : req[q].from # None /\ ~Arrived(q) /\ req[q].thing \notin tangled =>
    place[req[q].thing] \in {req[q].from, None}

\* The move that a request still writes the events of.
OwnMove(m, q) == m.thing = req[q].thing /\ m.from = req[q].from /\ m.to = To(q)
MoveIsStored == \A q \in Requests : Arrived(q) => \E m \in moves : OwnMove(m, q)

CarryInv == LeadsAway /\ HandedCounted /\ HandedApart /\ IssuesApart /\ ArrivedAlone
            /\ OneByOne /\ StillThere /\ MoveIsStored

\* A place that was left for good: the counter is past it, nobody is there or has its
\* number in hand, and one move left it, whose pointer is the last event there or the
\* next that its request writes.
LeftCounted == \A m \in moves : m.due => m.from.number <= lastNumber[m.from.repo]
LeftEmpty == \A m \in moves : Settled(m.from) => \A t \in Issues : place[t] # m.from
LeftUnclaimed == \A m \in moves : Settled(m.from) => \A q \in Requests : Handed(q) => To(q) # m.from
LeftOnce == \A m, n \in moves : Settled(m.from) /\ n.from = m.from => n = m

Latest(p, to) ==
  \E i \in 1..Len(events) :
    /\ events[i] = [at |-> p, to |-> to]
    /\ \A j \in (i + 1)..Len(events) : events[j].at # p
Writing(m) == \E q \in Requests : req[q].pc = "out" /\ OwnMove(m, q)
LeftPointing == \A m \in moves : Settled(m.from) => Writing(m) \/ Latest(m.from, m.to)

LeftInv == LeftCounted /\ LeftEmpty /\ LeftUnclaimed /\ LeftOnce /\ LeftPointing
PointerInv == IInv /\ CarryInv /\ LeftInv

(***************************************************************************)
(* The kinds of steps, as far as the pointers can tell them apart.         *)
(***************************************************************************)
Others(q) == \A p \in Requests \ {q} : req'[p] = req[p]
Keeps(q) == req'[q].thing = req[q].thing /\ req'[q].from = req[q].from /\ req'[q].repo = req[q].repo
Stay == \A u \in Issues : place'[u] = place[u]
Grow == \A r \in Repos : lastNumber[r] <= lastNumber'[r]

Starts(q) ==
  /\ Others(q) /\ req[q].pc = "idle" /\ req'[q].pc = "read"
  /\ \/ req'[q].from = None /\ req'[q].thing \notin Issues
     \/ /\ req'[q].from # None /\ req'[q].thing \in Issues /\ place[req'[q].thing] = req'[q].from
        /\ req'[q].from.repo # req'[q].repo
  /\ req'[q].thing \in Issues => \A p \in Active : req[p].thing = req'[q].thing => req'[q].thing \in tangled'
  /\ tangled \subseteq tangled' /\ UNCHANGED <<lastNumber, place, events, moves>>

Prepares(q) ==
  /\ Others(q) /\ Keeps(q) /\ {req[q].pc, req'[q].pc} \subseteq {"read", "raise", "increment"}
  /\ Grow /\ UNCHANGED <<place, events, moves, tangled>>

TakesNumber(q) ==
  /\ Others(q) /\ Keeps(q) /\ req[q].pc = "increment" /\ req'[q].pc = "store"
  /\ lastNumber[req[q].repo] < req'[q].number /\ req'[q].number <= lastNumber'[req[q].repo]
  /\ Grow /\ UNCHANGED <<place, events, moves, tangled>>

Moves(q) ==
  LET k == req[q] IN
  /\ Others(q) /\ Keeps(q) /\ k.pc = "store" /\ req'[q].pc = "out" /\ req'[q].number = k.number
  /\ k.thing \in Issues /\ k.from \in Places /\ place[k.thing] # None /\ \A u \in Issues : place[u] # To(q)
  /\ place'[k.thing] = To(q) /\ \A u \in Issues \ {k.thing} : place'[u] = place[u]
  /\ moves' = moves \cup {[thing |-> k.thing, from |-> k.from, to |-> To(q),
                           due |-> k.from.number <= lastNumber[k.from.repo]]}
  /\ UNCHANGED <<lastNumber, events, tangled>>

Reports(q) ==
  /\ Others(q) /\ Keeps(q) /\ req[q].pc = "out" /\ req'[q].pc = "in" /\ req'[q].number = req[q].number
  /\ \/ events' = Append(events, [at |-> req[q].from, to |-> To(q)]) /\ UNCHANGED moves
     \/ UNCHANGED events /\ Lose({q})
  /\ UNCHANGED <<lastNumber, place, tangled>>

Ends(qs) ==
  /\ \A q \in qs : req'[q].pc = "idle"
  /\ \A q \in Requests \ qs : req'[q] = req[q]
  /\ \/ UNCHANGED <<events, moves>> /\ \A q \in qs : ~Arrived(q)
     \/ UNCHANGED events /\ Lose(qs)
     \/ \E q \in qs : /\ qs = {q} /\ req[q].pc = "in"
                      /\ events' = Append(events, [at |-> To(q), to |-> None]) /\ UNCHANGED moves
  /\ Stay /\ UNCHANGED <<lastNumber, tangled>>

Creates(t, r, n) ==
  /\ place[t] = None /\ \A q \in Active : req[q].thing # t
  /\ place'[t] = [repo |-> r, number |-> n] /\ \A u \in Issues \ {t} : place'[u] = place[u]
  /\ \A u \in Issues : At(place[u], r) => place[u].number < n
  /\ lastNumber[r] < n /\ n <= lastNumber'[r] /\ Grow
  /\ UNCHANGED <<req, events, moves, tangled>>

Deletes(t) ==
  /\ place'[t] = None /\ \A u \in Issues \ {t} : place'[u] = place[u]
  /\ UNCHANGED <<lastNumber, req, events, moves, tangled>>

\* The fields of a request that a step gives another pc.
LEMMA PcMoves ==
  ASSUME ReqPart, NEW q \in Requests, NEW pc \in {"raise", "increment", "store", "out", "in"},
         req' = [req EXCEPT ![q].pc = pc]
  PROVE  Others(q) /\ Keeps(q) /\ req'[q].pc = pc /\ req'[q].number = req[q].number
<1> DEFINE x == [req[q] EXCEPT !.pc = pc]
<1>1. req[q] \in ReqStates /\ req \in [Requests -> ReqStates]
  BY DEF ReqPart
<1>2. req'[q] = x /\ \A p \in Requests \ {q} : req'[p] = req[p]
  BY <1>1
<1>3. /\ x.pc = pc /\ x.repo = req[q].repo /\ x.thing = req[q].thing
      /\ x.from = req[q].from /\ x.number = req[q].number
  BY <1>1 DEF ReqStates
<1> HIDE DEF x
<1>4. QED
  BY <1>2, <1>3 DEF Others, Keeps

LEMMA BeginClass ==
  ASSUME ReqPart, NEW q \in Requests, NEW t, NEW from, NEW r, Begin(q, t, from, r)
  PROVE  /\ Others(q) /\ req[q].pc = "idle" /\ req'[q].pc = "read"
         /\ req'[q].thing = t /\ req'[q].from = from /\ req'[q].repo = r
         /\ UNCHANGED <<lastNumber, place, events, moves>>
BY DEF ReqPart, Begin, Others

LEMMA OpenClass ==
  ASSUME TypeInv, NEW q \in Requests, NEW r \in Repos, NEW t \in Pulls, OpenPull(q, t, r)
  PROVE  Starts(q)
<1>1. Begin(q, t, None, r) /\ UNCHANGED tangled /\ t \notin Issues
  BY KindsAreDisjoint DEF OpenPull
<1>2. QED
  BY <1>1, BeginClass, TypeParts DEF Starts

LEMMA TransferClass ==
  ASSUME TypeInv, NEW q \in Requests, NEW r \in Repos, NEW t \in Issues, Transfer(q, t, r)
  PROVE  Starts(q)
<1>1. Begin(q, t, place[t], r) /\ place[t] # None /\ place[t].repo # r
  BY DEF Transfer
<1>2. tangled \subseteq tangled' /\ \A p \in Active : req[p].thing = t => t \in tangled'
  BY DEF Transfer
<1>3. QED
  BY <1>1, <1>2, BeginClass, TypeParts DEF Starts

LEMMA ReadClass ==
  ASSUME TypeInv, NEW q \in Requests, NEW k \in {"issue", "pull"}, Read(q, k)
  PROVE  Prepares(q)
<1>1. PICK n \in 0..MaxNumber :
        req' = [req EXCEPT ![q].left = @ \ {k}, ![q].floor = Larger(@, n),
                           ![q].pc = IF req[q].left = {k} THEN "raise" ELSE "read"]
  BY DEF Read
<1> DEFINE pc == IF req[q].left = {k} THEN "raise" ELSE "read"
           floor == Larger(req[q].floor, n)
           x == [req[q] EXCEPT !.left = @ \ {k}, !.floor = floor, !.pc = pc]
<1>2. req[q] \in ReqStates /\ req \in [Requests -> ReqStates]
  BY TypeParts DEF ReqPart
<1>3. req'[q] = x /\ \A p \in Requests \ {q} : req'[p] = req[p]
  BY <1>1, <1>2
<1>4. pc \in {"raise", "read"}
  OBVIOUS
<1> HIDE DEF pc, floor
<1>5. x.pc = pc /\ x.repo = req[q].repo /\ x.thing = req[q].thing /\ x.from = req[q].from
  BY <1>2 DEF ReqStates
<1> HIDE DEF x
<1>6. req[q].pc = "read" /\ UNCHANGED <<lastNumber, place, events, moves, tangled>>
  BY DEF Read
<1>7. Grow
  BY <1>6, NumberTypes DEF Grow
<1>8. QED
  BY <1>3, <1>4, <1>5, <1>6, <1>7 DEF Prepares, Others, Keeps

LEMMA RaiseClass ==
  ASSUME TypeInv, NEW q \in Requests, Raise(q)
  PROVE  Prepares(q)
<1>1. /\ req[q].pc = "raise" /\ req' = [req EXCEPT ![q].pc = "increment"]
      /\ UNCHANGED <<place, events, moves, tangled>>
  BY DEF Raise
<1>2. Others(q) /\ Keeps(q) /\ req'[q].pc = "increment"
  BY <1>1, PcMoves, TypeParts
<1>3. /\ lastNumber' = [lastNumber EXCEPT ![req[q].repo] = Larger(@, req[q].floor)]
      /\ req[q].floor \in Nat /\ lastNumber \in [Repos -> 0..MaxNumber]
  BY RaiseMoves, TypeParts, NumberTypes DEF OtherPart
<1>4. Grow
  BY <1>3, NumberTypes DEF Grow, Larger
<1>5. QED
  BY <1>1, <1>2, <1>4 DEF Prepares

LEMMA IncrementClass ==
  ASSUME TypeInv, NEW q \in Requests, Increment(q)
  PROVE  TakesNumber(q)
<1>1. /\ req'[q].pc = "store" /\ req[q].repo \in Repos
      /\ req'[q].number = lastNumber[req[q].repo] + 1 /\ \A p \in Requests \ {q} : req'[p] = req[p]
      /\ lastNumber' = [lastNumber EXCEPT ![req[q].repo] = @ + 1]
  BY IncrementMoves, TypeParts
<1>2. lastNumber \in [Repos -> 0..MaxNumber] /\ \A r \in Repos : lastNumber[r] \in Nat
  BY TypeParts, NumberTypes DEF OtherPart
<1>3. Grow /\ lastNumber[req[q].repo] < req'[q].number /\ req'[q].number <= lastNumber'[req[q].repo]
  BY <1>1, <1>2 DEF Grow
<1>4. Keeps(q)
  <2> DEFINE n == lastNumber[req[q].repo] + 1
             x == [req[q] EXCEPT !.pc = "store", !.number = n]
  <2>1. req[q] \in ReqStates /\ req \in [Requests -> ReqStates]
    BY TypeParts DEF ReqPart
  <2>2. req'[q] = x
    BY <2>1 DEF Increment
  <2> HIDE DEF n
  <2>3. x.repo = req[q].repo /\ x.thing = req[q].thing /\ x.from = req[q].from
    BY <2>1 DEF ReqStates
  <2>4. QED
    BY <2>2, <2>3 DEF Keeps
<1>5. req[q].pc = "increment" /\ UNCHANGED <<place, events, moves, tangled>>
  BY DEF Increment
<1>6. QED
  BY <1>1, <1>3, <1>4, <1>5 DEF TakesNumber, Others

LEMMA StoreClass ==
  ASSUME TypeInv, LeadsAway, NEW q \in Requests, Store(q)
  PROVE  Moves(q) \/ Ends({q})
<1> DEFINE m == [thing |-> req[q].thing, from |-> req[q].from, to |-> To(q),
                 due |-> req[q].from.number <= lastNumber[req[q].from.repo]]
           k == req[q]
<1>1. k \in ReqStates /\ ReqFormed(k) /\ k.pc = "store" /\ ReqPart
  BY TypeParts DEF ReqPart, Store
<1>2. /\ k.thing \in Things /\ k.from \in Places \cup {None}
      /\ k.from # None => k.thing \in Issues /\ k.from \in Places
      /\ k.from = None => k.thing \notin Issues
  BY <1>1 DEF ReqFormed, Underway, ReqStates, LeadsAway, Active
<1>3. place \in [Things -> Places \cup {None}]
  BY TypeParts DEF OtherPart
<1>4. \/ req' = [req EXCEPT ![q] = Idle] /\ UNCHANGED <<place, moves>>
      \/ /\ ~Refused(k, To(q)) /\ k.from = None /\ req' = [req EXCEPT ![q] = Idle] /\ UNCHANGED moves
         /\ place' = [place EXCEPT ![k.thing] = To(q)]
      \/ /\ ~Refused(k, To(q)) /\ k.from # None /\ req' = [req EXCEPT ![q].pc = "out"] /\ moves' = moves \cup {m}
         /\ place' = [place EXCEPT ![k.thing] = To(q)]
  BY DEF Store, To
<1>5. UNCHANGED <<lastNumber, events, tangled>>
  BY DEF Store
<1> HIDE DEF m, k
<1>6. ASSUME req' = [req EXCEPT ![q] = Idle], Stay, UNCHANGED moves PROVE Ends({q})
  <2>1. req'[q].pc = "idle" /\ \A p \in Requests \ {q} : req'[p] = req[p]
    BY <1>1, <1>6, EndMoves
  <2>2. ~Arrived(q)
    BY <1>1 DEF Arrived, k
  <2>3. QED
    BY <1>5, <1>6, <2>1, <2>2 DEF Ends
<1>7. CASE req' = [req EXCEPT ![q] = Idle] /\ UNCHANGED <<place, moves>>
  BY <1>6, <1>7 DEF Stay
<1>8. CASE /\ ~Refused(k, To(q)) /\ k.from = None /\ req' = [req EXCEPT ![q] = Idle] /\ UNCHANGED moves
           /\ place' = [place EXCEPT ![k.thing] = To(q)]
  <2>1. Stay
    BY <1>2, <1>3, <1>8 DEF Stay, Things
  <2>2. QED
    BY <1>6, <1>8, <2>1
<1>9. CASE /\ ~Refused(k, To(q)) /\ k.from # None /\ req' = [req EXCEPT ![q].pc = "out"] /\ moves' = moves \cup {m}
           /\ place' = [place EXCEPT ![k.thing] = To(q)]
  <2>1. Others(q) /\ Keeps(q) /\ req'[q].pc = "out" /\ req'[q].number = req[q].number
    BY <1>1, <1>9, PcMoves
  <2>2. k.thing \in Issues /\ k.from \in Places
    BY <1>2, <1>9
  <2>3. place[k.thing] # None /\ \A u \in Issues : place[u] # To(q)
    BY <1>9, <2>2 DEF Refused, Taken
  <2>4. place'[k.thing] = To(q) /\ \A u \in Issues \ {k.thing} : place'[u] = place[u]
    BY <1>2, <1>3, <1>9 DEF Things
  <2>5. QED
    BY <1>1, <1>5, <1>9, <2>1, <2>2, <2>3, <2>4 DEF Moves, k, m
<1>10. QED
  BY <1>4, <1>7, <1>8, <1>9


LEMMA OutClass ==
  ASSUME TypeInv, NEW q \in Requests, RecordOut(q) \/ (EventRefused(q) /\ req[q].pc = "out")
  PROVE  Reports(q)
<1>1. req' = [req EXCEPT ![q].pc = "in"] /\ req[q].pc = "out"
  BY DEF RecordOut, EventRefused
<1>2. Others(q) /\ Keeps(q) /\ req'[q].pc = "in" /\ req'[q].number = req[q].number
  BY <1>1, PcMoves, TypeParts
<1>3. UNCHANGED <<lastNumber, place, tangled>>
  BY DEF RecordOut, EventRefused
<1>4. \/ events' = Append(events, [at |-> req[q].from, to |-> To(q)]) /\ UNCHANGED moves
      \/ UNCHANGED events /\ Lose({q})
  BY DEF RecordOut, EventRefused, To
<1>5. QED
  BY <1>1, <1>2, <1>3, <1>4 DEF Reports

LEMMA InClass ==
  ASSUME TypeInv, NEW q \in Requests, RecordIn(q) \/ (EventRefused(q) /\ req[q].pc # "out")
  PROVE  Ends({q})
<1>1. req' = [req EXCEPT ![q] = Idle] /\ req[q].pc = "in"
  BY DEF RecordIn, EventRefused
<1>2. req'[q].pc = "idle" /\ \A p \in Requests \ {q} : req'[p] = req[p]
  BY <1>1, EndMoves, TypeParts
<1>3. UNCHANGED <<lastNumber, tangled>> /\ Stay
  BY DEF RecordIn, EventRefused, Stay
<1>4. \/ events' = Append(events, [at |-> To(q), to |-> None]) /\ UNCHANGED moves
      \/ UNCHANGED events /\ Lose({q})
  BY DEF RecordIn, EventRefused, To
<1>5. QED
  BY <1>1, <1>2, <1>3, <1>4 DEF Ends

LEMMA CrashClass ==
  ASSUME Crash
  PROVE  Ends(Requests)
<1>1. \A q \in Requests : req'[q].pc = "idle"
  BY IdleState DEF Crash
<1>2. QED
  BY <1>1 DEF Crash, Ends, Stay

LEMMA CreateClass ==
  ASSUME TypeInv, NEW t \in Issues, NEW r \in Repos, CreateIssue(t, r)
  PROVE  \E n \in Numbers : Creates(t, r, n)
<1>1. PICK m \in 0..MaxNumber, n \in Numbers :
        /\ Highest(m, Held(Things, r)) /\ m < n /\ lastNumber[r] < n /\ place[t] = None
        /\ lastNumber' = [lastNumber EXCEPT ![r] = n]
        /\ place' = [place EXCEPT ![t] = [repo |-> r, number |-> n]]
        /\ UNCHANGED <<req, legacy>>
  BY CreateFacts, TypeParts
<1>2. /\ \A q \in Active : req[q].thing # t
      /\ UNCHANGED <<req, events, moves, tangled>>
  BY DEF CreateIssue
<1>3. place \in [Things -> Places \cup {None}] /\ lastNumber \in [Repos -> 0..MaxNumber] /\ t \in Things
  BY TypeParts DEF OtherPart, Things
<1>4. place'[t] = [repo |-> r, number |-> n] /\ \A u \in Issues \ {t} : place'[u] = place[u]
  BY <1>1, <1>3 DEF Things
<1>5. ASSUME NEW u \in Issues, At(place[u], r) PROVE place[u].number < n
  <2>1. place[u].number \in Held(Things, r) /\ place[u].number \in Nat
    BY <1>5, NumberTypes DEF Held, At, Things
  <2>2. place[u].number <= m
    BY <1>1, <2>1 DEF Highest
  <2>3. QED
    BY <1>1, <2>1, <2>2, NumberBounds DEF Numbers
<1>6. n <= lastNumber'[r] /\ Grow
  BY <1>1, <1>3, NumberTypes, NumberBounds DEF Grow, Numbers
<1>7. QED
  BY <1>1, <1>2, <1>4, <1>5, <1>6 DEF Creates

LEMMA DeleteClass ==
  ASSUME TypeInv, NEW t \in Issues, DeleteIssue(t)
  PROVE  Deletes(t)
<1>1. /\ place' = [place EXCEPT ![t] = None] /\ UNCHANGED <<lastNumber, req, events, moves, tangled>>
  BY DEF DeleteIssue
<1>2. place \in [Things -> Places \cup {None}]
  BY TypeParts DEF OtherPart
<1>3. QED
  BY <1>1, <1>2 DEF Deletes, Things

\* Every step is of one of the kinds.
LEMMA Classes ==
  ASSUME TypeInv, LeadsAway, [Next]_vars
  PROVE  \/ \E q \in Requests : Starts(q) \/ Prepares(q) \/ TakesNumber(q) \/ Moves(q) \/ Reports(q)
         \/ \E qs \in SUBSET Requests : Ends(qs)
         \/ \E t \in Issues, r \in Repos, n \in Numbers : Creates(t, r, n)
         \/ \E t \in Issues : Deletes(t)
<1>1. CASE UNCHANGED vars
  <2>1. Ends({})
    BY <1>1 DEF vars, Ends, Stay
  <2>2. QED
    BY <2>1
<1>2. ASSUME NEW q \in Requests, RequestStep(q)
      PROVE  Starts(q) \/ Prepares(q) \/ TakesNumber(q) \/ Moves(q) \/ Reports(q) \/ \E qs \in SUBSET Requests : Ends(qs)
  <2>1. {q} \in SUBSET Requests
    OBVIOUS
  <2>2. QED
    BY <1>2, <2>1, ReadClass, RaiseClass, IncrementClass, StoreClass, OutClass, InClass DEF RequestStep
<1>3. CASE Crash
  BY <1>3, CrashClass
<1>4. QED
  BY <1>1, <1>2, <1>3, OpenClass, TransferClass, CreateClass, DeleteClass DEF Next

(***************************************************************************)
(* What the numbers in hand and the rows under way become.                 *)
(***************************************************************************)
Step ==
  \/ \E q \in Requests : Starts(q) \/ Prepares(q) \/ TakesNumber(q) \/ Moves(q) \/ Reports(q)
  \/ \E qs \in SUBSET Requests : Ends(qs)
  \/ \E t \in Issues, r \in Repos, n \in Numbers : Creates(t, r, n)
  \/ \E t \in Issues : Deletes(t)

\* A request begins, ends, or carries on with what it was about.
CarriesOn(p) ==
  /\ req[p].pc # "idle" /\ Keeps(p)
  /\ Arrived(p)' => (Arrived(p) /\ req'[p].number = req[p].number) \/ Moves(p)
  /\ Handed(p)' => (Handed(p) /\ req'[p].number = req[p].number) \/ TakesNumber(p)
  /\ Arrived(p) => Arrived(p)'

LEMMA Onward ==
  ASSUME Step, NEW p \in Requests
  PROVE  req'[p].pc = "idle" \/ Starts(p) \/ CarriesOn(p)
<1>1. CASE req'[p] = req[p]
  BY <1>1 DEF CarriesOn, Keeps, Arrived, Handed
<1>2. ASSUME NEW q \in Requests, Starts(q) PROVE req'[p] = req[p] \/ Starts(p)
  BY <1>2 DEF Starts, Others
<1>3. ASSUME NEW q \in Requests, Prepares(q) \/ TakesNumber(q) \/ Moves(q) \/ Reports(q)
      PROVE  req'[p] = req[p] \/ (p = q /\ (Prepares(p) \/ TakesNumber(p) \/ Moves(p) \/ Reports(p)))
  BY <1>3 DEF Prepares, TakesNumber, Moves, Reports, Others
<1>4. CASE Prepares(p)
  BY <1>4 DEF Prepares, CarriesOn, Arrived, Handed
<1>5. CASE TakesNumber(p)
  BY <1>5 DEF CarriesOn, Arrived, Handed, TakesNumber
<1>6. CASE Moves(p)
  BY <1>6 DEF CarriesOn, Arrived, Handed, Moves
<1>7. CASE Reports(p)
  BY <1>7 DEF Reports, CarriesOn, Arrived, Handed
<1>8. ASSUME NEW qs \in SUBSET Requests, Ends(qs) PROVE req'[p] = req[p] \/ req'[p].pc = "idle"
  BY <1>8 DEF Ends
<1>9. ASSUME NEW t \in Issues, (\E r \in Repos, n \in Numbers : Creates(t, r, n)) \/ Deletes(t)
      PROVE  req'[p] = req[p]
  BY <1>9 DEF Creates, Deletes
<1>10. QED
  BY <1>1, <1>2, <1>3, <1>4, <1>5, <1>6, <1>7, <1>8, <1>9 DEF Step

LEMMA CountersGrow == ASSUME TypeInv, Step PROVE Grow
<1>1. UNCHANGED lastNumber => Grow
  BY NumberTypes DEF Grow
<1>2. QED
  BY <1>1 DEF Step, Starts, Prepares, TakesNumber, Moves, Reports, Ends, Creates, Deletes

LEMMA Past ==
  ASSUME TypeInv, TypeInv', Step, NEW r \in Repos, NEW n \in Nat, n <= lastNumber[r]
  PROVE  n <= lastNumber'[r]
<1>1. lastNumber[r] \in Nat /\ lastNumber'[r] \in Nat
  <2>1. lastNumber \in [Repos -> 0..MaxNumber] /\ lastNumber' \in [Repos -> 0..MaxNumber]
    BY DEF TypeInv, TypeOK
  <2>2. QED
    BY <2>1, NumberBounds
<1>2. lastNumber[r] <= lastNumber'[r]
  BY CountersGrow DEF Grow
<1>3. QED
  BY <1>1, <1>2

\* What a request has at hand.
LEMMA HandTypes ==
  ASSUME TypeInv
  PROVE  /\ \A q \in Active : /\ req[q].thing \in Things /\ req[q].repo \in Repos
                              /\ req[q].from # None => req[q].thing \in Issues
         /\ \A q \in Requests : req[q].number \in Nat /\ req[q].from \in Places \cup {None}
         /\ \A q \in Requests : Handed(q) => q \in Active /\ To(q) \in Places
         /\ \A q \in Requests : Arrived(q) => Handed(q) /\ req[q].from \in Places
<1>1. ASSUME NEW q \in Requests
      PROVE  req[q] \in ReqStates /\ ReqFormed(req[q])
  BY TypeParts DEF ReqPart
<1>2. ASSUME NEW q \in Active
      PROVE  req[q].thing \in Things /\ req[q].repo \in Repos /\ (req[q].from # None => req[q].thing \in Issues)
  BY <1>1 DEF Active, ReqStates, ReqFormed, Underway
<1>3. ASSUME NEW q \in Requests PROVE req[q].number \in Nat /\ req[q].from \in Places \cup {None}
  BY <1>1, NumberBounds DEF ReqStates
<1>4. ASSUME NEW q \in Requests, Handed(q) PROVE q \in Active /\ To(q) \in Places
  <2>1. q \in Active /\ req[q].number \in Numbers
    BY <1>1, <1>4 DEF Handed, Active, ReqFormed
  <2>2. QED
    BY <1>2, <2>1 DEF To, Places
<1>5. ASSUME NEW q \in Requests, Arrived(q) PROVE Handed(q) /\ req[q].from \in Places
  BY <1>1, <1>5 DEF Arrived, Handed, ReqFormed
<1>6. QED
  BY <1>2, <1>3, <1>4, <1>5

LEMMA PlaceTypes ==
  /\ \A p \in Places : p.repo \in Repos /\ p.number \in Nat /\ p # None
  /\ \A p, s \in Places : p.repo = s.repo /\ p.number = s.number => p = s
BY NumberBounds, NowhereIsNoPlace DEF Places, Numbers

LEMMA AwayStep ==
  ASSUME LeadsAway, Step
  PROVE  LeadsAway'
<1> SUFFICES ASSUME NEW p \in Requests, req'[p].pc # "idle"
             PROVE  IF req'[p].from = None THEN req'[p].thing \notin Issues ELSE req'[p].from.repo # req'[p].repo
  BY DEF LeadsAway, Active
<1>1. CASE Starts(p)
  BY <1>1 DEF Starts
<1>2. CASE CarriesOn(p)
  BY <1>2 DEF CarriesOn, Keeps, LeadsAway, Active
<1>3. QED
  BY <1>1, <1>2, Onward

LEMMA CountedStep ==
  ASSUME TypeInv, TypeInv', HandedCounted, Step
  PROVE  HandedCounted'
<1> SUFFICES ASSUME NEW p \in Requests, Handed(p)'
             PROVE  req'[p].number <= lastNumber'[req'[p].repo]
  BY DEF HandedCounted
<1>1. CarriesOn(p)
  BY Onward DEF Handed, Starts
<1>2. CASE TakesNumber(p)
  BY <1>2 DEF TakesNumber, Keeps
<1>3. CASE Handed(p) /\ req'[p].number = req[p].number
  <2>1. req[p].number <= lastNumber[req[p].repo] /\ req[p].number \in Nat /\ req[p].repo \in Repos
    BY <1>3, HandTypes DEF HandedCounted
  <2>2. req'[p].repo = req[p].repo
    BY <1>1 DEF CarriesOn, Keeps
  <2>3. QED
    BY <1>3, <2>1, <2>2, Past
<1>4. QED
  BY <1>1, <1>2, <1>3 DEF CarriesOn

LEMMA ApartStep ==
  ASSUME TypeInv, TypeInv', HandedCounted, HandedApart, Step
  PROVE  HandedApart'
<1>1. ASSUME NEW p \in Requests, Handed(p)'
      PROVE  TakesNumber(p) \/ (Handed(p) /\ To(p)' = To(p))
  <2>1. CarriesOn(p)
    BY <1>1, Onward DEF Handed, Starts
  <2>2. QED
    BY <1>1, <2>1 DEF CarriesOn, Keeps, To
<1>2. ASSUME NEW p \in Requests, NEW q \in Requests, TakesNumber(p), Handed(q)', p # q
      PROVE  To(p)' # To(q)'
  <2>1. req'[q] = req[q] /\ Handed(q)
    BY <1>2 DEF TakesNumber, Others, Handed
  <2>2. CASE req[q].repo = req[p].repo
    <3>1. req[q].number <= lastNumber[req[p].repo] /\ req[q].number \in Nat /\ req[p].repo \in Repos
      BY <2>1, <2>2, HandTypes DEF HandedCounted
    <3>2. lastNumber[req[p].repo] \in Nat /\ req'[p].number \in Nat
      <4>1. req' \in [Requests -> ReqStates]
        BY DEF TypeInv, TypeOK, ReqStates
      <4>2. QED
        BY <3>1, <4>1, NumberTypes, NumberBounds DEF ReqStates
    <3>3. lastNumber[req[p].repo] < req'[p].number
      BY <1>2 DEF TakesNumber
    <3>4. req'[p].number # req'[q].number
      BY <2>1, <3>1, <3>2, <3>3
    <3>5. QED
      BY <3>4 DEF To
  <2>3. CASE req[q].repo # req[p].repo
    BY <1>2, <2>1, <2>3 DEF TakesNumber, Keeps, To
  <2>4. QED
    BY <2>2, <2>3
<1>3. SUFFICES ASSUME NEW p \in Requests, NEW q \in Requests, Handed(p)', Handed(q)', p # q
               PROVE  To(p)' # To(q)'
  BY DEF HandedApart
<1>4. QED
  BY <1>1, <1>2, <1>3 DEF HandedApart

\* The rows of the issues: they stay, or one moves, is created or is deleted.
LEMMA Rows ==
  ASSUME Step
  PROVE  \/ Stay
         \/ \E q \in Requests : Moves(q)
         \/ \E t \in Issues, r \in Repos, n \in Numbers : Creates(t, r, n)
         \/ \E t \in Issues : Deletes(t)
BY DEF Step, Starts, Prepares, TakesNumber, Reports, Ends, Stay

LEMMA TanglesGrow == Step => tangled \subseteq tangled'
BY DEF Step, Starts, Prepares, TakesNumber, Moves, Reports, Ends, Creates, Deletes

LEMMA IssuesApartStep ==
  ASSUME IssuesApart, Step
  PROVE  IssuesApart'
<1>1. CASE Stay
  BY <1>1 DEF Stay, IssuesApart
<1>2. ASSUME NEW q \in Requests, Moves(q) PROVE IssuesApart'
  BY <1>2 DEF Moves, IssuesApart
<1>3. ASSUME NEW x \in Issues, NEW r \in Repos, NEW n \in Numbers, Creates(x, r, n) PROVE IssuesApart'
  <2> DEFINE here == [repo |-> r, number |-> n]
  <2>1. here.repo = r /\ here.number = n /\ here # None /\ n \in Nat
    BY PlaceTypes DEF Places, Numbers
  <2>2. place'[x] = here /\ \A u \in Issues \ {x} : place'[u] = place[u]
    BY <1>3 DEF Creates
  <2> HIDE DEF here
  <2>3. ASSUME NEW u \in Issues, place[u] = here PROVE FALSE
    <3>1. At(place[u], r) /\ place[u].number = n
      BY <2>1, <2>3 DEF At
    <3>2. n < n
      BY <1>3, <3>1 DEF Creates
    <3>3. QED
      BY <2>1, <3>2
  <2>4. QED
    BY <2>2, <2>3 DEF IssuesApart
<1>4. ASSUME NEW x \in Issues, Deletes(x) PROVE IssuesApart'
  BY <1>4 DEF Deletes, IssuesApart
<1>5. QED
  BY <1>1, <1>2, <1>3, <1>4, Rows

\* A new issue is not at the place of a number that was counted.
LEMMA NewIsAhead ==
  ASSUME TypeInv, NEW x \in Issues, NEW r \in Repos, NEW n \in Numbers, Creates(x, r, n),
         NEW p \in Places, p.number <= lastNumber[p.repo]
  PROVE  place'[x] # p
<1>1. place'[x] = [repo |-> r, number |-> n] /\ lastNumber[r] < n
  BY DEF Creates
<1>2. p.number \in Nat /\ p.repo \in Repos /\ lastNumber[p.repo] \in Nat /\ n \in Nat
  BY PlaceTypes, NumberTypes DEF Numbers
<1>3. [repo |-> r, number |-> n].repo = r /\ [repo |-> r, number |-> n].number = n
  OBVIOUS
<1>4. QED
  BY <1>1, <1>2, <1>3

LEMMA ArrivedStep ==
  ASSUME TypeInv, HandedCounted, HandedApart, ArrivedAlone, Step
  PROVE  ArrivedAlone'
<1> SUFFICES ASSUME NEW p \in Requests, Arrived(p)', NEW u \in Issues, place'[u] = To(p)'
             PROVE  u = req'[p].thing
  BY DEF ArrivedAlone
<1>1. CarriesOn(p)
  BY Onward DEF Arrived, Starts
<1>2. req'[p].thing = req[p].thing /\ req'[p].number = req[p].number
  BY <1>1 DEF CarriesOn, Keeps, Moves
<1>3. To(p)' = To(p)
  BY <1>1, <1>2 DEF CarriesOn, Keeps, To
<1>4. CASE Moves(p)
  BY <1>2, <1>3, <1>4 DEF Moves
<1>5. CASE Arrived(p)
  <2>1. Handed(p) /\ To(p) \in Places /\ To(p) # None
    BY <1>5, HandTypes, PlaceTypes
  <2>2. place'[u] = place[u] => u = req[p].thing
    BY <1>3, <1>5 DEF ArrivedAlone
  <2>3. CASE Stay
    BY <1>2, <2>2, <2>3 DEF Stay
  <2>4. ASSUME NEW q \in Requests, Moves(q) PROVE u = req[p].thing
    <3>1. Handed(q) /\ ~Arrived(q)
      BY <2>4 DEF Moves, Handed, Arrived
    <3>2. To(q) # To(p)
      BY <1>5, <2>1, <3>1 DEF HandedApart
    <3>3. QED
      BY <1>3, <2>2, <2>4, <3>2 DEF Moves
  <2>5. ASSUME NEW x \in Issues, NEW r \in Repos, NEW n \in Numbers, Creates(x, r, n) PROVE u = req[p].thing
    <3>1. To(p).number <= lastNumber[To(p).repo]
      BY <2>1 DEF HandedCounted, To
    <3>2. place'[x] # To(p)
      BY <2>1, <2>5, <3>1, NewIsAhead
    <3>3. QED
      BY <1>3, <2>2, <2>5, <3>2 DEF Creates
  <2>6. ASSUME NEW x \in Issues, Deletes(x) PROVE u = req[p].thing
    BY <1>3, <2>1, <2>2, <2>6 DEF Deletes
  <2>7. QED
    BY <1>2, <2>3, <2>4, <2>5, <2>6, Rows
<1>6. QED
  BY <1>1, <1>4, <1>5 DEF CarriesOn

LEMMA OneByOneStep ==
  ASSUME OneByOne, Step
  PROVE  OneByOne'
<1>1. ASSUME NEW p \in Requests, NEW q \in Requests, Starts(p), req'[q].pc # "idle", p # q,
             req'[p].thing = req'[q].thing, req'[p].thing \in Issues
      PROVE  req'[p].thing \in tangled'
  <2>1. req'[q] = req[q]
    BY <1>1 DEF Starts, Others
  <2>2. q \in Active
    BY <1>1, <2>1 DEF Active
  <2>3. QED
    BY <1>1, <2>1, <2>2 DEF Starts
<1>2. ASSUME NEW p \in Requests, NEW q \in Requests, CarriesOn(p), CarriesOn(q), p # q,
             req'[p].thing = req'[q].thing, req'[p].thing \in Issues
      PROVE  req'[p].thing \in tangled'
  <2>1. p \in Active /\ q \in Active /\ req'[p].thing = req[p].thing /\ req'[q].thing = req[q].thing
    BY <1>2 DEF CarriesOn, Keeps, Active
  <2>2. QED
    BY <1>2, <2>1, TanglesGrow DEF OneByOne
<1>3. SUFFICES ASSUME NEW p \in Requests, NEW q \in Requests, req'[p].pc # "idle", req'[q].pc # "idle", p # q,
                      req'[p].thing = req'[q].thing, req'[p].thing \in Issues
               PROVE  req'[p].thing \in tangled'
  BY DEF OneByOne, Active
<1>4. QED
  BY <1>1, <1>2, <1>3, Onward

LEMMA StillThereStep ==
  ASSUME TypeInv, OneByOne, StillThere, Step
  PROVE  StillThere'
<1> SUFFICES ASSUME NEW q \in Requests, req'[q].pc # "idle", req'[q].from # None, ~Arrived(q)',
                    req'[q].thing \notin tangled'
             PROVE  place'[req'[q].thing] \in {req'[q].from, None}
  BY DEF StillThere, Active
<1>1. CASE Starts(q)
  BY <1>1 DEF Starts
<1>2. CASE CarriesOn(q)
  <2>1. /\ q \in Active /\ ~Arrived(q) /\ req'[q].thing = req[q].thing /\ req'[q].from = req[q].from
        /\ req[q].thing \notin tangled
    BY <1>2, TanglesGrow DEF CarriesOn, Keeps, Active
  <2>2. req[q].thing \in Issues /\ place[req[q].thing] \in {req[q].from, None}
    BY <2>1, HandTypes DEF StillThere
  <2>3. CASE Stay
    BY <2>1, <2>2, <2>3 DEF Stay
  <2>4. ASSUME NEW p \in Requests, Moves(p) PROVE place'[req[q].thing] = place[req[q].thing]
    <3>1. p # q /\ p \in Active /\ req[p].thing \in Issues
      BY <2>4 DEF Moves, Arrived, Active
    <3>2. req[p].thing # req[q].thing
      BY <2>1, <2>2, <3>1 DEF OneByOne
    <3>3. QED
      BY <2>2, <2>4, <3>2 DEF Moves
  <2>5. ASSUME NEW x \in Issues, NEW r \in Repos, NEW n \in Numbers, Creates(x, r, n)
        PROVE  place'[req[q].thing] = place[req[q].thing]
    BY <2>1, <2>2, <2>5 DEF Creates
  <2>6. ASSUME NEW x \in Issues, Deletes(x) PROVE place'[req[q].thing] \in {place[req[q].thing], None}
    BY <2>2, <2>6 DEF Deletes
  <2>7. QED
    BY <2>1, <2>2, <2>3, <2>4, <2>5, <2>6, Rows
<1>3. QED
  BY <1>1, <1>2, Onward

(***************************************************************************)
(* What the stored moves become.                                           *)
(***************************************************************************)
Alike(m, n) == m.thing = n.thing /\ m.from = n.from /\ m.to = n.to

\* What the requests in qs leave unwritten is no longer due.
LEMMA LoseMoves ==
  ASSUME TypeInv, NEW qs \in SUBSET Requests, Lose(qs)
  PROVE  /\ \A m \in moves' : \E n \in moves : Alike(m, n) /\ (m.due => m = n)
         /\ \A n \in moves : \E m \in moves' : Alike(m, n) /\ (m.due => m = n)
         /\ \A m \in moves' : m.due => \A q \in qs : ~(req[q].pc = "out" /\ m.thing = req[q].thing /\ m.from = req[q].from)
<1> DEFINE Lost(m) == \E q \in qs : req[q].pc = "out" /\ m.thing = req[q].thing /\ m.from = req[q].from
           After(m) == [m EXCEPT !.due = m.due /\ ~Lost(m)]
<1>1. moves' = {After(m) : m \in moves}
  BY DEF Lose
<1>2. ASSUME NEW n \in moves
      PROVE  Alike(After(n), n) /\ (After(n).due => After(n) = n /\ ~Lost(n))
  <2>1. n \in Moved
    BY TypeParts DEF OtherPart
  <2>2. \A b \in BOOLEAN : LET m == [n EXCEPT !.due = n.due /\ b] IN Alike(m, n) /\ (m.due => m = n /\ b)
    BY <2>1 DEF Moved, Alike
  <2>3. (~Lost(n)) \in BOOLEAN
    OBVIOUS
  <2> HIDE DEF Lost
  <2>4. QED
    BY <2>2, <2>3
<1> HIDE DEF After
<1>3. \A n \in moves : After(n) \in moves'
  BY <1>1
<1>4. ASSUME NEW m \in moves' PROVE \E n \in moves : Alike(m, n) /\ (m.due => m = n /\ ~Lost(n))
  BY <1>1, <1>2
<1>5. QED
  BY <1>2, <1>3, <1>4

\* The move that a request stores.
LEMMA MoveMade ==
  ASSUME NEW q \in Requests, Moves(q)
  PROVE  \E m \in moves' : /\ moves' = moves \cup {m} /\ OwnMove(m, q)
                           /\ m.due => m.from.number <= lastNumber[m.from.repo]
<1> DEFINE due == req[q].from.number <= lastNumber[req[q].from.repo]
           m == [thing |-> req[q].thing, from |-> req[q].from, to |-> To(q), due |-> due]
<1>1. moves' = moves \cup {m}
  BY DEF Moves
<1>2. m.from = req[q].from /\ (m.due => due)
  OBVIOUS
<1>3. OwnMove(m, q)
  <2> HIDE DEF due
  <2>1. QED
    BY DEF OwnMove
<1>4. m.due => m.from.number <= lastNumber[m.from.repo]
  BY <1>2
<1> HIDE DEF m
<1>5. QED
  BY <1>1, <1>3, <1>4

\* The moves that a step leaves, and the one that it may add.
LEMMA MovesBefore ==
  ASSUME TypeInv, Step, NEW m \in moves'
  PROVE  \/ \E n \in moves : Alike(m, n) /\ (m.due => m = n)
         \/ \E q \in Requests : Moves(q) /\ OwnMove(m, q) /\ (m.due => m.from.number <= lastNumber[m.from.repo])
<1>1. CASE UNCHANGED moves
  BY <1>1 DEF Alike
<1>2. ASSUME NEW qs \in SUBSET Requests, Lose(qs) PROVE \E n \in moves : Alike(m, n) /\ (m.due => m = n)
  BY <1>2, LoseMoves
<1>3. ASSUME NEW q \in Requests, Moves(q), m \notin moves
      PROVE  OwnMove(m, q) /\ (m.due => m.from.number <= lastNumber[m.from.repo])
  BY <1>3, MoveMade
<1>4. ASSUME NEW q \in Requests, Reports(q) PROVE UNCHANGED moves \/ Lose({q})
  BY <1>4 DEF Reports
<1>5. ASSUME NEW qs \in SUBSET Requests, Ends(qs) PROVE UNCHANGED moves \/ Lose(qs)
  BY <1>5 DEF Ends
<1>6. CASE m \in moves
  BY <1>6 DEF Alike
<1>7. UNCHANGED moves \/ (\E q \in Requests : Moves(q)) \/ (\E qs \in SUBSET Requests : Lose(qs))
  <2>1. \A q \in Requests : {q} \in SUBSET Requests
    OBVIOUS
  <2>2. QED
    BY <1>4, <1>5, <2>1 DEF Step, Starts, Prepares, TakesNumber, Creates, Deletes
<1>8. QED
  BY <1>1, <1>2, <1>3, <1>6, <1>7

LEMMA MovesAfter ==
  ASSUME TypeInv, Step, NEW n \in moves
  PROVE  \E m \in moves' : Alike(m, n) /\ (m.due => m = n)
<1>1. CASE UNCHANGED moves
  BY <1>1 DEF Alike
<1>2. ASSUME NEW qs \in SUBSET Requests, Lose(qs) PROVE \E m \in moves' : Alike(m, n) /\ (m.due => m = n)
  BY <1>2, LoseMoves
<1>3. ASSUME NEW q \in Requests, Moves(q) PROVE n \in moves'
  BY <1>3 DEF Moves
<1>4. ASSUME NEW q \in Requests, Reports(q) PROVE UNCHANGED moves \/ Lose({q})
  BY <1>4 DEF Reports
<1>5. ASSUME NEW qs \in SUBSET Requests, Ends(qs) PROVE UNCHANGED moves \/ Lose(qs)
  BY <1>5 DEF Ends
<1>6. UNCHANGED moves \/ (\E q \in Requests : Moves(q)) \/ (\E qs \in SUBSET Requests : Lose(qs))
  <2>1. \A q \in Requests : {q} \in SUBSET Requests
    OBVIOUS
  <2>2. QED
    BY <1>4, <1>5, <2>1 DEF Step, Starts, Prepares, TakesNumber, Creates, Deletes
<1>7. QED
  BY <1>1, <1>2, <1>3, <1>6 DEF Alike

\* A place that is settled was settled before, and its moves were stored or are stored now.
LEMMA SettledBefore ==
  ASSUME TypeInv, Step, NEW p, Settled(p)'
  PROVE  /\ Settled(p)
         /\ \A m \in moves' : m.from = p => m \in moves \/ \E q \in Requests : Moves(q) /\ OwnMove(m, q)
<1>1. \A m \in moves' : m.from = p => m.due /\ m.thing \notin tangled'
  BY DEF Settled
<1>2. ASSUME NEW n \in moves, n.from = p PROVE n.due /\ n.thing \notin tangled
  <2>1. PICK m \in moves' : Alike(m, n) /\ (m.due => m = n)
    BY MovesAfter
  <2>2. m.from = p
    BY <1>2, <2>1 DEF Alike
  <2>3. QED
    BY <1>1, <2>1, <2>2, TanglesGrow
<1>3. ASSUME NEW m \in moves', m.from = p
      PROVE  m \in moves \/ \E q \in Requests : Moves(q) /\ OwnMove(m, q)
  BY <1>1, <1>3, MovesBefore
<1>4. QED
  BY <1>2, <1>3 DEF Settled

LEMMA MoveStoredStep ==
  ASSUME TypeInv, MoveIsStored, Step
  PROVE  MoveIsStored'
<1> SUFFICES ASSUME NEW p \in Requests, Arrived(p)'
             PROVE  \E m \in moves' : m.thing = req'[p].thing /\ m.from = req'[p].from /\ m.to = To(p)'
  BY DEF MoveIsStored, OwnMove
<1>1. CarriesOn(p)
  BY Onward DEF Arrived, Starts
<1>2. req'[p].thing = req[p].thing /\ req'[p].from = req[p].from /\ To(p)' = To(p)
  BY <1>1 DEF CarriesOn, Keeps, To, Moves
<1>3. CASE Moves(p)
  BY <1>2, <1>3, MoveMade DEF OwnMove
<1>4. CASE Arrived(p)
  <2>1. PICK n \in moves : OwnMove(n, p)
    BY <1>4 DEF MoveIsStored
  <2>2. PICK m \in moves' : Alike(m, n)
    BY MovesAfter
  <2>3. QED
    BY <1>2, <2>1, <2>2 DEF OwnMove, Alike
<1>5. QED
  BY <1>1, <1>3, <1>4 DEF CarriesOn

LEMMA CarryStep ==
  ASSUME TypeInv, TypeInv', CarryInv, Step
  PROVE  CarryInv'
BY AwayStep, CountedStep, ApartStep, IssuesApartStep, ArrivedStep, OneByOneStep, StillThereStep, MoveStoredStep
   DEF CarryInv

(***************************************************************************)
(* The places that were left.                                              *)
(***************************************************************************)
LEMMA MoveTypes ==
  ASSUME TypeInv, NEW m \in moves
  PROVE  m.thing \in Issues /\ m.from \in Places /\ m.to \in Places
BY TypeParts DEF OtherPart, Moved

LEMMA LeftCountedStep ==
  ASSUME TypeInv, TypeInv', LeftCounted, Step
  PROVE  LeftCounted'
<1> SUFFICES ASSUME NEW m \in moves', m.due PROVE m.from.number <= lastNumber'[m.from.repo]
  BY DEF LeftCounted
<1>1. m.from \in Places /\ m.from.number \in Nat /\ m.from.repo \in Repos
  <2>1. moves' \subseteq Moved
    BY DEF TypeInv, TypeOK, Moved
  <2>2. QED
    BY <2>1, PlaceTypes DEF Moved
<1>2. m.from.number <= lastNumber[m.from.repo]
  BY MovesBefore DEF LeftCounted
<1>3. QED
  BY <1>1, <1>2, Past

\* The place that a move leaves, when nothing tangled it.
LEMMA Leaving ==
  ASSUME TypeInv, CarryInv, NEW q \in Requests, Moves(q), req[q].thing \notin tangled
  PROVE  /\ place[req[q].thing] = req[q].from /\ To(q) # req[q].from
         /\ \A t \in Issues : place'[t] # req[q].from
         /\ \A p \in Requests : Arrived(p) => To(p) # req[q].from
<1>1. /\ q \in Active /\ ~Arrived(q) /\ req[q].from \in Places /\ req[q].from # None
      /\ req[q].thing \in Issues /\ place[req[q].thing] # None
  BY PlaceTypes DEF Moves, Active, Arrived
<1>2. place[req[q].thing] = req[q].from
  BY <1>1 DEF CarryInv, StillThere
<1>3. To(q) # req[q].from
  BY <1>1, <1>2 DEF Moves
<1>4. \A t \in Issues : place'[t] # req[q].from
  BY <1>1, <1>2, <1>3 DEF CarryInv, IssuesApart, Moves
<1>5. ASSUME NEW p \in Requests, Arrived(p), To(p) = req[q].from PROVE FALSE
  <2>1. req[q].thing = req[p].thing
    BY <1>1, <1>2, <1>5 DEF CarryInv, ArrivedAlone
  <2>2. p \in Active /\ p # q
    BY <1>1, <1>5 DEF Active, Arrived
  <2>3. QED
    BY <1>1, <2>1, <2>2 DEF CarryInv, OneByOne
<1>6. QED
  BY <1>2, <1>3, <1>4, <1>5

LEMMA LeftEmptyStep ==
  ASSUME TypeInv, CarryInv, LeftInv, Step
  PROVE  LeftEmpty'
<1> SUFFICES ASSUME NEW m \in moves', Settled(m.from)', NEW t \in Issues, place'[t] = m.from PROVE FALSE
  BY DEF LeftEmpty
<1>1. Settled(m.from) /\ m.due /\ m.thing \notin tangled
  BY SettledBefore, TanglesGrow DEF Settled
<1>2. ASSUME NEW q \in Requests, Moves(q), OwnMove(m, q) PROVE FALSE
  BY <1>1, <1>2, Leaving DEF OwnMove
<1>3. CASE m \in moves
  <2>1. m.from \in Places /\ m.from # None
    BY <1>3, MoveTypes, PlaceTypes
  <2>2. \A u \in Issues : place[u] # m.from
    BY <1>1, <1>3 DEF LeftInv, LeftEmpty
  <2>3. CASE Stay
    BY <2>2, <2>3 DEF Stay
  <2>4. ASSUME NEW q \in Requests, Moves(q) PROVE FALSE
    <3>1. To(q) # m.from
      BY <1>1, <1>3, <2>4 DEF LeftInv, LeftUnclaimed, Moves, Handed
    <3>2. QED
      BY <2>2, <2>4, <3>1 DEF Moves
  <2>5. ASSUME NEW x \in Issues, NEW r \in Repos, NEW n \in Numbers, Creates(x, r, n) PROVE FALSE
    <3>1. m.from.number <= lastNumber[m.from.repo]
      BY <1>1, <1>3 DEF LeftInv, LeftCounted
    <3>2. place'[x] # m.from
      BY <2>1, <2>5, <3>1, NewIsAhead
    <3>3. QED
      BY <2>2, <2>5, <3>2 DEF Creates
  <2>6. ASSUME NEW x \in Issues, Deletes(x) PROVE FALSE
    BY <2>1, <2>2, <2>6 DEF Deletes
  <2>7. QED
    BY <2>3, <2>4, <2>5, <2>6, Rows
<1>4. QED
  BY <1>2, <1>3, SettledBefore

LEMMA LeftUnclaimedStep ==
  ASSUME TypeInv, TypeInv', NumberInv, CarryInv, LeftInv, Step
  PROVE  LeftUnclaimed'
<1> SUFFICES ASSUME NEW m \in moves', Settled(m.from)', NEW p \in Requests, Handed(p)', To(p)' = m.from PROVE FALSE
  BY DEF LeftUnclaimed
<1>1. Settled(m.from) /\ m.due /\ m.thing \notin tangled
  BY SettledBefore, TanglesGrow DEF Settled
<1>2. CarriesOn(p)
  BY Onward DEF Handed, Starts
<1>3. Handed(p) => To(p)' = To(p)
  <2>1. TakesNumber(p) => ~Handed(p)
    BY DEF TakesNumber, Handed
  <2>2. QED
    BY <1>2, <2>1 DEF CarriesOn, Keeps, To
<1>4. ASSUME NEW q \in Requests, Moves(q), OwnMove(m, q) PROVE FALSE
  <2>1. Handed(p) /\ To(p) = m.from
    <3>1. p # q => req'[p] = req[p]
      BY <1>4 DEF Moves, Others
    <3>2. Handed(p)
      BY <1>4, <3>1 DEF Moves, Handed
    <3>3. QED
      BY <1>3, <3>2
  <2>2. To(p) # m.from
    <3>1. place[req[q].thing] = m.from /\ req[q].thing \in Things /\ m.from \in Places
      BY <1>1, <1>4, Leaving DEF OwnMove, Moves, Things
    <3>2. CASE req[p].pc = "store"
      <4>1. At(place[req[q].thing], m.from.repo)
        BY <3>1, PlaceTypes DEF At
      <4>2. ~(req[p].repo = m.from.repo /\ req[p].number = m.from.number)
        BY <3>1, <3>2, <4>1 DEF NumberInv, InHand
      <4>3. QED
        BY <4>2 DEF To
    <3>3. CASE Arrived(p)
      BY <1>1, <1>4, <3>3, Leaving DEF OwnMove
    <3>4. QED
      BY <2>1, <3>2, <3>3 DEF Handed, Arrived
  <2>3. QED
    BY <2>1, <2>2
<1>5. CASE m \in moves
  <2>1. CASE Handed(p)
    BY <1>1, <1>3, <1>5, <2>1 DEF LeftInv, LeftUnclaimed
  <2>2. CASE TakesNumber(p)
    <3>1. m.from.number <= lastNumber[m.from.repo] /\ m.from \in Places
      BY <1>1, <1>5, MoveTypes DEF LeftInv, LeftCounted
    <3>2. m.from.number \in Nat /\ m.from.repo \in Repos /\ lastNumber[m.from.repo] \in Nat
      BY <3>1, PlaceTypes, NumberTypes
    <3>3. req'[p].repo = m.from.repo /\ req'[p].number = m.from.number
      BY DEF To
    <3>4. lastNumber[m.from.repo] < m.from.number
      BY <2>2, <3>3 DEF TakesNumber, Keeps
    <3>5. QED
      BY <3>1, <3>2, <3>4
  <2>3. QED
    BY <1>2, <2>1, <2>2 DEF CarriesOn
<1>6. QED
  BY <1>4, <1>5, SettledBefore

LEMMA LeftOnceStep ==
  ASSUME TypeInv, TypeInv', CarryInv, LeftInv, Step
  PROVE  LeftOnce'
<1> SUFFICES ASSUME NEW m \in moves', NEW n \in moves', Settled(m.from)', n.from = m.from PROVE n = m
  BY DEF LeftOnce
<1>1. Settled(m.from) /\ Settled(n.from)'
  BY SettledBefore
<1>2. CASE m \in moves /\ n \in moves
  BY <1>1, <1>2 DEF LeftInv, LeftOnce
<1>3. ASSUME NEW k \in moves, NEW j \in moves', NEW q \in Requests, Moves(q), OwnMove(j, q),
             k.from = m.from, j.from = m.from
      PROVE  FALSE
  <2>1. req[q].thing \in Issues /\ req[q].thing \notin tangled /\ req[q].from = m.from
    BY <1>3, TanglesGrow DEF Settled, OwnMove, Moves
  <2>2. place[req[q].thing] = m.from
    BY <1>3, <2>1, Leaving
  <2>3. QED
    BY <1>1, <1>3, <2>1, <2>2 DEF LeftInv, LeftEmpty
<1>4. ASSUME NEW p \in Requests, NEW q \in Requests, Moves(p), OwnMove(m, p), Moves(q), OwnMove(n, q)
      PROVE  n = m
  <2>1. p = q
    BY <1>4 DEF Moves, Others
  <2>2. m.due /\ n.due /\ Alike(m, n)
    BY <1>4, <2>1 DEF Settled, OwnMove, Alike
  <2>3. m \in Moved /\ n \in Moved
    BY DEF TypeInv, TypeOK, Moved
  <2>4. QED
    BY <2>2, <2>3 DEF Moved, Alike
<1>5. QED
  BY <1>1, <1>2, <1>3, <1>4, SettledBefore

LEMMA LatestAppended ==
  ASSUME events \in Seq(Events), NEW p \in Places, NEW s \in Places, events' = Append(events, [at |-> p, to |-> s])
  PROVE  Latest(p, s)'
<1> DEFINE e == [at |-> p, to |-> s]
<1>1. e \in Events
  BY DEF Events
<1>2. Len(events) \in Nat /\ Len(events') = Len(events) + 1 /\ events'[Len(events) + 1] = e
  BY <1>1, AppendProperties, LenProperties
<1> HIDE DEF e
<1>3. Len(events) + 1 \in 1..Len(events') /\ (Len(events) + 1 + 1)..Len(events') = {}
  BY <1>2
<1>4. QED
  BY <1>2, <1>3 DEF Latest, e

LEMMA LatestKept ==
  ASSUME events \in Seq(Events), NEW p, NEW s, NEW e \in Events, events' = Append(events, e), e.at # p, Latest(p, s)
  PROVE  Latest(p, s)'
<1>1. /\ Len(events) \in Nat /\ Len(events') = Len(events) + 1 /\ events'[Len(events) + 1] = e
      /\ \A i \in 1..Len(events) : events'[i] = events[i]
  BY AppendProperties, LenProperties
<1>2. PICK i \in 1..Len(events) :
        events[i] = [at |-> p, to |-> s] /\ \A j \in (i + 1)..Len(events) : events[j].at # p
  BY DEF Latest
<1>3. i \in 1..Len(events') /\ events'[i] = [at |-> p, to |-> s]
  BY <1>1, <1>2
<1>4. ASSUME NEW j \in (i + 1)..Len(events') PROVE events'[j].at # p
  <2>1. CASE j = Len(events) + 1
    BY <1>1, <2>1
  <2>2. CASE j # Len(events) + 1
    <3>1. j \in (i + 1)..Len(events) /\ j \in 1..Len(events)
      BY <1>1, <2>2
    <3>2. QED
      BY <1>1, <1>2, <3>1
  <2>3. QED
    BY <2>1, <2>2
<1>5. QED
  BY <1>3, <1>4 DEF Latest

LEMMA LeftPointingStep ==
  ASSUME TypeInv, CarryInv, LeftInv, Step
  PROVE  LeftPointing'
<1> SUFFICES ASSUME NEW m \in moves', Settled(m.from)'
             PROVE  Writing(m)' \/ Latest(m.from, m.to)'
  BY DEF LeftPointing
<1>1. Settled(m.from) /\ m.due
  BY SettledBefore DEF Settled
<1>2. ASSUME NEW q \in Requests, Moves(q), OwnMove(m, q) PROVE Writing(m)'
  <2>1. req'[q].thing = req[q].thing /\ req'[q].from = req[q].from /\ To(q)' = To(q) /\ req'[q].pc = "out"
    BY <1>2 DEF Moves, Keeps, To
  <2>2. m.thing = req'[q].thing /\ m.from = req'[q].from /\ m.to = To(q)'
    BY <1>2, <2>1 DEF OwnMove
  <2>3. QED
    BY <2>1, <2>2 DEF Writing, OwnMove
<1>3. CASE m \in moves
  <2>1. m.thing \in Issues /\ m.from \in Places /\ m.to \in Places /\ events \in Seq(Events)
    BY <1>3, MoveTypes, TypeParts DEF OtherPart
  <2>2. ASSUME NEW q \in Requests, Arrived(q), req[q].from = m.from PROVE OwnMove(m, q)
    <3>1. PICK k \in moves : OwnMove(k, q)
      BY <2>2 DEF CarryInv, MoveIsStored
    <3>2. k = m
      BY <1>1, <1>3, <2>2, <3>1 DEF LeftInv, LeftOnce, OwnMove
    <3>3. QED
      BY <3>1, <3>2
  <2>3. ASSUME NEW q \in Requests, Reports(q), ~UNCHANGED events
        PROVE  IF req[q].from = m.from THEN Latest(m.from, m.to)'
                                       ELSE Latest(m.from, m.to) => Latest(m.from, m.to)'
    <3>1. Arrived(q) /\ events' = Append(events, [at |-> req[q].from, to |-> To(q)])
      BY <2>3 DEF Reports, Arrived
    <3>2. req[q].from \in Places /\ To(q) \in Places
      BY <3>1, HandTypes
    <3>3. CASE req[q].from = m.from
      <4>1. To(q) = m.to
        BY <2>2, <3>1, <3>3 DEF OwnMove
      <4>2. QED
        BY <2>1, <3>1, <3>3, <4>1, LatestAppended
    <3>4. CASE req[q].from # m.from
      <4> DEFINE e == [at |-> req[q].from, to |-> To(q)]
      <4>1. e \in Events /\ e.at # m.from
        BY <3>2, <3>4 DEF Events
      <4> HIDE DEF e
      <4>2. events' = Append(events, e)
        BY <3>1 DEF e
      <4>3. QED
        BY <2>1, <3>4, <4>1, <4>2, LatestKept
    <3>5. QED
      BY <3>3, <3>4
  <2>4. ASSUME NEW qs \in SUBSET Requests, Ends(qs), ~UNCHANGED events, Latest(m.from, m.to)
        PROVE  Latest(m.from, m.to)'
    <3>1. PICK q \in qs : req[q].pc = "in" /\ events' = Append(events, [at |-> To(q), to |-> None])
      BY <2>4 DEF Ends
    <3>2. To(q) # m.from /\ To(q) \in Places
      BY <1>1, <1>3, <3>1, HandTypes DEF LeftInv, LeftUnclaimed, Handed
    <3> DEFINE e == [at |-> To(q), to |-> None]
    <3>3. e \in Events /\ e.at # m.from
      BY <3>2 DEF Events
    <3> HIDE DEF e
    <3>4. events' = Append(events, e)
      BY <3>1 DEF e
    <3>5. QED
      BY <2>1, <2>4, <3>3, <3>4, LatestKept
  <2>5. CASE Latest(m.from, m.to)
    <3>1. UNCHANGED events => Latest(m.from, m.to)'
      BY <2>5 DEF Latest
    <3>2. QED
      BY <2>3, <2>4, <2>5, <3>1 DEF Step, Starts, Prepares, TakesNumber, Moves, Creates, Deletes
  <2>6. CASE Writing(m)
    <3>1. PICK q \in Requests : req[q].pc = "out" /\ OwnMove(m, q)
      BY <2>6 DEF Writing
    <3>2. CASE req'[q] = req[q]
      <4>1. To(q)' = To(q)
        BY <3>2 DEF To
      <4>2. m.thing = req'[q].thing /\ m.from = req'[q].from /\ m.to = To(q)'
        BY <3>1, <3>2, <4>1 DEF OwnMove
      <4>3. QED
        BY <3>1, <3>2, <4>2 DEF Writing, OwnMove
    <3>3. CASE Reports(q)
      <4>1. CASE ~UNCHANGED events
        BY <2>3, <3>1, <3>3, <4>1 DEF OwnMove
      <4>2. CASE UNCHANGED events
        <5>1. Lose({q})
          <6>1. Append(events, [at |-> req[q].from, to |-> To(q)]) # events
            <7>1. [at |-> req[q].from, to |-> To(q)] \in Events
              BY <3>1, HandTypes DEF Arrived, Events
            <7>2. QED
              BY <2>1, <7>1, AppendProperties, LenProperties
          <6>2. QED
            BY <3>3, <4>2, <6>1 DEF Reports
        <5>2. {q} \in SUBSET Requests
          OBVIOUS
        <5>3. QED
          BY <1>1, <3>1, <5>1, <5>2, LoseMoves DEF OwnMove
      <4>3. QED
        BY <4>1, <4>2
    <3>4. ASSUME NEW qs \in SUBSET Requests, Ends(qs), q \in qs PROVE FALSE
      <4>1. Lose(qs)
        BY <3>1, <3>4 DEF Ends, Arrived
      <4>2. QED
        BY <1>1, <3>1, <3>4, <4>1, LoseMoves DEF OwnMove
    <3>5. \/ req'[q] = req[q] \/ Reports(q) \/ \E qs \in SUBSET Requests : Ends(qs) /\ q \in qs
      BY <3>1 DEF Step, Starts, Prepares, TakesNumber, Moves, Reports, Ends, Creates, Deletes, Others
    <3>6. QED
      BY <3>2, <3>3, <3>4, <3>5
  <2>7. QED
    BY <1>1, <1>3, <2>5, <2>6 DEF LeftInv, LeftPointing
<1>4. QED
  BY <1>2, <1>3, SettledBefore

LEMMA PointerInit == Init => CarryInv /\ LeftInv
<1> SUFFICES ASSUME Init PROVE CarryInv /\ LeftInv
  OBVIOUS
<1>1. \A q \in Requests : req[q].pc = "idle"
  BY IdleState DEF Init
<1>2. moves = {} /\ IssuesApart
  BY DEF Init, IssuesApart
<1>3. Active = {} /\ \A q \in Requests : ~Handed(q) /\ ~Arrived(q)
  BY <1>1 DEF Active, Handed, Arrived
<1>4. CarryInv
  BY <1>2, <1>3 DEF CarryInv, LeadsAway, HandedCounted, HandedApart, ArrivedAlone, OneByOne, StillThere, MoveIsStored
<1>5. LeftInv
  BY <1>2 DEF LeftInv, LeftCounted, LeftEmpty, LeftUnclaimed, LeftOnce, LeftPointing
<1>6. QED
  BY <1>4, <1>5

LEMMA PointerStep == PointerInv /\ [Next]_vars => PointerInv'
<1> SUFFICES ASSUME PointerInv, [Next]_vars PROVE PointerInv'
  OBVIOUS
<1>1. IInv'
  BY Steps, QuietStep, ReadStep, RaiseStep, IncrementStep, StoreStep, CreateStep, DeleteStep DEF PointerInv, IInv
<1>2. TypeInv /\ TypeInv' /\ NumberInv /\ CarryInv /\ LeftInv
  BY <1>1 DEF PointerInv, IInv
<1>3. Step
  BY <1>2, Classes DEF Step, CarryInv
<1>4. CarryInv'
  BY <1>2, <1>3, CarryStep
<1>5. LeftInv'
  BY <1>2, <1>3, LeftCountedStep, LeftEmptyStep, LeftUnclaimedStep, LeftOnceStep, LeftPointingStep DEF LeftInv
<1>6. QED
  BY <1>1, <1>4, <1>5 DEF PointerInv

\* issues.ts, GET .../issues/:number answering 410: the old address of a transferred issue
\* leads to where the transfer took it, when the events of the move are written, nothing
\* tangled it and the counter was past its number: no issue and no number in hand comes
\* back there, and no later event hides the pointer, however requests interleave or crash.
THEOREM OldUrlsPoint == Spec => []OldUrlPointsUnlessTangled
<1>1. Init => PointerInv
  BY TypeInit, NumberInit, PointerInit DEF PointerInv, IInv
<1>2. PointerInv => OldUrlPointsUnlessTangled
  <2> SUFFICES ASSUME PointerInv, NEW m \in moves, Settled(m.from), Announced(m) PROVE PointsTo(m.from, m.to)
    BY DEF OldUrlPointsUnlessTangled
  <2>1. ~Writing(m)
    BY DEF Announced, Writing, OwnMove, Active
  <2>2. Latest(m.from, m.to) /\ \A t \in Issues : place[t] # m.from
    BY <2>1 DEF PointerInv, LeftInv, LeftPointing, LeftEmpty
  <2>3. QED
    BY <2>2 DEF PointsTo, Latest
<1>3. QED
  BY <1>1, <1>2, PointerStep, PTL DEF Spec

=============================================================================

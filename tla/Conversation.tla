---------------------------- MODULE Conversation ----------------------------
(***************************************************************************)
(* One issue, changed by quick actions in comments and by the REST         *)
(* endpoints, and its timeline.  A comment's commands work on a copy of    *)
(* the issue that was read before the first of them; every change is       *)
(* written first and told to the timeline afterwards.                      *)
(***************************************************************************)
EXTENDS Handlers, Sequences

CONSTANTS
  Labels,
  CommandLists,    \* the lists of commands a comment may hold
  MaxSpent     \* bound: minutes

VARIABLES
  field,       \* of the issue: state, assignee (title and milestone change alike)
  labels,      \* IssueLabel rows
  spent,       \* spentMinutes
  told,        \* what the last event of the timeline says of each field and label
  deed,        \* requests: the commands left, the copy, the events to record
  misses,      \* bound
  logged,      \* history: time as it was logged, change by change
  raced,       \* history: what two requests changed at once
  untold       \* history: what an event was lost of

issueVars == <<field, labels, spent, told, deed, misses, logged, raced, untold>>

Fields == {"state", "assignee"}
Values == [state |-> {"open", "closed"}, assignee |-> {"nobody", "somebody"}]
Set(f, to) == [op |-> "set", of |-> f, to |-> to, minutes |-> 0]
Label(l) == [op |-> "label", of |-> l, to |-> "on", minutes |-> 0]
Unlabel(l) == [op |-> "label", of |-> l, to |-> "off", minutes |-> 0]
Spend(sign, n) == [op |-> "spend", of |-> None, to |-> sign, minutes |-> n]
Commands == (UNION {{Set(f, to) : to \in Values[f]} : f \in Fields})
       \cup {Label(l) : l \in Labels} \cup {Unlabel(l) : l \in Labels}
       \cup {Spend(sign, n) : sign \in {"+", "-"}, n \in 0..MaxSpent}

ASSUME SpentBound == MaxSpent \in Nat \ {0}
ASSUME ListsHoldCommands == CommandLists \subseteq Seq(Commands)
\* What a history names is one thing: a field, a label or the time.
ASSUME NamesApart == Labels \cap (Fields \cup {"spent"}) = {}

Unread == [pc |-> "new", plan |-> <<>>, copy |-> None, time |-> 0, seen |-> None, owed |-> <<>>]
Pending(q) == {deed[q].owed[i].of : i \in 1..Len(deed[q].owed)}
PendingElsewhere(q, x) == \E p \in Requests \ {q} : x \in Pending(p)
Logged(total, c) == IF c.to = "+" THEN total + c.minutes ELSE IF total > c.minutes THEN total - c.minutes ELSE 0

IssueTypeOK ==
  /\ \A f \in Fields : field[f] \in Values[f] /\ told[f] \in Values[f]
  /\ labels \subseteq Labels /\ \A l \in Labels : told[l] \in {"on", "off"}
  /\ spent \in 0..MaxSpent /\ logged \in 0..MaxSpent
  /\ \A q \in Requests : /\ deed[q].pc \in {"new", "patch", "run", "done"}
                         /\ \A i \in 1..Len(deed[q].plan) : deed[q].plan[i] \in Commands
  /\ misses \in 0..MaxFaults
  /\ raced \subseteq Fields \cup Labels \cup {"spent"} /\ untold \subseteq Fields \cup Labels

IssueInit ==
  /\ field = [state |-> "open", assignee |-> "nobody"] /\ labels = {} /\ spent = 0
  /\ told = [x \in Fields \cup Labels |-> IF x \in Labels THEN "off" ELSE field[x]]
  /\ deed = [q \in Requests |-> Unread]
  /\ misses = 0 /\ logged = 0 /\ raced = {} /\ untold = {}

Reads(q, pc, plan) ==
  /\ deed[q].pc = "new"
  /\ deed' = [deed EXCEPT ![q] = [Unread EXCEPT !.pc = pc, !.plan = plan, !.copy = field, !.time = spent]]
  /\ UNCHANGED <<field, labels, spent, told, misses, logged, raced, untold>>

-----------------------------------------------------------------------------
(***************************************************************************)
(* Comments: each command against the working copy, one after another      *)
(***************************************************************************)
PostComment(q) == \E plan \in CommandLists : Reads(q, "run", plan)

Next1(q) == Head(deed[q].plan)
Turn(q, op) == deed[q].pc = "run" /\ deed[q].owed = <<>> /\ deed[q].plan # <<>> /\ Next1(q).op = op
Moves(q, d) == deed' = [deed EXCEPT ![q] = [d EXCEPT !.plan = Tail(@)]]

ApplyField(q) == LET c == Next1(q)  d == deed[q] IN
  /\ Turn(q, "set")
  /\ IF d.copy[c.of] = c.to THEN Moves(q, d) /\ UNCHANGED <<field, raced>>
     ELSE /\ field' = [field EXCEPT ![c.of] = c.to]
          /\ Moves(q, [d EXCEPT !.copy[c.of] = c.to, !.owed = <<c>>])
          /\ raced' = IF field[c.of] # d.copy[c.of] \/ PendingElsewhere(q, c.of) THEN raced \cup {c.of} ELSE raced
  /\ UNCHANGED <<labels, spent, told, misses, logged, untold>>

\* The labels of the issue are read when a first command needs them.
LoadAppliedLabels(q) ==
  /\ Turn(q, "label") /\ deed[q].seen = None
  /\ deed' = [deed EXCEPT ![q].seen = labels]
  /\ UNCHANGED <<field, labels, spent, told, misses, logged, raced, untold>>

\* A row that is there already, or gone by now, makes the write fail and the command be rejected.
ApplyLabel(q) == LET c == Next1(q)  d == deed[q] IN
  /\ Turn(q, "label") /\ d.seen # None
  /\ IF (c.of \in d.seen) = (c.to = "on") \/ (c.of \in labels) = (c.to = "on") THEN Moves(q, d) /\ UNCHANGED <<labels, raced>>
     ELSE /\ labels' = IF c.to = "on" THEN labels \cup {c.of} ELSE labels \ {c.of}
          /\ Moves(q, [d EXCEPT !.seen = labels', !.owed = <<c>>])
          /\ raced' = IF PendingElsewhere(q, c.of) THEN raced \cup {c.of} ELSE raced
  /\ UNCHANGED <<field, spent, told, misses, logged, untold>>

\* The total is written, not the change.
ApplySpend(q) == LET c == Next1(q)  d == deed[q] IN
  /\ Turn(q, "spend") /\ Logged(d.time, c) <= MaxSpent /\ Logged(logged, c) <= MaxSpent
  /\ spent' = Logged(d.time, c) /\ logged' = Logged(logged, c)
  /\ Moves(q, [d EXCEPT !.time = spent'])
  /\ raced' = IF spent # d.time THEN raced \cup {"spent"} ELSE raced
  /\ UNCHANGED <<field, labels, told, misses, untold>>

-----------------------------------------------------------------------------
(***************************************************************************)
(* The endpoints                                                           *)
(***************************************************************************)
Patches == {<<Set("state", s)>> : s \in Values.state} \cup {<<Set("assignee", a)>> : a \in Values.assignee}
      \cup {<<Set("state", s), Set("assignee", a)>> : s \in Values.state, a \in Values.assignee}

PatchIssue(q) == \E plan \in Patches : Reads(q, "patch", plan)

Given(plan) == {plan[i].of : i \in 1..Len(plan)}
GivenTo(plan, f) == plan[CHOOSE i \in 1..Len(plan) : plan[i].of = f].to

\* What a PATCH changed, compared with the issue as it was first read.
ChangeOf(plan, old, f) ==
  IF f \in Given(plan) /\ old[f] # GivenTo(plan, f) THEN <<Set(f, GivenTo(plan, f))>> ELSE <<>>
\* mutant: reopening is not told
WithoutReopening(plan, old) ==
  (IF old.state = "closed" THEN <<>> ELSE ChangeOf(plan, old, "state")) \o ChangeOf(plan, old, "assignee")
Changed(plan, old) == ChangeOf(plan, old, "state") \o ChangeOf(plan, old, "assignee")

\* All fields at once, then an event for each that changed.
WritePatch(q) == LET d == deed[q]  given == Given(d.plan) IN
  /\ d.pc = "patch"
  /\ field' = [f \in Fields |-> IF f \in given THEN GivenTo(d.plan, f) ELSE field[f]]
  /\ deed' = [deed EXCEPT ![q] = [d EXCEPT !.pc = "run", !.plan = <<>>, !.owed = Changed(d.plan, d.copy)]]
  /\ raced' = raced \cup {f \in given : field[f] # d.copy[f] \/ PendingElsewhere(q, f)}
  /\ UNCHANGED <<labels, spent, told, misses, logged, untold>>

Relabels(q, c) ==
  /\ deed[q].pc = "new" /\ (c.of \in labels) # (c.to = "on")
  /\ labels' = IF c.to = "on" THEN labels \cup {c.of} ELSE labels \ {c.of}
  /\ deed' = [deed EXCEPT ![q] = [Unread EXCEPT !.pc = "run", !.owed = <<c>>]]
  /\ raced' = IF PendingElsewhere(q, c.of) THEN raced \cup {c.of} ELSE raced
  /\ UNCHANGED <<field, spent, told, misses, logged, untold>>

\* POST and DELETE .../labels: the row is created or deleted, or the request fails.
PostLabel(q) == \E l \in Labels : Relabels(q, Label(l))
DeleteLabel(q) == \E l \in Labels : Relabels(q, Unlabel(l))

\* PUT .../spent: a total, whatever it was.
PutSpent(q) ==
  /\ deed[q].pc = "new" /\ deed' = [deed EXCEPT ![q].pc = "done"]
  /\ \E n \in 0..1 : spent' = n /\ logged' = n
  /\ UNCHANGED <<field, labels, told, misses, raced, untold>>

-----------------------------------------------------------------------------
\* recordEvent: its failure is logged, or rejects a command whose change stays.
Tell(q) == LET e == Head(deed[q].owed) IN
  /\ deed[q].owed # <<>>
  /\ deed' = [deed EXCEPT ![q].owed = Tail(@)]
  /\ \/ told' = [told EXCEPT ![e.of] = e.to] /\ UNCHANGED <<misses, untold>>
     \/ /\ misses < MaxFaults /\ misses' = misses + 1
        /\ untold' = untold \cup {e.of} /\ UNCHANGED told
  /\ UNCHANGED <<field, labels, spent, logged, raced>>

RespondToComment(q) ==
  /\ deed[q].pc = "run" /\ deed[q].plan = <<>> /\ deed[q].owed = <<>>
  /\ deed' = [deed EXCEPT ![q] = [Unread EXCEPT !.pc = "done"]]
  /\ UNCHANGED <<field, labels, spent, told, misses, logged, raced, untold>>

\* The process ends: what is not written yet is not written, what is not told is not told.
RestartConversation ==
  /\ misses < MaxFaults /\ misses' = misses + 1
  /\ \E q \in Requests : deed[q].pc \in {"patch", "run"}
  /\ untold' = untold \cup UNION {Pending(q) : q \in Requests}
  /\ deed' = [q \in Requests |-> IF deed[q].pc = "new" THEN Unread ELSE [Unread EXCEPT !.pc = "done"]]
  /\ UNCHANGED <<field, labels, spent, told, logged, raced>>

IssueNext ==
  \/ \E q \in Requests :
       \/ PostComment(q) \/ ApplyField(q) \/ LoadAppliedLabels(q) \/ ApplyLabel(q) \/ ApplySpend(q)
       \/ PatchIssue(q) \/ WritePatch(q) \/ PostLabel(q) \/ DeleteLabel(q) \/ PutSpent(q) \/ Tell(q) \/ RespondToComment(q)
  \/ RestartConversation

IssueSpec == IssueInit /\ [][IssueNext]_issueVars

-----------------------------------------------------------------------------
(***************************************************************************)
(* The issue is what its history says.  Its timeline, read to the end,     *)
(* tells its state: the last event about a field or a label says what the  *)
(* row says, once nothing is still to be told of it; the exceptions are    *)
(* events that were lost, and what two requests changed at once.  The time *)
(* spent is what was logged, command after command, cut at zero each time; *)
(* unless a command wrote a total it computed from an old one.             *)
(***************************************************************************)
TimelineTellsState ==
  \A x \in (Fields \cup Labels) \ (raced \cup untold) :
    (\A q \in Requests : x \notin Pending(q)) =>
      IF x \in Labels THEN (told[x] = "on") = (x \in labels) ELSE told[x] = field[x]
SpentIsWhatWasLogged == "spent" \notin raced => spent = logged
IssueIsItsHistory == TimelineTellsState /\ SpentIsWhatWasLogged
=============================================================================

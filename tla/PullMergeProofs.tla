-------------------------- MODULE PullMergeProofs --------------------------
(***************************************************************************)
(* Theorems about PullMerge: however many merges, evaluations, edits,      *)
(* reviewers and versions there are, whatever the rules of the target      *)
(* branch and for every bound.                                             *)
(***************************************************************************)
EXTENDS PullMerge, SequenceTheorems, FiniteSetTheorems, TLAPS

CallStates ==
  [pc: Pcs, kind: {"merge", "resolve", "auto", None}, method: Methods \cup {"merge", None},
   override: BOOLEAN, seen: Versions \cup {None}, range: Versions \cup {None},
   tip: 0..MaxTip, work: Versions \cup {None}, sha: 0..MaxTip]
EditStates == [op: Edits \cup {None}, arg: Methods \cup {None}, open: BOOLEAN]
Commits == [work: Versions \cup {None}, how: {"merge", "squash", "replay", "ff", "other"}]

(***************************************************************************)
(* The inductive invariant.  Beside the types: what a call carries at each *)
(* of its awaits, and what the commits of the base branch carry.           *)
(***************************************************************************)

\* A free slot is blank; a call that passed its first read has a method; what is to be
\* pushed is a version.
Formed ==
  \A c \in Calls :
    /\ call[c].pc = "idle" => call[c] = Idle
    /\ call[c].pc \in {"head", "gate", "range", "clone", "push", "record", "sweep"} =>
         call[c].method \in Methods \cup {"merge"}
    /\ call[c].pc = "push" => call[c].work \in Versions

BaseFormed == \A i \in 1..Tip : base[i].how # "other" => base[i].work \in Versions

TypeInv == TypeOK /\ Formed /\ BaseFormed

\* Commit sha is at or after a landing that covers the range rg.
Backed(sha, rg) ==
  /\ sha \in 1..Tip
  /\ \E i \in Landings : i <= sha /\ (rg # None => rg <= base[i].work)

\* The range is read before the clone and the head only advances: it never exceeds what
\* is merged.  The tip the clone found is the present one only while nothing landed.
Carries ==
  \A c \in Calls :
    /\ call[c].pc = "clone" /\ call[c].range # None /\ head # None => call[c].range <= head
    /\ call[c].pc = "push" =>
         /\ call[c].range # None => call[c].range <= call[c].work
         /\ call[c].tip <= Tip
         /\ Tip = call[c].tip => ~IsAncestor(call[c].work)
    /\ call[c].pc = "record" => Backed(call[c].sha, call[c].range)

LandInv == Carries /\ MergedRowIsBacked /\ NoWorkLandsTwice

\* The latch: set exactly while an evaluation is in flight, and there is at most one.
LatchInv == (inFlight <=> Evaluations # {}) /\ \A c, d \in Evaluations : c = d

(***************************************************************************)
(* Type correctness.                                                       *)
(***************************************************************************)
LEMMA IdleIsACall == Idle \in CallStates
BY BoundsAssumption DEF Idle, CallStates, Pcs

LEMMA Kinds == "idle" \in Pcs /\ Resting \in EditStates
BY DEF Pcs, Resting, EditStates

\* A call that ends leaves the others alone.
LEMMA LeaveFacts ==
  ASSUME TypeInv, NEW c \in Calls, Leave(c)
  PROVE  /\ call' \in [Calls -> CallStates] /\ inFlight' \in BOOLEAN
         /\ call'[c] = Idle /\ \A d \in Calls \ {c} : call'[d] = call[d]
         /\ Busy' = Busy \ {c}
<1>1. call \in [Calls -> CallStates] /\ inFlight \in BOOLEAN
  BY DEF TypeInv, TypeOK, CallStates
<1>2. call' = [call EXCEPT ![c] = Idle]
  BY DEF Leave
<1>3. call' \in [Calls -> CallStates] /\ call'[c] = Idle /\ \A d \in Calls \ {c} : call'[d] = call[d]
  BY <1>1, <1>2, IdleIsACall
<1>4. inFlight' \in BOOLEAN
  BY <1>1 DEF Leave
<1>5. Busy' = Busy \ {c}
  BY <1>3 DEF Busy, Idle
<1>6. QED
  BY <1>3, <1>4, <1>5

\* A call that goes on keeps the shape.
LEMMA CallTypes ==
  ASSUME TypeInv, NEW c \in Calls
  PROVE  /\ call \in [Calls -> CallStates]
         /\ \A x \in CallStates :
              /\ [call EXCEPT ![c] = x] \in [Calls -> CallStates]
              /\ [call EXCEPT ![c] = x][c] = x
              /\ \A d \in Calls \ {c} : [call EXCEPT ![c] = x][d] = call[d]
BY DEF TypeInv, TypeOK, CallStates

\* A commit is added at the end of the base branch.
LEMMA AppendFacts ==
  ASSUME base \in Seq(Commits), NEW x \in Commits, base' = Append(base, x)
  PROVE  /\ base' \in Seq(Commits) /\ Tip \in Nat /\ Tip' = Tip + 1
         /\ base'[Tip + 1] = x /\ \A i \in 1..Tip : base'[i] = base[i]
BY AppendProperties, LenProperties DEF Tip

\* What the row, the gates and the surroundings hold.
OtherTypes ==
  /\ state \in {"OPEN", "CLOSED", "MERGED"} /\ draft \in BOOLEAN
  /\ armed \in Methods \cup {None} /\ armer \in {"ok", "refused", "gone"}
  /\ mergeSha \in 0..MaxTip /\ range \in Versions \cup {None}
  /\ head \in Versions \cup {None}
  /\ checks \in [Versions -> {"none", "pending", "success", "failure"}]
  /\ review \in [Reviewers -> [verdict: Verdicts, at: Versions \cup {None}]]
  /\ signals \subseteq ({"review", "ready", "arm", "ci"} \X (Versions \cup {None}))
  /\ faults \in 0..MaxFaults /\ reopened \in BOOLEAN

\* The types of the calls, of the edits and of the base branch, named.
LEMMA TypeParts ==
  TypeOK <=> /\ OtherTypes
             /\ call \in [Calls -> CallStates] /\ edit \in [Editors -> EditStates]
             /\ base \in Seq(Commits) /\ Len(base) <= MaxTip
             /\ inFlight \in BOOLEAN /\ raced \subseteq Busy
BY DEF TypeOK, OtherTypes, CallStates, EditStates, Commits

USE DEF row, git, gates

LEMMA TypeInit == Init => TypeInv
<1> SUFFICES ASSUME Init PROVE TypeInv
  OBVIOUS
<1>1. OtherTypes
  <2>1. 0 \in 0..MaxTip /\ 0 \in 0..MaxFaults /\ 1 \in Versions
    BY BoundsAssumption DEF Versions
  <2>2. /\ checks \in [Versions -> {"none", "pending", "success", "failure"}]
        /\ review \in [Reviewers -> [verdict: Verdicts, at: Versions \cup {None}]]
    BY DEF Init, Verdicts
  <2>3. draft \in BOOLEAN /\ reopened \in BOOLEAN
    BY DEF Init
  <2>4. QED
    BY <2>1, <2>2, <2>3 DEF Init, OtherTypes
<1>2. call \in [Calls -> CallStates] /\ edit \in [Editors -> EditStates]
  BY IdleIsACall, Kinds DEF Init
<1>3. base \in Seq(Commits) /\ Len(base) = 0
  BY EmptySeq DEF Init
<1>4. TypeOK
  <2>1. Len(base) <= MaxTip
    BY <1>3, BoundsAssumption
  <2>2. inFlight \in BOOLEAN /\ raced \subseteq Busy
    BY DEF Init
  <2>3. QED
    BY <1>1, <1>2, <1>3, <2>1, <2>2, TypeParts
<1>5. Formed /\ BaseFormed
  BY <1>3 DEF Init, Formed, BaseFormed, Idle, Tip
<1>6. QED
  BY <1>4, <1>5 DEF TypeInv

\* A step that changes one call, and nothing that the types of the others depend on.
LEMMA OneCallTypes ==
  ASSUME TypeInv, NEW c \in Calls, NEW x \in CallStates,
         call' = [call EXCEPT ![c] = x], raced' \subseteq raced, c \in raced' => x.pc # "idle",
         x.pc = "idle" => x = Idle,
         x.pc \in {"head", "gate", "range", "clone", "push", "record", "sweep"} =>
           x.method \in Methods \cup {"merge"},
         x.pc = "push" => x.work \in Versions
  PROVE  call' \in [Calls -> CallStates] /\ raced' \subseteq Busy' /\ Formed'
<1>1. call' \in [Calls -> CallStates] /\ call'[c] = x /\ \A d \in Calls \ {c} : call'[d] = call[d]
  BY CallTypes
<1>2. raced' \subseteq Busy'
  BY <1>1 DEF Busy, TypeInv, TypeOK
<1>3. Formed'
  BY <1>1 DEF Formed, TypeInv
<1>4. QED
  BY <1>1, <1>2, <1>3

\* The parts that make the next state well-typed.
LEMMA TypeNext ==
  ASSUME OtherTypes', call' \in [Calls -> CallStates], edit' \in [Editors -> EditStates],
         base' \in Seq(Commits), Len(base') <= MaxTip, inFlight' \in BOOLEAN,
         raced' \subseteq Busy', Formed', BaseFormed'
  PROVE  TypeInv'
BY DEF TypeInv, TypeOK, OtherTypes, CallStates, EditStates, Commits

\* A call that ends leaves the types alone.
LEMMA LeaveTypes ==
  ASSUME TypeInv, NEW c \in Calls, Leave(c), c \notin raced', raced' \subseteq Busy
  PROVE  call' \in [Calls -> CallStates] /\ inFlight' \in BOOLEAN /\ raced' \subseteq Busy' /\ Formed'
<1>1. /\ call' \in [Calls -> CallStates] /\ inFlight' \in BOOLEAN
      /\ call'[c] = Idle /\ \A d \in Calls \ {c} : call'[d] = call[d]
      /\ Busy' = Busy \ {c}
  BY LeaveFacts
<1>2. Formed'
  BY <1>1 DEF Formed, TypeInv, Idle
<1>3. QED
  BY <1>1, <1>2

LEMMA FinishTypes ==
  ASSUME TypeInv, NEW c \in Calls, Finish(c)
  PROVE  call' \in [Calls -> CallStates] /\ inFlight' \in BOOLEAN /\ raced' \subseteq Busy' /\ Formed'
<1>1. Leave(c) /\ c \notin raced' /\ raced' \subseteq Busy
  BY DEF Finish, TypeInv, TypeOK
<1>2. QED
  BY <1>1, LeaveTypes

\* What is unchanged keeps its type.
LEMMA Kept ==
  ASSUME TypeInv
  PROVE  /\ UNCHANGED <<row, armer, head, gates, signals, faults, reopened>> => OtherTypes'
         /\ UNCHANGED base => base' \in Seq(Commits) /\ Len(base') <= MaxTip /\ BaseFormed'
         /\ UNCHANGED edit => edit' \in [Editors -> EditStates]
         /\ UNCHANGED inFlight => inFlight' \in BOOLEAN
         /\ UNCHANGED call /\ raced' \subseteq Busy =>
              call' \in [Calls -> CallStates] /\ raced' \subseteq Busy' /\ Formed'
<1>1. UNCHANGED <<row, armer, head, gates, signals, faults, reopened>> => OtherTypes'
  BY TypeParts DEF TypeInv, OtherTypes
<1>2. UNCHANGED base => base' \in Seq(Commits) /\ Len(base') <= MaxTip /\ BaseFormed'
  BY TypeParts DEF TypeInv, BaseFormed, Tip
<1>3. /\ UNCHANGED edit => edit' \in [Editors -> EditStates]
      /\ UNCHANGED inFlight => inFlight' \in BOOLEAN
  BY TypeParts DEF TypeInv
<1>4. ASSUME UNCHANGED call, raced' \subseteq Busy
      PROVE  call' \in [Calls -> CallStates] /\ raced' \subseteq Busy' /\ Formed'
  BY <1>4, TypeParts DEF TypeInv, Busy, Formed
<1>5. QED
  BY <1>1, <1>2, <1>3, <1>4

\* A commit added to the base branch keeps it well-formed.
LEMMA AppendTypes ==
  ASSUME TypeInv, Tip < MaxTip, NEW x \in Commits, x.how # "other" => x.work \in Versions,
         base' = Append(base, x)
  PROVE  base' \in Seq(Commits) /\ Len(base') <= MaxTip /\ BaseFormed'
<1>1. /\ base' \in Seq(Commits) /\ Tip \in Nat /\ Tip' = Tip + 1
      /\ base'[Tip + 1] = x /\ \A i \in 1..Tip : base'[i] = base[i]
  BY AppendFacts, TypeParts DEF TypeInv
<1>2. Len(base') <= MaxTip
  BY <1>1, BoundsAssumption DEF Tip
<1>3. ASSUME NEW i \in 1..Tip', base'[i].how # "other" PROVE base'[i].work \in Versions
  <2>1. CASE i = Tip + 1
    BY <1>1, <1>3, <2>1
  <2>2. CASE i # Tip + 1
    <3>1. i \in 1..Tip
      BY <1>1, <2>2
    <3>2. QED
      BY <1>1, <1>3, <3>1 DEF BaseFormed, TypeInv
  <2>3. QED
    BY <2>1, <2>2
<1>4. BaseFormed'
  BY <1>3 DEF BaseFormed
<1>5. QED
  BY <1>1, <1>2, <1>4

LEMMA TypeStep == TypeInv /\ [Next]_vars => TypeInv'
<1> SUFFICES ASSUME TypeInv, [Next]_vars PROVE TypeInv'
  OBVIOUS
<1>1. ASSUME NEW c \in Calls, NEW kind \in {"merge", "resolve"}, NEW m \in Methods \cup {"merge"},
             NEW override \in BOOLEAN, Begin(c, kind, m, override)
      PROVE  TypeInv'
  <2> DEFINE x == [Idle EXCEPT !.pc = "head", !.kind = kind, !.method = m, !.override = override]
  <2>1. /\ x \in CallStates /\ x.pc = "head" /\ x.method = m
    BY IdleIsACall DEF CallStates, Pcs, Idle
  <2>2. call' = [call EXCEPT ![c] = x] /\ raced' = raced
    BY <1>1 DEF Begin
  <2>3. call' \in [Calls -> CallStates] /\ raced' \subseteq Busy' /\ Formed'
    <3> HIDE DEF x
    <3>1. QED
      BY <2>1, <2>2, OneCallTypes
  <2>4. QED
    BY <1>1, <2>3, Kept, TypeNext DEF Begin
<1>2. ASSUME NEW s \in signals, Signal(s) PROVE TypeInv'
  <2>1. OtherTypes'
    BY <1>2, TypeParts DEF Signal, TypeInv, OtherTypes
  <2>2. CASE UNCHANGED <<call, inFlight>>
    <3>1. raced' \subseteq Busy
      BY <1>2, TypeParts DEF Signal, TypeInv
    <3>2. QED
      BY <1>2, <2>1, <2>2, <3>1, Kept, TypeNext DEF Signal
  <2>3. CASE ~ UNCHANGED <<call, inFlight>>
    <3>1. PICK c \in Calls \ Busy :
            /\ call' = [call EXCEPT ![c] = [Idle EXCEPT !.pc = "read", !.kind = "auto"]]
            /\ inFlight' = TRUE
      BY <1>2, <2>3 DEF Signal
    <3>2. [Idle EXCEPT !.pc = "read", !.kind = "auto"] \in CallStates
      BY IdleIsACall DEF CallStates, Pcs, Idle
    <3>3. [Idle EXCEPT !.pc = "read", !.kind = "auto"].pc = "read"
      BY DEF Idle
    <3>4. call' \in [Calls -> CallStates] /\ raced' \subseteq Busy' /\ Formed'
      BY <1>2, <3>1, <3>2, <3>3, OneCallTypes DEF Signal
    <3>5. QED
      BY <1>2, <2>1, <3>1, <3>4, Kept, TypeNext DEF Signal
  <2>4. QED
    BY <2>2, <2>3
<1>3. ASSUME NEW c \in Calls, AutoRead(c) PROVE TypeInv'
  <2>1. call' \in [Calls -> CallStates] /\ inFlight' \in BOOLEAN /\ raced' \subseteq Busy' /\ Formed'
    <3>1. CASE Finish(c)
      BY <3>1, FinishTypes
    <3>2. CASE armed # None /\ UNCHANGED <<inFlight, raced>>
               /\ call' = [call EXCEPT ![c].pc = "head", ![c].method = armed]
      <4> DEFINE x == [call[c] EXCEPT !.pc = "head", !.method = armed]
      <4>1. x \in CallStates /\ x.pc = "head" /\ x.method \in Methods \cup {"merge"}
        <5>1. call[c] \in CallStates /\ armed \in Methods
          BY <3>2, TypeParts DEF TypeInv, OtherTypes
        <5>2. QED
          BY <5>1 DEF CallStates, Pcs
      <4>2. call' = [call EXCEPT ![c] = x]
        BY <3>2, TypeParts DEF TypeInv
      <4> HIDE DEF x
      <4>3. call' \in [Calls -> CallStates] /\ raced' \subseteq Busy' /\ Formed'
        BY <3>2, <4>1, <4>2, OneCallTypes
      <4>4. QED
        BY <3>2, <4>3, Kept
    <3>3. CASE To(c, "disarm") /\ UNCHANGED <<inFlight, raced>>
      <4> DEFINE x == [call[c] EXCEPT !.pc = "disarm"]
      <4>1. x \in CallStates /\ x.pc = "disarm"
        BY TypeParts DEF TypeInv, CallStates, Pcs
      <4>2. call' = [call EXCEPT ![c] = x]
        BY <3>3, TypeParts DEF TypeInv, To
      <4> HIDE DEF x
      <4>3. call' \in [Calls -> CallStates] /\ raced' \subseteq Busy' /\ Formed'
        BY <3>3, <4>1, <4>2, OneCallTypes
      <4>4. QED
        BY <3>3, <4>3, Kept
    <3>4. QED
      BY <1>3, <3>1, <3>2, <3>3 DEF AutoRead
  <2>2. QED
    BY <1>3, <2>1, Kept, TypeNext DEF AutoRead
<1>4. ASSUME NEW c \in Calls, Disarm(c) PROVE TypeInv'
  <2>1. OtherTypes'
    BY <1>4, TypeParts DEF Disarm, TypeInv, OtherTypes
  <2>2. call' \in [Calls -> CallStates] /\ inFlight' \in BOOLEAN /\ raced' \subseteq Busy' /\ Formed'
    BY <1>4, LeaveTypes DEF Disarm
  <2>3. QED
    BY <1>4, <2>1, <2>2, Kept, TypeNext DEF Disarm
<1>5. ASSUME NEW c \in Calls, ReadHead(c) PROVE TypeInv'
  <2> DEFINE x == [call[c] EXCEPT !.pc = "gate", !.seen = head]
  <2>1. x \in CallStates /\ x.pc = "gate" /\ x.method \in Methods \cup {"merge"}
    <3>1. call[c] \in CallStates /\ head \in Versions \cup {None}
      BY TypeParts DEF TypeInv, OtherTypes
    <3>2. call[c].method \in Methods \cup {"merge"}
      BY <1>5 DEF TypeInv, ReadHead, Formed
    <3>3. QED
      BY <3>1, <3>2 DEF CallStates, Pcs
  <2>2. call' = [call EXCEPT ![c] = x] /\ raced' = raced
    BY <1>5, TypeParts DEF TypeInv, ReadHead
  <2> HIDE DEF x
  <2>3. call' \in [Calls -> CallStates] /\ raced' \subseteq Busy' /\ Formed'
    BY <2>1, <2>2, OneCallTypes
  <2>4. QED
    BY <1>5, <2>3, Kept, TypeNext DEF ReadHead
<1>6. ASSUME NEW c \in Calls, Gate(c) PROVE TypeInv'
  <2>1. call' \in [Calls -> CallStates] /\ inFlight' \in BOOLEAN /\ raced' \subseteq Busy' /\ Formed'
    <3>1. CASE Finish(c)
      BY <3>1, FinishTypes
    <3>2. CASE /\ call[c].pc = "gate" /\ UNCHANGED <<inFlight, raced>>
               /\ call' = [call EXCEPT ![c].pc = "range", ![c].seen = None]
      <4> DEFINE x == [call[c] EXCEPT !.pc = "range", !.seen = None]
      <4>1. x \in CallStates /\ x.pc = "range" /\ x.method \in Methods \cup {"merge"}
        BY <3>2, TypeParts DEF TypeInv, CallStates, Pcs, Formed
      <4>2. call' = [call EXCEPT ![c] = x]
        BY <3>2, TypeParts DEF TypeInv
      <4> HIDE DEF x
      <4>3. call' \in [Calls -> CallStates] /\ raced' \subseteq Busy' /\ Formed'
        BY <3>2, <4>1, <4>2, OneCallTypes
      <4>4. QED
        BY <3>2, <4>3, Kept
    <3>3. QED
      BY <1>6, <3>1, <3>2 DEF Gate
  <2>2. QED
    BY <1>6, <2>1, Kept, TypeNext DEF Gate
<1>7. ASSUME NEW c \in Calls, ReadRange(c) PROVE TypeInv'
  <2> DEFINE x == [call[c] EXCEPT !.pc = "clone", !.range = head]
  <2>1. x \in CallStates /\ x.pc = "clone" /\ x.method \in Methods \cup {"merge"}
    <3>1. call[c] \in CallStates /\ head \in Versions \cup {None}
      BY TypeParts DEF TypeInv, OtherTypes
    <3>2. call[c].method \in Methods \cup {"merge"}
      BY <1>7 DEF TypeInv, ReadRange, Formed
    <3>3. QED
      BY <3>1, <3>2 DEF CallStates, Pcs
  <2>2. call' = [call EXCEPT ![c] = x] /\ raced' = raced
    BY <1>7, TypeParts DEF TypeInv, ReadRange
  <2> HIDE DEF x
  <2>3. call' \in [Calls -> CallStates] /\ raced' \subseteq Busy' /\ Formed'
    BY <2>1, <2>2, OneCallTypes
  <2>4. QED
    BY <1>7, <2>3, Kept, TypeNext DEF ReadRange
<1>8. ASSUME NEW c \in Calls, Clone(c) PROVE TypeInv'
  <2>1. call' \in [Calls -> CallStates] /\ inFlight' \in BOOLEAN /\ raced' \subseteq Busy' /\ Formed'
    <3>1. CASE Finish(c)
      BY <3>1, FinishTypes
    <3>2. CASE /\ call[c].pc = "clone" /\ head # None /\ UNCHANGED <<inFlight, raced>>
               /\ call' = [call EXCEPT ![c].pc = "push", ![c].tip = Tip, ![c].work = head]
      <4> DEFINE x == [call[c] EXCEPT !.pc = "push", !.tip = Tip, !.work = head]
      <4>1. Tip \in 0..MaxTip /\ head \in Versions
        BY <3>2, TypeParts, LenProperties, BoundsAssumption DEF TypeInv, OtherTypes, Tip
      <4>2. x \in CallStates /\ x.pc = "push" /\ x.work \in Versions /\ x.method \in Methods \cup {"merge"}
        BY <3>2, <4>1, TypeParts DEF TypeInv, CallStates, Pcs, Formed
      <4>3. call' = [call EXCEPT ![c] = x]
        BY <3>2, TypeParts DEF TypeInv
      <4> HIDE DEF x
      <4>4. call' \in [Calls -> CallStates] /\ raced' \subseteq Busy' /\ Formed'
        BY <3>2, <4>2, <4>3, OneCallTypes
      <4>5. QED
        BY <3>2, <4>4, Kept
    <3>3. QED
      BY <1>8, <3>1, <3>2 DEF Clone
  <2>2. QED
    BY <1>8, <2>1, Kept, TypeNext DEF Clone
<1>9. ASSUME NEW c \in Calls, Push(c) PROVE TypeInv'
  <2>1. base' \in Seq(Commits) /\ Len(base') <= MaxTip /\ BaseFormed'
    <3>1. CASE UNCHANGED base
      BY <3>1, Kept
    <3>2. CASE Tip < MaxTip
               /\ base' = Append(base, [work |-> call[c].work, how |-> Result(call[c].method)])
      <4>1. call[c].work \in Versions /\ call[c].method \in Methods \cup {"merge"}
        BY <1>9 DEF Push, TypeInv, Formed
      <4>2. Result(call[c].method) \in {"merge", "squash", "replay", "ff"}
        BY <4>1, MethodsAssumption DEF Result
      <4>3. [work |-> call[c].work, how |-> Result(call[c].method)] \in Commits
        BY <4>1, <4>2 DEF Commits
      <4>4. QED
        BY <3>2, <4>1, <4>3, AppendTypes
    <3>3. QED
      BY <1>9, <3>1, <3>2 DEF Push
  <2>2. call' \in [Calls -> CallStates] /\ inFlight' \in BOOLEAN /\ raced' \subseteq Busy' /\ Formed'
    <3>1. CASE Finish(c)
      BY <3>1, FinishTypes
    <3>2. ASSUME NEW n \in 0..MaxTip, UNCHANGED <<inFlight, raced>>,
                 call' = [call EXCEPT ![c].pc = "record", ![c].sha = n]
          PROVE  call' \in [Calls -> CallStates] /\ inFlight' \in BOOLEAN /\ raced' \subseteq Busy' /\ Formed'
      <4> DEFINE x == [call[c] EXCEPT !.pc = "record", !.sha = n]
      <4>1. x \in CallStates /\ x.pc = "record" /\ x.method \in Methods \cup {"merge"}
        <5>1. call[c] \in CallStates /\ call[c].method \in Methods \cup {"merge"}
          BY <1>9, TypeParts DEF TypeInv, Formed, Push
        <5>2. QED
          BY <5>1 DEF CallStates, Pcs
      <4>2. call' = [call EXCEPT ![c] = x]
        BY <3>2, TypeParts DEF TypeInv
      <4> HIDE DEF x
      <4>3. call' \in [Calls -> CallStates] /\ raced' \subseteq Busy' /\ Formed'
        BY <3>2, <4>1, <4>2, OneCallTypes
      <4>4. QED
        BY <3>2, <4>3, Kept
    <3>3. Tip \in 0..MaxTip /\ (Tip < MaxTip => Tip + 1 \in 0..MaxTip)
      BY TypeParts, LenProperties, BoundsAssumption DEF TypeInv, Tip
    <3>4. QED
      BY <1>9, <3>1, <3>2, <3>3 DEF Push
  <2>3. QED
    BY <1>9, <2>1, <2>2, Kept, TypeNext DEF Push
<1>10. ASSUME NEW c \in Calls, Record(c) PROVE TypeInv'
  <2>1. OtherTypes'
    <3>1. call[c] \in CallStates
      BY TypeParts DEF TypeInv
    <3>2. mergeSha' \in 0..MaxTip /\ range' \in Versions \cup {None} /\ armed' \in Methods \cup {None}
      BY <1>10, <3>1, TypeParts DEF Record, CallStates, TypeInv, OtherTypes
    <3>3. QED
      BY <1>10, <3>2, TypeParts DEF Record, TypeInv, OtherTypes
  <2>2. call' \in [Calls -> CallStates] /\ inFlight' \in BOOLEAN /\ raced' \subseteq Busy' /\ Formed'
    <3>1. CASE Leave(c) /\ raced' = Busy \ {c}
      BY <3>1, LeaveTypes
    <3>2. CASE To(c, "sweep") /\ raced' = Busy /\ UNCHANGED inFlight
      <4> DEFINE x == [call[c] EXCEPT !.pc = "sweep"]
      <4>1. x \in CallStates /\ x.pc = "sweep" /\ x.method \in Methods \cup {"merge"}
        BY <1>10, TypeParts DEF TypeInv, CallStates, Pcs, Formed, Record
      <4>2. call' = [call EXCEPT ![c] = x]
        BY <3>2, TypeParts DEF TypeInv, To
      <4> HIDE DEF x
      <4>3. call' \in [Calls -> CallStates] /\ call'[c] = x /\ \A d \in Calls \ {c} : call'[d] = call[d]
        BY <4>1, <4>2, CallTypes
      <4>4. Formed' /\ raced' \subseteq Busy'
        BY <3>2, <4>1, <4>3 DEF Formed, TypeInv, Busy
      <4>5. QED
        BY <3>2, <4>3, <4>4, Kept
    <3>3. QED
      BY <1>10, <3>1, <3>2 DEF Record, Disturb
  <2>3. QED
    BY <1>10, <2>1, <2>2, Kept, TypeNext DEF Record
<1>11. ASSUME NEW c \in Calls, Sweep(c) PROVE TypeInv'
  <2>1. OtherTypes'
    BY <1>11, TypeParts DEF Sweep, TypeInv, OtherTypes
  <2>2. call' \in [Calls -> CallStates] /\ inFlight' \in BOOLEAN /\ raced' \subseteq Busy' /\ Formed'
    BY <1>11, LeaveTypes DEF Sweep
  <2>3. QED
    BY <1>11, <2>1, <2>2, Kept, TypeNext DEF Sweep
<1>12. ASSUME NEW c \in Calls, RecordRefused(c) PROVE TypeInv'
  <2>1. OtherTypes'
    <3>1. faults' \in 0..MaxFaults
      BY <1>12, TypeParts, BoundsAssumption DEF RecordRefused, TypeInv, OtherTypes
    <3>2. QED
      BY <1>12, <3>1, TypeParts DEF RecordRefused, TypeInv, OtherTypes
  <2>2. QED
    BY <1>12, <2>1, FinishTypes, Kept, TypeNext DEF RecordRefused
<1>13. ASSUME NEW e \in Editors, NEW op \in Edits, NEW m \in Methods \cup {None}, EditRead(e, op, m)
       PROVE  TypeInv'
  <2>1. [op |-> op, arg |-> m, open |-> state = "OPEN"] \in EditStates
    BY DEF EditStates
  <2>2. edit' \in [Editors -> EditStates]
    BY <1>13, <2>1, TypeParts DEF EditRead, TypeInv
  <2>3. raced' \subseteq Busy
    BY <1>13, TypeParts DEF EditRead, TypeInv
  <2>4. QED
    BY <1>13, <2>2, <2>3, Kept, TypeNext DEF EditRead
<1>14. ASSUME NEW e \in Editors, EditWrite(e) PROVE TypeInv'
  <2>1. edit' \in [Editors -> EditStates]
    BY <1>14, Kinds, TypeParts DEF EditWrite, TypeInv
  <2>2. OtherTypes'
    <3>1. edit[e] \in EditStates /\ OtherTypes
      BY TypeParts DEF TypeInv
    <3>2. state' \in {"OPEN", "CLOSED", "MERGED"}
      BY <1>14, <3>1 DEF EditWrite, NewState, OtherTypes
    <3>3. draft' \in BOOLEAN
      BY <1>14, <3>1 DEF EditWrite, OtherTypes
    <3>4. armed' \in Methods \cup {None} /\ armer' \in {"ok", "refused", "gone"}
      BY <1>14, <3>1 DEF EditWrite, OtherTypes, EditStates
    <3>5. range' \in Versions \cup {None}
      BY <1>14, <3>1 DEF EditWrite, OtherTypes
    <3>6. signals' \subseteq ({"review", "ready", "arm", "ci"} \X (Versions \cup {None}))
      BY <1>14, <3>1 DEF EditWrite, OtherTypes
    <3>7. reopened' \in BOOLEAN
      BY <1>14, <3>1 DEF EditWrite, OtherTypes
    <3>8. QED
      BY <1>14, <3>1, <3>2, <3>3, <3>4, <3>5, <3>6, <3>7 DEF EditWrite, OtherTypes
  <2>3. QED
    BY <1>14, <2>1, <2>2, Kept, TypeNext DEF EditWrite, Disturb
<1>15. ASSUME PushHead \/ ArmerChanges PROVE TypeInv'
  <2>1. OtherTypes'
    BY <1>15, TypeParts, BoundsAssumption DEF PushHead, ArmerChanges, TypeInv, OtherTypes, Versions
  <2>2. QED
    BY <1>15, <2>1, Kept, TypeNext DEF PushHead, ArmerChanges, Disturb
<1>16. ASSUME PushBase PROVE TypeInv'
  <2>1. [work |-> None, how |-> "other"] \in Commits
    BY DEF Commits
  <2>2. base' \in Seq(Commits) /\ Len(base') <= MaxTip /\ BaseFormed'
    BY <1>16, <2>1, AppendTypes DEF PushBase
  <2>3. raced' \subseteq Busy
    BY <1>16, TypeParts DEF PushBase, TypeInv
  <2>4. QED
    BY <1>16, <2>2, <2>3, Kept, TypeNext DEF PushBase
<1>17. ASSUME NEW h \in Versions, CheckStarts(h) \/ CheckEnds(h) PROVE TypeInv'
  <2>1. OtherTypes'
    <3>1. /\ checks' \in [Versions -> {"none", "pending", "success", "failure"}]
          /\ signals' \subseteq ({"review", "ready", "arm", "ci"} \X (Versions \cup {None}))
      BY <1>17, TypeParts DEF CheckStarts, CheckEnds, TypeInv, OtherTypes
    <3>2. QED
      BY <1>17, <3>1, TypeParts DEF CheckStarts, CheckEnds, TypeInv, OtherTypes
  <2>2. QED
    BY <1>17, <2>1, Kept, TypeNext DEF CheckStarts, CheckEnds, Disturb
<1>18. ASSUME NEW u \in Reviewers, NEW v \in Verdicts, NEW h \in Versions, SubmitReview(u, v, h)
       PROVE  TypeInv'
  <2>1. OtherTypes'
    <3>1. /\ review' \in [Reviewers -> [verdict: Verdicts, at: Versions \cup {None}]]
          /\ signals' \subseteq ({"review", "ready", "arm", "ci"} \X (Versions \cup {None}))
      BY <1>18, TypeParts DEF SubmitReview, TypeInv, OtherTypes
    <3>2. QED
      BY <1>18, <3>1, TypeParts DEF SubmitReview, TypeInv, OtherTypes
  <2>2. QED
    BY <1>18, <2>1, Kept, TypeNext DEF SubmitReview, Disturb
<1>19. ASSUME Crash PROVE TypeInv'
  <2>1. OtherTypes'
    <3>1. faults' \in 0..MaxFaults
      BY <1>19, TypeParts, BoundsAssumption DEF Crash, TypeInv, OtherTypes
    <3>2. QED
      BY <1>19, <3>1, TypeParts DEF Crash, TypeInv, OtherTypes
  <2>2. call' \in [Calls -> CallStates] /\ edit' \in [Editors -> EditStates]
    BY <1>19, IdleIsACall, Kinds DEF Crash
  <2>3. Formed'
    BY <1>19 DEF Crash, Formed, Idle
  <2>4. inFlight' \in BOOLEAN /\ raced' \subseteq Busy'
    BY <1>19 DEF Crash
  <2>5. UNCHANGED base
    BY <1>19 DEF Crash
  <2>6. QED
    BY <2>1, <2>2, <2>3, <2>4, <2>5, Kept, TypeNext
<1>20. CASE UNCHANGED vars
  <2>1. raced' \subseteq Busy
    BY <1>20, TypeParts DEF vars, TypeInv
  <2>2. QED
    BY <1>20, <2>1, Kept, TypeNext DEF vars
<1>21. QED
  <2>1. ASSUME NEW c \in Calls, Request(c) PROVE TypeInv'
    BY <1>1, <2>1 DEF Request
  <2>2. ASSUME NEW c \in Calls, CallStep(c) PROVE TypeInv'
    BY <1>3, <1>4, <1>5, <1>6, <1>7, <1>8, <1>9, <1>10, <1>11, <2>2 DEF CallStep
  <2>3. ASSUME NEW e \in Editors, EditBegins(e) PROVE TypeInv'
    <3>1. "arm" \in Edits
      BY DEF Edits
    <3>2. QED
      BY <1>13, <2>3, <3>1 DEF EditBegins
  <2>4. ASSUME Surroundings PROVE TypeInv'
    BY <1>15, <1>16, <1>17, <1>18, <1>19, <2>4 DEF Surroundings
  <2>5. QED
    BY <1>2, <1>12, <1>14, <1>20, <2>1, <2>2, <2>3, <2>4 DEF Next

(***************************************************************************)
(* What one step may do: the summary of the actions on which the theorems  *)
(* about landings and about the latch rest.                                *)
(***************************************************************************)

\* the push of call c adds its commit to the base branch
Lands(c) ==
  /\ call[c].pc = "push" /\ call[c].tip = Tip /\ Adds(call[c].method, call[c].work)
  /\ base' = Append(base, [work |-> call[c].work, how |-> Result(call[c].method)])

CallMoves(c) ==
  \/ call'[c] = call[c]
  \/ call'[c].pc \notin {"clone", "push", "record"}
  \/ call'[c].pc = "clone" /\ call'[c].range = head /\ UNCHANGED git
  \/ /\ call[c].pc = "clone" /\ call'[c].pc = "push" /\ UNCHANGED git
     /\ call'[c].range = call[c].range /\ call'[c].work = head /\ call'[c].tip = Tip
     /\ head # None /\ ~IsAncestor(head)
  \/ /\ call[c].pc = "push" /\ call'[c].pc = "record" /\ call'[c].range = call[c].range
     /\ call[c].tip = Tip
     /\ \/ call'[c].sha = Tip + 1 /\ Lands(c)
        \/ call'[c].sha = Tip /\ UNCHANGED base /\ ~Adds(call[c].method, call[c].work)

BaseMoves ==
  \/ UNCHANGED base
  \/ base' = Append(base, [work |-> None, how |-> "other"])
  \/ \E c \in Calls : Lands(c) /\ call'[c].pc = "record"

HeadMoves == UNCHANGED head \/ head' = None \/ (head # None /\ head' = head + 1)

RowMoves ==
  \/ state' # "MERGED"
  \/ UNCHANGED <<state, mergeSha, range>>
  \/ \E c \in Calls : /\ call[c].pc = "record" /\ mergeSha' = call[c].sha
                      /\ range' = call[c].range /\ UNCHANGED base

\* a landing stays recorded or about to be, or the history tells
RecordMoves ==
  /\ faults' = 0 => faults = 0
  /\ reopened => reopened'
  /\ state = "MERGED" => state' = "MERGED" \/ reopened'
  /\ \A c \in Calls : call[c].pc = "record" =>
       call'[c].pc = "record" \/ state' = "MERGED" \/ faults' # 0

LatchMoves ==
  \/ UNCHANGED inFlight /\ Evaluations' = Evaluations
  \/ ~inFlight /\ inFlight' = TRUE /\ \E c \in Calls : Evaluations' = Evaluations \cup {c}
  \/ inFlight' = FALSE /\ \E c \in Evaluations : Evaluations' = Evaluations \ {c}
  \/ inFlight' = FALSE /\ Evaluations' = {}

\* A step that leaves the calls alone moves no call and no latch.
LEMMA NoCallMoves ==
  ASSUME UNCHANGED <<call, inFlight>>
  PROVE  (\A c \in Calls : CallMoves(c)) /\ LatchMoves
BY DEF CallMoves, LatchMoves, Evaluations, Busy

\* A call that ends.
LEMMA LeaveMoves ==
  ASSUME TypeInv, NEW c \in Calls, call[c].pc # "idle", Leave(c)
  PROVE  /\ \A d \in Calls : CallMoves(d)
         /\ LatchMoves
         /\ \A d \in Calls \ {c} : call'[d] = call[d]
<1>1. call'[c] = Idle /\ (\A d \in Calls \ {c} : call'[d] = call[d]) /\ Busy' = Busy \ {c}
  BY LeaveFacts
<1>2. \A d \in Calls : CallMoves(d)
  BY <1>1 DEF CallMoves, Idle
<1>3. LatchMoves
  <2>1. Evaluations' = Evaluations \ {c}
    BY <1>1 DEF Evaluations, Busy
  <2>2. CASE call[c].kind = "auto"
    <3>1. c \in Evaluations
      BY <2>2 DEF Evaluations, Busy
    <3>2. QED
      BY <2>1, <2>2, <3>1 DEF LatchMoves, Leave
  <2>3. CASE call[c].kind # "auto"
    <3>1. c \notin Evaluations
      BY <2>3 DEF Evaluations
    <3>2. QED
      BY <2>1, <2>3, <3>1 DEF LatchMoves, Leave
  <2>4. QED
    BY <2>2, <2>3
<1>4. QED
  BY <1>1, <1>2, <1>3

\* A call that goes on.
LEMMA GoOnMoves ==
  ASSUME TypeInv, NEW c \in Calls, NEW x \in CallStates, call' = [call EXCEPT ![c] = x],
         call[c].pc # "idle", x.pc # "idle", x.kind = call[c].kind, UNCHANGED inFlight
  PROVE  /\ call'[c] = x /\ \A d \in Calls \ {c} : call'[d] = call[d] /\ CallMoves(d)
         /\ LatchMoves
<1>1. call'[c] = x /\ \A d \in Calls \ {c} : call'[d] = call[d]
  BY CallTypes
<1>2. Evaluations' = Evaluations
  BY <1>1 DEF Evaluations, Busy
<1>3. QED
  BY <1>1, <1>2 DEF LatchMoves, CallMoves

LEMMA Moves ==
  ASSUME TypeInv, [Next]_vars
  PROVE  (\A c \in Calls : CallMoves(c)) /\ BaseMoves /\ HeadMoves /\ RowMoves /\ RecordMoves /\ LatchMoves
<1> DEFINE Goal == (\A c \in Calls : CallMoves(c)) /\ BaseMoves /\ HeadMoves /\ RowMoves /\ RecordMoves /\ LatchMoves
<1>0. call \in [Calls -> CallStates] /\ faults \in Nat /\ (head \in Nat \/ head = None)
  BY TypeParts, BoundsAssumption DEF TypeInv, OtherTypes, Versions
<1>1. ASSUME NEW c \in Calls, NEW kind \in {"merge", "resolve"}, NEW m \in Methods \cup {"merge"},
             NEW override \in BOOLEAN, Begin(c, kind, m, override)
      PROVE  Goal
  <2>1. /\ call'[c].pc = "head" /\ call'[c].kind # "auto" /\ call[c].pc = "idle"
        /\ \A d \in Calls \ {c} : call'[d] = call[d]
    BY <1>0, <1>1 DEF Begin, Idle
  <2>2. \A d \in Calls : CallMoves(d)
    BY <2>1 DEF CallMoves
  <2>3. Evaluations' = Evaluations
    BY <2>1 DEF Evaluations, Busy
  <2>4. LatchMoves
    BY <1>1, <2>3 DEF LatchMoves, Begin
  <2>5. BaseMoves /\ HeadMoves /\ RowMoves
    BY <1>1 DEF Begin, BaseMoves, HeadMoves, RowMoves
  <2>6. RecordMoves
    BY <1>1, <2>1 DEF Begin, RecordMoves
  <2>7. QED
    BY <2>2, <2>4, <2>5, <2>6
<1>2. ASSUME NEW s \in signals, Signal(s) PROVE Goal
  <2>1. BaseMoves /\ HeadMoves /\ RowMoves
    BY <1>2 DEF Signal, BaseMoves, HeadMoves, RowMoves
  <2>2. CASE UNCHANGED <<call, inFlight>>
    <3>1. RecordMoves
      BY <1>2, <2>2 DEF Signal, RecordMoves
    <3>2. QED
      BY <2>1, <2>2, <3>1, NoCallMoves
  <2>3. CASE ~ UNCHANGED <<call, inFlight>>
    <3>1. PICK c \in Calls \ Busy :
            /\ call' = [call EXCEPT ![c] = [Idle EXCEPT !.pc = "read", !.kind = "auto"]]
            /\ inFlight' = TRUE /\ ~inFlight
      BY <1>2, <2>3 DEF Signal
    <3>2. /\ call'[c].pc = "read" /\ call'[c].kind = "auto" /\ call[c].pc = "idle"
          /\ \A d \in Calls \ {c} : call'[d] = call[d]
      BY <1>0, <3>1 DEF Idle, Busy
    <3>3. \A d \in Calls : CallMoves(d)
      BY <3>2 DEF CallMoves
    <3>4. Evaluations' = Evaluations \cup {c}
      BY <3>2 DEF Evaluations, Busy
    <3>5. LatchMoves
      BY <3>1, <3>4 DEF LatchMoves
    <3>6. RecordMoves
      BY <1>2, <3>2 DEF Signal, RecordMoves
    <3>7. QED
      BY <2>1, <3>3, <3>5, <3>6
  <2>4. QED
    BY <2>2, <2>3
\* the steps of a call that leave the recorded landing and the base branch alone
<1>3. ASSUME NEW c \in Calls, call[c].pc \notin {"idle", "record"}, HeadMoves,
             UNCHANGED <<state, mergeSha, range, base, faults, reopened>>, Leave(c)
      PROVE  Goal
  <2>1. BaseMoves /\ RowMoves
    BY <1>3 DEF BaseMoves, RowMoves
  <2>2. RecordMoves
    BY <1>3, LeaveMoves DEF RecordMoves
  <2>3. QED
    BY <1>3, <2>1, <2>2, LeaveMoves
<1>4. ASSUME NEW c \in Calls, call[c].pc \notin {"idle", "record"},
             UNCHANGED <<row, git, faults, reopened, inFlight>>,
             NEW x \in CallStates, call' = [call EXCEPT ![c] = x],
             x.pc # "idle", x.kind = call[c].kind,
             \/ x.pc \notin {"clone", "push", "record"}
             \/ x.pc = "clone" /\ x.range = head
             \/ /\ call[c].pc = "clone" /\ x.pc = "push" /\ x.range = call[c].range
                /\ x.work = head /\ x.tip = Tip /\ head # None /\ ~IsAncestor(head)
      PROVE  Goal
  <2>1. BaseMoves /\ HeadMoves /\ RowMoves
    BY <1>4 DEF BaseMoves, HeadMoves, RowMoves
  <2>2. call'[c] = x /\ (\A d \in Calls \ {c} : call'[d] = call[d] /\ CallMoves(d)) /\ LatchMoves
    BY <1>4, GoOnMoves
  <2>3. RecordMoves
    BY <1>4, <2>2 DEF RecordMoves
  <2>4. CallMoves(c)
    BY <1>4, <2>2 DEF CallMoves
  <2>5. QED
    BY <2>1, <2>2, <2>3, <2>4
<1>5. ASSUME NEW c \in Calls, AutoRead(c) PROVE Goal
  <2>1. /\ call[c].pc = "read" /\ UNCHANGED <<row, git, faults, reopened>>
    BY <1>5 DEF AutoRead
  <2>2. CASE Leave(c)
    BY <1>3, <2>1, <2>2 DEF HeadMoves
  <2>3. ASSUME UNCHANGED inFlight, armed # None, call' = [call EXCEPT ![c].pc = "head", ![c].method = armed]
        PROVE  Goal
    <3> DEFINE x == [call[c] EXCEPT !.pc = "head", !.method = armed]
    <3>1. call[c] \in CallStates /\ armed \in Methods \cup {None}
      BY <1>0, TypeParts DEF TypeInv, OtherTypes
    <3>2. x \in CallStates /\ x.pc = "head" /\ x.kind = call[c].kind
      BY <3>1 DEF CallStates, Pcs
    <3>3. call' = [call EXCEPT ![c] = x]
      BY <1>0, <2>3
    <3> HIDE DEF x
    <3>4. QED
      BY <1>4, <2>1, <2>3, <3>2, <3>3
  <2>4. ASSUME UNCHANGED inFlight, To(c, "disarm") PROVE Goal
    <3> DEFINE x == [call[c] EXCEPT !.pc = "disarm"]
    <3>1. x \in CallStates /\ x.pc = "disarm" /\ x.kind = call[c].kind
      BY <1>0 DEF CallStates, Pcs
    <3>2. call' = [call EXCEPT ![c] = x]
      BY <1>0, <2>4 DEF To
    <3> HIDE DEF x
    <3>3. QED
      BY <1>4, <2>1, <2>4, <3>1, <3>2
  <2>5. QED
    BY <1>5, <2>2, <2>3, <2>4 DEF AutoRead, Finish
<1>6. ASSUME NEW c \in Calls, Disarm(c) PROVE Goal
  BY <1>3, <1>6 DEF Disarm, HeadMoves
<1>7. ASSUME NEW c \in Calls, ReadHead(c) PROVE Goal
  <2> DEFINE x == [call[c] EXCEPT !.pc = "gate", !.seen = head]
  <2>1. call[c] \in CallStates /\ head \in Versions \cup {None}
    BY <1>0, TypeParts DEF TypeInv, OtherTypes
  <2>2. x \in CallStates /\ x.pc = "gate" /\ x.kind = call[c].kind
    BY <2>1 DEF CallStates, Pcs
  <2>3. call' = [call EXCEPT ![c] = x]
    BY <1>0, <1>7 DEF ReadHead
  <2> HIDE DEF x
  <2>4. QED
    BY <1>4, <1>7, <2>2, <2>3 DEF ReadHead
<1>8. ASSUME NEW c \in Calls, Gate(c) PROVE Goal
  <2>1. /\ call[c].pc = "gate" /\ UNCHANGED <<row, git, faults, reopened>>
    BY <1>8 DEF Gate
  <2>2. CASE Leave(c)
    BY <1>3, <2>1, <2>2 DEF HeadMoves
  <2>3. ASSUME UNCHANGED inFlight, call' = [call EXCEPT ![c].pc = "range", ![c].seen = None]
        PROVE  Goal
    <3> DEFINE x == [call[c] EXCEPT !.pc = "range", !.seen = None]
    <3>1. x \in CallStates /\ x.pc = "range" /\ x.kind = call[c].kind
      BY <1>0 DEF CallStates, Pcs
    <3>2. call' = [call EXCEPT ![c] = x]
      BY <1>0, <2>3
    <3> HIDE DEF x
    <3>3. QED
      BY <1>4, <2>1, <2>3, <3>1, <3>2
  <2>4. QED
    BY <1>8, <2>2, <2>3 DEF Gate, Finish
<1>9. ASSUME NEW c \in Calls, ReadRange(c) PROVE Goal
  <2> DEFINE x == [call[c] EXCEPT !.pc = "clone", !.range = head]
  <2>1. call[c] \in CallStates /\ head \in Versions \cup {None}
    BY <1>0, TypeParts DEF TypeInv, OtherTypes
  <2>2. x \in CallStates /\ x.pc = "clone" /\ x.kind = call[c].kind /\ x.range = head
    BY <2>1 DEF CallStates, Pcs
  <2>3. call' = [call EXCEPT ![c] = x]
    BY <1>0, <1>9 DEF ReadRange
  <2> HIDE DEF x
  <2>4. QED
    BY <1>4, <1>9, <2>2, <2>3 DEF ReadRange
<1>10. ASSUME NEW c \in Calls, Clone(c) PROVE Goal
  <2>1. /\ call[c].pc = "clone" /\ UNCHANGED <<row, git, faults, reopened>>
    BY <1>10 DEF Clone
  <2>2. CASE Leave(c)
    BY <1>3, <2>1, <2>2 DEF HeadMoves
  <2>3. ASSUME UNCHANGED inFlight, head # None, ~IsAncestor(head),
               call' = [call EXCEPT ![c].pc = "push", ![c].tip = Tip, ![c].work = head]
        PROVE  Goal
    <3> DEFINE x == [call[c] EXCEPT !.pc = "push", !.tip = Tip, !.work = head]
    <3>1. call[c] \in CallStates /\ head \in Versions /\ Tip \in 0..MaxTip
      BY <1>0, <2>3, TypeParts, LenProperties, BoundsAssumption DEF TypeInv, OtherTypes, Tip
    <3>2. /\ x \in CallStates /\ x.pc = "push" /\ x.kind = call[c].kind
          /\ x.range = call[c].range /\ x.work = head /\ x.tip = Tip
      BY <3>1 DEF CallStates, Pcs
    <3>3. call' = [call EXCEPT ![c] = x]
      BY <1>0, <2>3
    <3> HIDE DEF x
    <3>4. QED
      BY <1>4, <2>1, <2>3, <3>2, <3>3
  <2>4. QED
    BY <1>10, <2>2, <2>3 DEF Clone, Finish
<1>11. ASSUME NEW c \in Calls, Push(c) PROVE Goal
  <2>1. /\ call[c].pc = "push" /\ UNCHANGED <<row, head, faults, reopened>>
    BY <1>11 DEF Push
  <2>2. CASE Leave(c) /\ UNCHANGED base
    BY <1>3, <2>1, <2>2 DEF HeadMoves
  <2>3. ASSUME UNCHANGED inFlight, call[c].tip = Tip, NEW n \in 0..MaxTip,
               call' = [call EXCEPT ![c].pc = "record", ![c].sha = n],
               \/ n = Tip + 1 /\ Lands(c)
               \/ n = Tip /\ UNCHANGED base /\ ~Adds(call[c].method, call[c].work)
        PROVE  Goal
    <3> DEFINE x == [call[c] EXCEPT !.pc = "record", !.sha = n]
    <3>1. /\ x \in CallStates /\ x.pc = "record" /\ x.kind = call[c].kind
          /\ x.range = call[c].range /\ x.sha = n
      BY <1>0 DEF CallStates, Pcs
    <3>2. call' = [call EXCEPT ![c] = x]
      BY <1>0, <2>3
    <3> HIDE DEF x
    <3>3. /\ call'[c] = x /\ LatchMoves
          /\ \A d \in Calls \ {c} : call'[d] = call[d] /\ CallMoves(d)
      BY <2>1, <2>3, <3>1, <3>2, GoOnMoves
    <3>4. CallMoves(c)
      BY <2>1, <2>3, <3>1, <3>3 DEF CallMoves
    <3>5. BaseMoves
      BY <2>1, <2>3, <3>1, <3>3 DEF BaseMoves
    <3>6. HeadMoves /\ RowMoves
      BY <2>1 DEF HeadMoves, RowMoves
    <3>7. RecordMoves
      BY <2>1, <3>3 DEF RecordMoves
    <3>8. QED
      BY <3>3, <3>4, <3>5, <3>6, <3>7
  <2>4. Tip \in 0..MaxTip /\ (Tip < MaxTip => Tip + 1 \in 0..MaxTip)
    BY TypeParts, LenProperties, BoundsAssumption DEF TypeInv, Tip
  <2>5. CASE Tip = call[c].tip /\ Adds(call[c].method, call[c].work) /\ Tip < MaxTip
             /\ base' = Append(base, [work |-> call[c].work, how |-> Result(call[c].method)])
             /\ call' = [call EXCEPT ![c].pc = "record", ![c].sha = Tip + 1] /\ UNCHANGED inFlight
    <3>1. Lands(c)
      BY <2>1, <2>5 DEF Lands
    <3>2. QED
      BY <2>3, <2>4, <2>5, <3>1
  <2>6. CASE Tip = call[c].tip /\ ~Adds(call[c].method, call[c].work) /\ UNCHANGED <<base, inFlight>>
             /\ call' = [call EXCEPT ![c].pc = "record", ![c].sha = Tip]
    BY <2>3, <2>4, <2>6
  <2>7. QED
    BY <1>11, <2>2, <2>5, <2>6 DEF Push, Finish
<1>12. ASSUME NEW c \in Calls, Record(c) PROVE Goal
  <2>1. call[c].pc = "record" /\ state' = "MERGED" /\ UNCHANGED <<git, faults, reopened>>
    BY <1>12 DEF Record
  <2>2. RowMoves /\ BaseMoves /\ HeadMoves /\ RecordMoves
    BY <1>12, <2>1 DEF Record, RowMoves, BaseMoves, HeadMoves, RecordMoves
  <2>3. CASE Leave(c)
    BY <2>1, <2>2, <2>3, LeaveMoves
  <2>4. CASE To(c, "sweep") /\ UNCHANGED inFlight
    <3> DEFINE x == [call[c] EXCEPT !.pc = "sweep"]
    <3>1. x \in CallStates /\ x.pc = "sweep" /\ x.kind = call[c].kind
      BY <1>0 DEF CallStates, Pcs
    <3>2. call' = [call EXCEPT ![c] = x]
      BY <1>0, <2>4 DEF To
    <3> HIDE DEF x
    <3>3. call'[c] = x /\ (\A d \in Calls \ {c} : CallMoves(d)) /\ LatchMoves
      BY <2>1, <2>4, <3>1, <3>2, GoOnMoves
    <3>4. CallMoves(c)
      BY <3>1, <3>3 DEF CallMoves
    <3>5. QED
      BY <2>2, <3>3, <3>4
  <2>5. QED
    BY <1>12, <2>3, <2>4 DEF Record
<1>13. ASSUME NEW c \in Calls, Sweep(c) PROVE Goal
  BY <1>3, <1>13 DEF Sweep, HeadMoves
<1>14. ASSUME NEW c \in Calls, RecordRefused(c) PROVE Goal
  <2>1. BaseMoves /\ HeadMoves /\ RowMoves
    BY <1>14 DEF RecordRefused, BaseMoves, HeadMoves, RowMoves
  <2>2. RecordMoves
    BY <1>0, <1>14 DEF RecordRefused, RecordMoves
  <2>3. QED
    BY <1>14, <2>1, <2>2, LeaveMoves DEF RecordRefused, Finish
<1>15. ASSUME NEW e \in Editors, EditWrite(e) PROVE Goal
  <2>1. BaseMoves /\ HeadMoves
    BY <1>15 DEF EditWrite, BaseMoves, HeadMoves
  <2>2. RowMoves
    <3>1. CASE edit[e].op \in {"close", "reopen"}
      BY <1>15, <3>1 DEF EditWrite, NewState, RowMoves
    <3>2. CASE edit[e].op \notin {"close", "reopen"}
      BY <1>15, <3>2 DEF EditWrite, NewState, RowMoves
    <3>3. QED
      BY <3>1, <3>2
  <2>3. RecordMoves
    BY <1>15 DEF EditWrite, RecordMoves
  <2>4. QED
    BY <1>15, <2>1, <2>2, <2>3, NoCallMoves DEF EditWrite
<1>16. ASSUME PushHead \/ PushBase PROVE Goal
  <2>1. BaseMoves /\ HeadMoves /\ RowMoves /\ RecordMoves
    BY <1>16 DEF PushHead, PushBase, BaseMoves, HeadMoves, RowMoves, RecordMoves
  <2>2. QED
    BY <1>16, <2>1, NoCallMoves DEF PushHead, PushBase
<1>17. ASSUME Crash PROVE Goal
  <2>1. BaseMoves /\ HeadMoves /\ RowMoves
    BY <1>17 DEF Crash, BaseMoves, HeadMoves, RowMoves
  <2>2. RecordMoves
    BY <1>0, <1>17 DEF Crash, RecordMoves
  <2>3. \A c \in Calls : CallMoves(c)
    BY <1>17 DEF Crash, CallMoves, Idle
  <2>4. LatchMoves
    BY <1>17 DEF Crash, LatchMoves, Evaluations, Busy, Idle
  <2>5. QED
    BY <2>1, <2>2, <2>3, <2>4
\* the steps of clients and of CI that touch neither git, nor the calls, nor the landing
<1>18. ASSUME UNCHANGED <<call, inFlight, state, mergeSha, range, git, faults, reopened>> PROVE Goal
  <2>1. BaseMoves /\ HeadMoves /\ RowMoves /\ RecordMoves
    BY <1>18 DEF BaseMoves, HeadMoves, RowMoves, RecordMoves
  <2>2. QED
    BY <1>18, <2>1, NoCallMoves
<1>19. ASSUME NEW e \in Editors, EditBegins(e) PROVE Goal
  BY <1>18, <1>19 DEF EditBegins, EditRead
<1>20. ASSUME Surroundings PROVE Goal
  <2>1. ASSUME NEW h \in Versions, CheckStarts(h) \/ CheckEnds(h) PROVE Goal
    BY <1>18, <2>1 DEF CheckStarts, CheckEnds
  <2>2. ASSUME NEW u \in Reviewers, NEW v \in Verdicts, NEW h \in Versions, SubmitReview(u, v, h)
        PROVE  Goal
    BY <1>18, <2>2 DEF SubmitReview
  <2>3. ASSUME ArmerChanges PROVE Goal
    BY <1>18, <2>3 DEF ArmerChanges
  <2>4. QED
    BY <1>16, <1>17, <1>20, <2>1, <2>2, <2>3 DEF Surroundings
<1>21. CASE UNCHANGED vars
  BY <1>18, <1>21 DEF vars
<1>22. QED
  <2>1. ASSUME NEW c \in Calls, Request(c) PROVE Goal
    BY <1>1, <2>1 DEF Request
  <2>2. ASSUME NEW c \in Calls, CallStep(c) PROVE Goal
    BY <1>5, <1>6, <1>7, <1>8, <1>9, <1>10, <1>11, <1>12, <1>13, <2>2 DEF CallStep
  <2>3. QED
    BY <1>2, <1>14, <1>15, <1>19, <1>20, <1>21, <2>1, <2>2 DEF Next

(***************************************************************************)
(* Types and latch, for every behaviour.                                   *)
(***************************************************************************)

\* Every variable keeps its type, every call carries what its place asks for, and every
\* landing on the base branch is that of a version.
THEOREM TypeCorrect == Spec => []TypeOK
<1>1. Init => TypeInv
  BY TypeInit
<1>2. TypeInv /\ [Next]_vars => TypeInv'
  BY TypeStep
<1>3. TypeInv => TypeOK
  BY DEF TypeInv
<1>4. QED
  BY <1>1, <1>2, <1>3, PTL DEF Spec

LEMMA TypesAlways == Spec => []TypeInv
BY TypeInit, TypeStep, PTL DEF Spec

\* The in-flight latch of maybeAutoMergePr is set exactly while one evaluation runs, and
\* no way out of an evaluation, a crash included, leaves it set.
THEOREM LatchIsReleased == Spec => []OneEvaluation
<1>1. Init => LatchInv
  BY DEF Init, LatchInv, Evaluations, Busy, Idle
<1>2. TypeInv /\ LatchInv /\ [Next]_vars => LatchInv'
  <2> SUFFICES ASSUME TypeInv, LatchInv, [Next]_vars PROVE LatchInv'
    OBVIOUS
  <2>1. LatchMoves
    BY Moves
  <2>2. QED
    BY <2>1 DEF LatchMoves, LatchInv
<1>3. TypeInv /\ LatchInv => OneEvaluation
  <2> SUFFICES ASSUME TypeInv, LatchInv PROVE OneEvaluation
    OBVIOUS
  <2>1. CASE Evaluations = {}
    BY <2>1, FS_EmptySet DEF LatchInv, OneEvaluation
  <2>2. CASE Evaluations # {}
    <3>1. PICK c : Evaluations = {c}
      BY <2>2 DEF LatchInv
    <3>2. Cardinality(Evaluations) = 1
      BY <3>1, FS_Singleton
    <3>3. QED
      BY <2>2, <3>2 DEF LatchInv, OneEvaluation
  <2>3. QED
    BY <2>1, <2>2
<1>4. QED
  BY <1>1, <1>2, <1>3, TypesAlways, PTL DEF Spec

(***************************************************************************)
(* Landings.                                                               *)
(***************************************************************************)

\* The base branch only grows, by one commit at most.
LEMMA BaseGrows ==
  ASSUME TypeInv, [Next]_vars
  PROVE  /\ Tip \in Nat /\ Tip' \in {Tip, Tip + 1}
         /\ \A i \in 1..Tip : base[i] \in Commits /\ base'[i] = base[i]
         /\ Tip' = Tip => base' = base
         /\ Landings \subseteq Landings'
<1>1. base \in Seq(Commits) /\ Tip \in Nat /\ \A i \in 1..Tip : base[i] \in Commits
  BY TypeParts, LenProperties, ElementOfSeq DEF TypeInv, Tip
<1>2. BaseMoves
  BY Moves
<1>3. /\ Tip' \in {Tip, Tip + 1} /\ \A i \in 1..Tip : base'[i] = base[i]
      /\ Tip' = Tip => base' = base
  <2>1. CASE UNCHANGED base
    BY <1>1, <2>1 DEF Tip
  <2>2. ASSUME NEW x \in Commits, base' = Append(base, x)
        PROVE  Tip' = Tip + 1 /\ \A i \in 1..Tip : base'[i] = base[i]
    BY <1>1, <2>2, AppendFacts
  <2>3. [work |-> None, how |-> "other"] \in Commits
    BY DEF Commits
  <2>4. ASSUME NEW c \in Calls, Lands(c)
        PROVE  [work |-> call[c].work, how |-> Result(call[c].method)] \in Commits
    <3>1. call[c].work \in Versions /\ call[c].method \in Methods \cup {"merge"}
      BY <2>4 DEF Lands, TypeInv, Formed
    <3>2. Result(call[c].method) \in {"merge", "squash", "replay", "ff"}
      BY <3>1, MethodsAssumption DEF Result
    <3>3. QED
      BY <3>1, <3>2 DEF Commits
  <2>5. ASSUME BaseMoves, ~UNCHANGED base
        PROVE  Tip' = Tip + 1 /\ \A i \in 1..Tip : base'[i] = base[i]
    BY <2>2, <2>3, <2>4, <2>5 DEF BaseMoves, Lands
  <2>6. QED
    BY <1>1, <1>2, <2>1, <2>5
<1>4. Landings \subseteq Landings'
  <2>1. 1..Tip \subseteq 1..Tip'
    BY <1>1, <1>3
  <2>2. QED
    BY <1>3, <2>1 DEF Landings
<1>5. QED
  BY <1>1, <1>3, <1>4

\* What call c adds when it lands: the last commit, which brings its version.
LEMMA LandsFacts ==
  ASSUME TypeInv, NEW c \in Calls, Lands(c)
  PROVE  /\ Tip' = Tip + 1 /\ call[c].work \in Versions
         /\ base'[Tip + 1] = [work |-> call[c].work, how |-> Result(call[c].method)]
         /\ Result(call[c].method) \in {"merge", "squash", "replay", "ff"}
         /\ call[c].method = "merge" => Result(call[c].method) = "merge"
<1>1. call[c].work \in Versions /\ call[c].method \in Methods \cup {"merge"}
  BY DEF Lands, TypeInv, Formed
<1>2. Result(call[c].method) \in {"merge", "squash", "replay", "ff"}
  BY <1>1, MethodsAssumption DEF Result
<1>3. [work |-> call[c].work, how |-> Result(call[c].method)] \in Commits
  BY <1>1, <1>2 DEF Commits
<1>4. QED
  BY <1>1, <1>2, <1>3, AppendFacts, TypeParts DEF Lands, TypeInv, Result

BackedNext(sha, rg) ==
  /\ sha \in 1..Tip'
  /\ \E i \in Landings' : i <= sha /\ (rg # None => rg <= base'[i].work)

\* What backs a row stays on the base branch.
LEMMA BackedStays ==
  ASSUME TypeInv, [Next]_vars
  PROVE  \A sha, rg : Backed(sha, rg) => BackedNext(sha, rg)
<1> SUFFICES ASSUME NEW sha, NEW rg, Backed(sha, rg) PROVE BackedNext(sha, rg)
  OBVIOUS
<1>1. sha \in 1..Tip'
  BY BaseGrows DEF Backed
<1>2. PICK i \in Landings : i <= sha /\ (rg # None => rg <= base[i].work)
  BY DEF Backed
<1>3. i \in Landings' /\ base'[i] = base[i]
  BY BaseGrows DEF Landings
<1>4. QED
  BY <1>1, <1>2, <1>3 DEF BackedNext

LEMMA CarriesStep ==
  ASSUME TypeInv, Carries, [Next]_vars
  PROVE  Carries'
<1> SUFFICES ASSUME NEW c \in Calls
             PROVE  /\ call'[c].pc = "clone" /\ call'[c].range # None /\ head' # None
                         => call'[c].range <= head'
                    /\ call'[c].pc = "push" =>
                         /\ call'[c].range # None => call'[c].range <= call'[c].work
                         /\ call'[c].tip <= Tip'
                         /\ Tip' = call'[c].tip =>
                              ~\E i \in 1..Tip' : base'[i].how \in {"merge", "ff"} /\ base'[i].work >= call'[c].work
                    /\ call'[c].pc = "record" => BackedNext(call'[c].sha, call'[c].range)
  BY DEF Carries, Backed, BackedNext, IsAncestor
<1>1. CallMoves(c) /\ HeadMoves
  BY Moves
<1>2. /\ Tip \in Nat /\ Tip' \in {Tip, Tip + 1} /\ (Tip' = Tip => base' = base)
      /\ \A i \in 1..Tip : base[i] \in Commits /\ base'[i] = base[i]
  BY BaseGrows
<1>3. /\ call[c] \in CallStates /\ head \in Versions \cup {None} /\ Versions \subseteq Nat
      /\ None \notin Nat
  BY TypeParts, NoneAssumption DEF TypeInv, OtherTypes, Versions
<1>4. CASE call'[c] = call[c]
  <2>1. call[c].pc = "clone" /\ call[c].range # None /\ head' # None => call[c].range <= head'
    <3>1. call[c].range \in Nat \cup {None} /\ head \in Nat \cup {None}
      BY <1>3 DEF CallStates
    <3>2. QED
      BY <1>1, <1>3, <3>1 DEF HeadMoves, Carries
  <2>2. ASSUME call[c].pc = "push"
        PROVE  /\ call[c].range # None => call[c].range <= call[c].work
               /\ call[c].tip <= Tip'
               /\ Tip' = call[c].tip =>
                    ~\E i \in 1..Tip' : base'[i].how \in {"merge", "ff"} /\ base'[i].work >= call[c].work
    <3>1. call[c].tip \in Nat /\ call[c].tip <= Tip
      BY <1>3, <2>2, BoundsAssumption DEF CallStates, Carries
    <3>2. call[c].range # None => call[c].range <= call[c].work
      BY <2>2 DEF Carries
    <3>3. ASSUME Tip' = call[c].tip PROVE Tip' = Tip /\ base' = base /\ ~IsAncestor(call[c].work)
      BY <1>2, <2>2, <3>1, <3>3 DEF Carries
    <3>4. QED
      BY <1>2, <3>1, <3>2, <3>3 DEF IsAncestor
  <2>3. call[c].pc = "record" => BackedNext(call[c].sha, call[c].range)
    BY BackedStays DEF Carries
  <2>4. QED
    BY <1>4, <2>1, <2>2, <2>3
<1>5. CASE call'[c].pc \notin {"clone", "push", "record"}
  BY <1>5
<1>6. CASE call'[c].pc = "clone" /\ call'[c].range = head /\ UNCHANGED git
  BY <1>3, <1>6
<1>7. CASE /\ call[c].pc = "clone" /\ call'[c].pc = "push" /\ UNCHANGED git
           /\ call'[c].range = call[c].range /\ call'[c].work = head /\ call'[c].tip = Tip
           /\ head # None /\ ~IsAncestor(head)
  <2>1. call'[c].range # None => call'[c].range <= call'[c].work
    BY <1>7 DEF Carries
  <2>2. Tip' = Tip /\ base' = base
    BY <1>7 DEF Tip
  <2>3. QED
    BY <1>2, <1>7, <2>1, <2>2 DEF IsAncestor
<1>8. CASE /\ call[c].pc = "push" /\ call'[c].pc = "record" /\ call'[c].range = call[c].range
           /\ call'[c].sha = Tip + 1 /\ Lands(c)
  <2>1. call[c].range # None => call[c].range <= call[c].work
    BY <1>8 DEF Carries
  <2>2. /\ Tip' = Tip + 1
        /\ base'[Tip + 1].work = call[c].work /\ base'[Tip + 1].how # "other"
    <3>1. /\ base'[Tip + 1] = [work |-> call[c].work, how |-> Result(call[c].method)]
          /\ Result(call[c].method) \in {"merge", "squash", "replay", "ff"} /\ Tip' = Tip + 1
      BY <1>8, LandsFacts
    <3>2. base'[Tip + 1].work = call[c].work /\ base'[Tip + 1].how = Result(call[c].method)
      BY <3>1
    <3>3. QED
      BY <3>1, <3>2
  <2>3. Tip + 1 \in Landings'
    BY <1>2, <2>2 DEF Landings
  <2>4. QED
    BY <1>2, <1>8, <2>1, <2>2, <2>3 DEF BackedNext
<1>9. CASE /\ call[c].pc = "push" /\ call'[c].pc = "record" /\ call'[c].range = call[c].range
           /\ call'[c].sha = Tip /\ UNCHANGED base /\ ~Adds(call[c].method, call[c].work)
  <2>1. PICK i \in 1..Tip : base[i].how # "other" /\ base[i].work >= call[c].work
    BY <1>9 DEF Adds, Carried
  <2>2. base[i].work \in Nat /\ call[c].work \in Nat /\ call[c].range \in Nat \cup {None}
    BY <1>3, <1>9, <2>1 DEF TypeInv, BaseFormed, Formed, CallStates
  <2>3. call[c].range # None => call[c].range <= base[i].work
    BY <1>3, <1>9, <2>1, <2>2 DEF Carries
  <2>4. Tip' = Tip /\ base' = base
    BY <1>9 DEF Tip
  <2>5. i \in Landings' /\ Tip \in 1..Tip'
    BY <1>2, <2>1, <2>4 DEF Landings
  <2>6. QED
    BY <1>2, <1>9, <2>3, <2>4, <2>5 DEF BackedNext
<1>10. QED
  BY <1>1, <1>4, <1>5, <1>6, <1>7, <1>8, <1>9 DEF CallMoves

LEMMA BackedStep ==
  ASSUME TypeInv, Carries, MergedRowIsBacked, [Next]_vars
  PROVE  MergedRowIsBacked'
<1>1. RowMoves
  BY Moves
<1>2. CASE state' # "MERGED"
  BY <1>2 DEF MergedRowIsBacked
<1>3. CASE state' = "MERGED" /\ UNCHANGED <<state, mergeSha, range>>
  <2>1. Backed(mergeSha, range)
    BY <1>3 DEF MergedRowIsBacked, Backed
  <2>2. BackedNext(mergeSha, range)
    BY <2>1, BackedStays
  <2>3. QED
    BY <1>3, <2>2 DEF MergedRowIsBacked, BackedNext
<1>4. ASSUME NEW c \in Calls, call[c].pc = "record", mergeSha' = call[c].sha, range' = call[c].range
      PROVE  MergedRowIsBacked'
  <2>1. Backed(call[c].sha, call[c].range)
    BY <1>4 DEF Carries
  <2>2. BackedNext(call[c].sha, call[c].range)
    BY <2>1, BackedStays
  <2>3. QED
    BY <1>4, <2>2 DEF MergedRowIsBacked, BackedNext
<1>5. QED
  BY <1>1, <1>2, <1>3, <1>4 DEF RowMoves

LEMMA OnceStep ==
  ASSUME TypeInv, Carries, NoWorkLandsTwice, [Next]_vars
  PROVE  NoWorkLandsTwice'
<1> SUFFICES ASSUME NEW i \in Landings', NEW j \in Landings', i < j, base'[j].work <= base'[i].work
             PROVE  base'[j].how = "merge" /\ base'[i].how \in {"squash", "replay"}
  BY DEF NoWorkLandsTwice
<1>1. /\ Tip \in Nat /\ Tip' \in {Tip, Tip + 1} /\ (Tip' = Tip => base' = base)
      /\ \A k \in 1..Tip : base[k] \in Commits /\ base'[k] = base[k]
  BY BaseGrows
<1>2. i \in 1..Tip' /\ j \in 1..Tip' /\ i \in 1..Tip
  BY <1>1 DEF Landings
<1>3. CASE j \in 1..Tip
  <2>1. i \in Landings /\ j \in Landings
    BY <1>1, <1>2, <1>3 DEF Landings
  <2>2. QED
    BY <1>1, <1>2, <1>3, <2>1 DEF NoWorkLandsTwice
<1>4. CASE j \notin 1..Tip
  <2>1. j = Tip + 1 /\ Tip' = Tip + 1 /\ base' # base
    BY <1>1, <1>2, <1>4 DEF Tip
  <2>2. base' # Append(base, [work |-> None, how |-> "other"])
    <3>1. ASSUME base' = Append(base, [work |-> None, how |-> "other"]) PROVE FALSE
      <4>1. [work |-> None, how |-> "other"] \in Commits
        BY DEF Commits
      <4>2. base'[j] = [work |-> None, how |-> "other"]
        BY <2>1, <3>1, <4>1, AppendFacts, TypeParts DEF TypeInv
      <4>3. QED
        BY <4>2 DEF Landings
    <3>2. QED
      BY <3>1
  <2>3. PICK c \in Calls : Lands(c)
    BY <2>1, <2>2, Moves DEF BaseMoves
  <2>4. base'[j] = [work |-> call[c].work, how |-> Result(call[c].method)]
    BY <2>1, <2>3, LandsFacts
  <2>5. base[i].how # "other" /\ base[i].work >= call[c].work
    <3>1. call[c].work \in Nat /\ base[i].how # "other"
      <4>1. call[c].work \in Versions
        BY <2>3, LandsFacts
      <4>2. base'[i].how # "other"
        BY DEF Landings
      <4>3. QED
        BY <1>1, <1>2, <4>1, <4>2 DEF Versions
    <3>2. base[i].work \in Nat
      BY <1>2, <3>1 DEF TypeInv, BaseFormed, Versions
    <3>3. QED
      BY <1>1, <1>2, <2>4, <3>1, <3>2
  <2>6. base'[j].how = "merge"
    <3>1. Carried(call[c].work)
      BY <1>2, <2>5 DEF Carried
    <3>2. call[c].method = "merge"
      BY <2>3, <3>1 DEF Lands, Adds
    <3>3. Result(call[c].method) = "merge"
      BY <3>2 DEF Result
    <3>4. QED
      BY <2>4, <3>3
  <2>7. base[i].how \notin {"merge", "ff"}
    BY <1>2, <2>3, <2>5 DEF Lands, Carries, IsAncestor
  <2>8. QED
    BY <1>1, <1>2, <2>5, <2>6, <2>7 DEF Commits
<1>5. QED
  BY <1>3, <1>4

\* A row that reads MERGED names a commit of the base branch at or after a landing of the
\* range it records, whichever racing merge wrote it last.
THEOREM MergedIsBacked == Spec => []MergedRowIsBacked
<1>1. Init => Carries /\ MergedRowIsBacked
  BY DEF Init, Carries, Idle, MergedRowIsBacked
<1>2. TypeInv /\ Carries /\ MergedRowIsBacked /\ [Next]_vars => (Carries /\ MergedRowIsBacked)'
  BY CarriesStep, BackedStep
<1>3. QED
  BY <1>1, <1>2, TypesAlways, PTL DEF Spec

\* Racing merges bring no version in twice, a merge commit over a squash or a replay
\* excepted.
THEOREM WorkLandsOnce == Spec => []NoWorkLandsTwice
<1>1. Init => Carries /\ NoWorkLandsTwice
  BY EmptySeq DEF Init, Carries, Idle, NoWorkLandsTwice, Landings, Tip
<1>2. TypeInv /\ Carries /\ NoWorkLandsTwice /\ [Next]_vars => (Carries /\ NoWorkLandsTwice)'
  BY CarriesStep, OnceStep
<1>3. QED
  BY <1>1, <1>2, TypesAlways, PTL DEF Spec

\* What landed reads MERGED or is about to, unless the process crashed, the write was
\* refused or a stale close or reopen overwrote it.
THEOREM LandingsAreRecorded == Spec => []LandingIsRecorded
<1>1. Init => LandingIsRecorded
  BY EmptySeq DEF Init, LandingIsRecorded, Landings, Tip
<1>2. TypeInv /\ LandingIsRecorded /\ [Next]_vars => LandingIsRecorded'
  <2> SUFFICES ASSUME TypeInv, LandingIsRecorded, [Next]_vars,
                      Landings' # {}, faults' = 0, ~reopened'
               PROVE  state' = "MERGED" \/ \E c \in Calls : call'[c].pc = "record"
    BY DEF LandingIsRecorded, Busy
  <2>1. RecordMoves /\ BaseMoves
    BY Moves
  <2>2. CASE Landings # {}
    BY <2>1, <2>2 DEF LandingIsRecorded, RecordMoves, Busy
  <2>3. CASE Landings = {}
    <3>1. PICK i \in Landings' : TRUE
      OBVIOUS
    <3>2. i \in 1..Tip' /\ base'[i].how # "other" /\ i \notin 1..Tip
      BY <2>3, BaseGrows DEF Landings
    <3>3. i = Tip + 1
      BY <3>2, BaseGrows
    <3>4. base' # base
      BY <3>2 DEF Tip
    <3>5. base' # Append(base, [work |-> None, how |-> "other"])
      <4>1. ASSUME base' = Append(base, [work |-> None, how |-> "other"]) PROVE FALSE
        <5>1. [work |-> None, how |-> "other"] \in Commits
          BY DEF Commits
        <5>2. base'[i] = [work |-> None, how |-> "other"]
          BY <3>3, <4>1, <5>1, AppendFacts, TypeParts DEF TypeInv
        <5>3. QED
          BY <3>2, <5>2
      <4>2. QED
        BY <4>1
    <3>6. QED
      BY <2>1, <3>4, <3>5 DEF BaseMoves
  <2>4. QED
    BY <2>2, <2>3
<1>3. QED
  BY <1>1, <1>2, TypesAlways, PTL DEF Spec

(***************************************************************************)
(* Gates.  What a call was told at its awaits is still so, as long as none *)
(* of what it depends on has changed: the history raced holds the others.  *)
(***************************************************************************)
Ready(k) ==
  state = "OPEN" /\ ~draft /\ (k.kind = "auto" => armed = k.method /\ armer = "ok")

Cleared(k) ==
  head # None =>
    /\ RequiredApprovals > 0 =>
         Cardinality(Verdict("approved")) >= RequiredApprovals /\ Verdict("changes_requested") = {}
    /\ RequireGreen \/ k.kind = "auto" => checks[head] \in {"none", "success"}
    /\ k.override \/ Verdict("changes_requested") = {}

Judged(k) ==
  /\ k.pc \in {"head", "gate", "range", "clone", "push"} => Ready(k)
  /\ k.pc = "gate" => k.seen = head
  /\ k.pc \in {"range", "clone", "push"} => Cleared(k)
  /\ k.pc = "push" => k.work = head

JudgedInv == \A c \in Calls \ raced : Judged(call[c])

LEMMA IdleIsJudged == Judged(Idle) /\ Judged(Idle)'
BY DEF Judged, Idle

\* For a head that exists, what the gates count are the verdicts on that very version.
LEMMA CurrentIsVerdict ==
  ASSUME TypeInv, head # None, NEW v \in Verdicts
  PROVE  Current(v, head) = Verdict(v) /\ Cardinality(Verdict(v)) \in Nat
<1>1. \A u \in Reviewers : review[u] \in [verdict: Verdicts, at: Versions \cup {None}]
  BY TypeParts DEF TypeInv, OtherTypes
<1>2. \A u \in Reviewers : review[u] = [verdict |-> v, at |-> head] <=>
                           review[u].verdict = v /\ review[u].at = head
  BY <1>1
<1>3. Current(v, head) = Verdict(v)
  BY <1>2 DEF Current, Verdict
<1>4. Cardinality(Verdict(v)) \in Nat
  <2>1. Verdict(v) \subseteq Reviewers
    BY DEF Verdict
  <2>2. IsFiniteSet(Verdict(v))
    BY <2>1, ReviewersAssumption, FS_Subset
  <2>3. QED
    BY <2>2, FS_CardinalityType
<1>5. QED
  BY <1>3, <1>4

\* A call that the gates let through, at the head it was judged for, is cleared.
LEMMA GatesClear ==
  ASSUME TypeInv, NEW c \in Calls, call[c].seen = head,
         IF call[c].kind = "auto" THEN AutoPasses(call[c].seen) ELSE EndpointPasses(c)
  PROVE  Cleared(call[c])
<1> SUFFICES ASSUME head # None PROVE Cleared(call[c])
  BY DEF Cleared
<1>1. /\ "approved" \in Verdicts /\ "changes_requested" \in Verdicts
      /\ RequiredApprovals \in Nat
  BY BoundsAssumption DEF Verdicts
<1>2. /\ Current("approved", head) = Verdict("approved")
      /\ Cardinality(Verdict("approved")) \in Nat
      /\ Current("changes_requested", head) = Verdict("changes_requested")
  BY <1>1, CurrentIsVerdict
<1>3. checks[head] \in {"none", "pending", "success", "failure"}
  BY TypeParts DEF TypeInv, OtherTypes
<1>4. ~ProtectionBlocks(head)
  BY DEF AutoPasses, EndpointPasses
<1>5. RequiredApprovals > 0 =>
        Cardinality(Verdict("approved")) >= RequiredApprovals /\ Verdict("changes_requested") = {}
  BY <1>1, <1>2, <1>4 DEF ProtectionBlocks, ChangesRequested
<1>6. RequireGreen \/ call[c].kind = "auto" => checks[head] \in {"none", "success"}
  BY <1>3, <1>4 DEF ProtectionBlocks, NotGreen, AutoPasses
<1>7. call[c].override \/ Verdict("changes_requested") = {}
  BY <1>2 DEF AutoPasses, EndpointPasses, ChangesRequested
<1>8. QED
  BY <1>5, <1>6, <1>7 DEF Cleared

\* A step that changes what the calls depend on counts every call in progress as raced,
\* but for the call that ends with it.
LEMMA DisturbedJudged ==
  ASSUME \A c \in Calls : call'[c] = call[c] \/ call'[c] = Idle \/ c \in raced',
         \A c \in Busy : c \in raced' \/ call'[c] = Idle
  PROVE  JudgedInv'
<1> SUFFICES ASSUME NEW c \in Calls, c \notin raced' PROVE Judged(call[c])'
  BY DEF JudgedInv
<1>1. CASE call'[c] = Idle
  BY <1>1, IdleIsJudged DEF Judged, Idle
<1>2. CASE call'[c] = call[c] /\ call[c].pc = "idle"
  BY <1>2 DEF Judged
<1>3. QED
  BY <1>1, <1>2 DEF Busy

\* A step that changes none of it moves one call at most.
LEMMA UndisturbedJudged ==
  ASSUME JudgedInv, UNCHANGED <<state, draft, armed, armer, head, gates>>,
         \A c \in Calls \ raced' : (call'[c] = call[c] /\ c \notin raced) \/ Judged(call[c])'
  PROVE  JudgedInv'
<1> SUFFICES ASSUME NEW c \in Calls, c \notin raced' PROVE Judged(call[c])'
  BY DEF JudgedInv
<1>1. CASE call'[c] = call[c] /\ c \notin raced
  BY <1>1 DEF JudgedInv, Judged, Ready, Cleared, Verdict
<1>2. QED
  BY <1>1

\* So does a call that ends.
LEMMA FinishJudged ==
  ASSUME TypeInv, JudgedInv, UNCHANGED <<state, draft, armed, armer, head, gates>>,
         NEW c \in Calls, Finish(c)
  PROVE  JudgedInv'
<1>1. call'[c] = Idle /\ (\A d \in Calls \ {c} : call'[d] = call[d]) /\ raced' = raced \ {c}
  BY LeaveFacts DEF Finish
<1>2. Judged(call[c])'
  BY <1>1 DEF Judged, Idle
<1>3. QED
  BY <1>1, <1>2, UndisturbedJudged

LEMMA JudgedStep ==
  ASSUME TypeInv, JudgedInv, [Next]_vars
  PROVE  JudgedInv'
<1>0. call \in [Calls -> CallStates] /\ raced \subseteq Busy
  BY TypeParts DEF TypeInv
<1>1. ASSUME NEW c \in Calls, NEW kind \in {"merge", "resolve"}, NEW m \in Methods \cup {"merge"},
             NEW override \in BOOLEAN, Begin(c, kind, m, override)
      PROVE  JudgedInv'
  <2>1. /\ call'[c].pc = "head" /\ call'[c].kind = kind
        /\ \A d \in Calls \ {c} : call'[d] = call[d]
    BY <1>0, <1>1 DEF Begin, Idle
  <2>2. Judged(call[c])'
    BY <1>1, <2>1 DEF Begin, Judged, Ready
  <2>3. UNCHANGED <<state, draft, armed, armer, head, gates, raced>>
    BY <1>1 DEF Begin
  <2>4. QED
    BY <2>1, <2>2, <2>3, UndisturbedJudged
<1>2. ASSUME NEW s \in signals, Signal(s) PROVE JudgedInv'
  <2>1. UNCHANGED <<state, draft, armed, armer, head, gates, raced>>
    BY <1>2 DEF Signal
  <2>2. CASE UNCHANGED call
    BY <2>1, <2>2, UndisturbedJudged
  <2>3. CASE ~UNCHANGED call
    <3>1. PICK c \in Calls : call' = [call EXCEPT ![c] = [Idle EXCEPT !.pc = "read", !.kind = "auto"]]
      BY <1>2, <2>3 DEF Signal
    <3>2. call'[c].pc = "read" /\ \A d \in Calls \ {c} : call'[d] = call[d]
      BY <1>0, <3>1 DEF Idle
    <3>3. Judged(call[c])'
      BY <3>2 DEF Judged
    <3>4. QED
      BY <2>1, <3>2, <3>3, UndisturbedJudged
  <2>4. QED
    BY <2>2, <2>3
<1>3. ASSUME NEW c \in Calls, AutoRead(c) PROVE JudgedInv'
  <2>1. UNCHANGED <<state, draft, armed, armer, head, gates>>
    BY <1>3 DEF AutoRead
  <2>2. CASE Finish(c)
    BY <2>1, <2>2, FinishJudged
  <2>3. CASE /\ state = "OPEN" /\ armed # None /\ armer = "ok" /\ ~draft /\ UNCHANGED raced
             /\ call' = [call EXCEPT ![c].pc = "head", ![c].method = armed]
    <3>1. /\ call'[c].pc = "head" /\ call'[c].method = armed
          /\ \A d \in Calls \ {c} : call'[d] = call[d]
      BY <1>0, <2>3 DEF CallStates
    <3>2. Judged(call[c])'
      BY <2>1, <2>3, <3>1 DEF Judged, Ready
    <3>3. QED
      BY <2>1, <2>3, <3>1, <3>2, UndisturbedJudged
  <2>4. CASE To(c, "disarm") /\ UNCHANGED raced
    <3>1. call'[c].pc = "disarm" /\ \A d \in Calls \ {c} : call'[d] = call[d]
      BY <1>0, <2>4 DEF To, CallStates
    <3>2. Judged(call[c])'
      BY <3>1 DEF Judged
    <3>3. QED
      BY <2>1, <2>4, <3>1, <3>2, UndisturbedJudged
  <2>5. QED
    BY <1>3, <2>2, <2>3, <2>4 DEF AutoRead
<1>4. ASSUME NEW c \in Calls, Leave(c), raced' = Busy \ {c} PROVE JudgedInv'
  <2>1. call'[c] = Idle /\ \A d \in Calls \ {c} : call'[d] = call[d]
    BY <1>4, LeaveFacts
  <2>2. QED
    BY <1>4, <2>1, DisturbedJudged
<1>5. ASSUME NEW c \in Calls, ReadHead(c) PROVE JudgedInv'
  <2>1. /\ UNCHANGED <<state, draft, armed, armer, head, gates, raced>> /\ call[c].pc = "head"
        /\ call' = [call EXCEPT ![c].pc = "gate", ![c].seen = head]
    BY <1>5 DEF ReadHead
  <2>2. /\ call'[c].pc = "gate" /\ call'[c].seen = head /\ call'[c].kind = call[c].kind
        /\ call'[c].method = call[c].method /\ \A d \in Calls \ {c} : call'[d] = call[d]
    BY <1>0, <2>1 DEF CallStates
  <2>3. c \notin raced => Judged(call[c])'
    BY <2>1, <2>2 DEF JudgedInv, Judged, Ready
  <2>4. QED
    BY <2>1, <2>2, <2>3, UndisturbedJudged
<1>6. ASSUME NEW c \in Calls, Gate(c) PROVE JudgedInv'
  <2>1. UNCHANGED <<state, draft, armed, armer, head, gates>> /\ call[c].pc = "gate"
    BY <1>6 DEF Gate
  <2>2. CASE Finish(c)
    BY <2>1, <2>2, FinishJudged
  <2>3. CASE /\ IF call[c].kind = "auto" THEN AutoPasses(call[c].seen) ELSE EndpointPasses(c)
             /\ call' = [call EXCEPT ![c].pc = "range", ![c].seen = None] /\ UNCHANGED raced
    <3>1. /\ call'[c].pc = "range" /\ call'[c].kind = call[c].kind /\ call'[c].method = call[c].method
          /\ call'[c].override = call[c].override /\ \A d \in Calls \ {c} : call'[d] = call[d]
      BY <1>0, <2>3 DEF CallStates
    <3>2. ASSUME c \notin raced PROVE Judged(call[c])'
      <4>1. Ready(call[c]) /\ call[c].seen = head
        BY <2>1, <3>2 DEF JudgedInv, Judged
      <4>2. Cleared(call[c])
        BY <2>3, <4>1, GatesClear
      <4>3. QED
        BY <2>1, <3>1, <4>1, <4>2 DEF Judged, Ready, Cleared, Verdict
    <3>3. QED
      BY <2>1, <2>3, <3>1, <3>2, UndisturbedJudged
  <2>4. QED
    BY <1>6, <2>2, <2>3 DEF Gate
<1>7. ASSUME NEW c \in Calls, ReadRange(c) PROVE JudgedInv'
  <2>1. /\ UNCHANGED <<state, draft, armed, armer, head, gates, raced>> /\ call[c].pc = "range"
        /\ call' = [call EXCEPT ![c].pc = "clone", ![c].range = head]
    BY <1>7 DEF ReadRange
  <2>2. /\ call'[c].pc = "clone" /\ call'[c].kind = call[c].kind /\ call'[c].method = call[c].method
        /\ call'[c].override = call[c].override /\ \A d \in Calls \ {c} : call'[d] = call[d]
    BY <1>0, <2>1 DEF CallStates
  <2>3. c \notin raced => Judged(call[c])'
    BY <2>1, <2>2 DEF JudgedInv, Judged, Ready, Cleared, Verdict
  <2>4. QED
    BY <2>1, <2>2, <2>3, UndisturbedJudged
<1>8. ASSUME NEW c \in Calls, Clone(c) PROVE JudgedInv'
  <2>1. UNCHANGED <<state, draft, armed, armer, head, gates>> /\ call[c].pc = "clone"
    BY <1>8 DEF Clone
  <2>2. CASE Finish(c)
    BY <2>1, <2>2, FinishJudged
  <2>3. CASE /\ call' = [call EXCEPT ![c].pc = "push", ![c].tip = Tip, ![c].work = head]
             /\ UNCHANGED raced
    <3>1. /\ call'[c].pc = "push" /\ call'[c].kind = call[c].kind /\ call'[c].method = call[c].method
          /\ call'[c].override = call[c].override /\ call'[c].work = head
          /\ \A d \in Calls \ {c} : call'[d] = call[d]
      BY <1>0, <2>3 DEF CallStates
    <3>2. c \notin raced => Judged(call[c])'
      BY <2>1, <3>1 DEF JudgedInv, Judged, Ready, Cleared, Verdict
    <3>3. QED
      BY <2>1, <2>3, <3>1, <3>2, UndisturbedJudged
  <2>4. QED
    BY <1>8, <2>2, <2>3 DEF Clone
<1>9. ASSUME NEW c \in Calls, Push(c) PROVE JudgedInv'
  <2>1. UNCHANGED <<state, draft, armed, armer, head, gates>>
    BY <1>9 DEF Push
  <2>2. CASE Finish(c)
    BY <2>1, <2>2, FinishJudged
  <2>3. ASSUME NEW n, call' = [call EXCEPT ![c].pc = "record", ![c].sha = n], UNCHANGED raced
        PROVE  JudgedInv'
    <3>1. call'[c].pc = "record" /\ \A d \in Calls \ {c} : call'[d] = call[d]
      BY <1>0, <2>3 DEF CallStates
    <3>2. Judged(call[c])'
      BY <3>1 DEF Judged
    <3>3. QED
      BY <2>1, <2>3, <3>1, <3>2, UndisturbedJudged
  <2>4. QED
    BY <1>9, <2>2, <2>3 DEF Push
<1>10. ASSUME NEW c \in Calls, Record(c) PROVE JudgedInv'
  <2>1. CASE Leave(c) /\ raced' = Busy \ {c}
    BY <1>4, <2>1
  <2>2. CASE To(c, "sweep") /\ raced' = Busy
    <3>1. c \in Busy
      BY <1>10 DEF Record, Busy
    <3>2. \A d \in Calls \ {c} : call'[d] = call[d]
      BY <1>0, <2>2 DEF To
    <3>3. QED
      BY <2>2, <3>1, <3>2, DisturbedJudged
  <2>3. QED
    BY <1>10, <2>1, <2>2 DEF Record, Disturb
<1>11. ASSUME NEW c \in Calls, RecordRefused(c) PROVE JudgedInv'
  BY <1>11, FinishJudged DEF RecordRefused
<1>12. ASSUME UNCHANGED call, Disturb PROVE JudgedInv'
  BY <1>12, DisturbedJudged DEF Disturb
<1>13. ASSUME UNCHANGED <<state, draft, armed, armer, head, gates, call, raced>> PROVE JudgedInv'
  BY <1>13, UndisturbedJudged
<1>14. ASSUME Crash PROVE JudgedInv'
  <2>1. \A c \in Calls : call'[c] = Idle
    BY <1>14 DEF Crash
  <2>2. QED
    BY <2>1, DisturbedJudged DEF Busy
<1>15. ASSUME NEW e \in Editors, EditBegins(e) \/ EditWrite(e) PROVE JudgedInv'
  BY <1>12, <1>13, <1>15 DEF EditBegins, EditRead, EditWrite
<1>16. ASSUME Surroundings PROVE JudgedInv'
  <2>1. ASSUME NEW h \in Versions, CheckStarts(h) \/ CheckEnds(h) PROVE JudgedInv'
    BY <1>12, <2>1 DEF CheckStarts, CheckEnds
  <2>2. ASSUME NEW u \in Reviewers, NEW v \in Verdicts, NEW h \in Versions, SubmitReview(u, v, h)
        PROVE  JudgedInv'
    BY <1>12, <2>2 DEF SubmitReview
  <2>3. ASSUME ArmerChanges \/ PushHead PROVE JudgedInv'
    BY <1>12, <2>3 DEF ArmerChanges, PushHead
  <2>4. ASSUME PushBase PROVE JudgedInv'
    BY <1>13, <2>4 DEF PushBase
  <2>5. QED
    BY <1>14, <1>16, <2>1, <2>2, <2>3, <2>4 DEF Surroundings
<1>17. CASE UNCHANGED vars
  BY <1>13, <1>17 DEF vars
<1>18. QED
  <2>1. ASSUME NEW c \in Calls, Request(c) PROVE JudgedInv'
    BY <1>1, <2>1 DEF Request
  <2>2. ASSUME NEW c \in Calls, Disarm(c) \/ Sweep(c) PROVE JudgedInv'
    BY <1>4, <2>2 DEF Disarm, Sweep
  <2>3. ASSUME NEW c \in Calls, CallStep(c) PROVE JudgedInv'
    BY <1>3, <1>5, <1>6, <1>7, <1>8, <1>9, <1>10, <2>2, <2>3 DEF CallStep
  <2>4. QED
    BY <1>2, <1>11, <1>15, <1>16, <1>17, <2>1, <2>3 DEF Next

\* A merge that nothing raced lands only what the rules allow at that moment, for any
\* number of reviewers, any required approvals and any mixture of the other rules.
THEOREM GatesHold == Spec => GatesHoldUnlessRaced
<1> DEFINE Rule == \A c \in Calls \ raced :
                     call[c].pc = "push" /\ call'[c].pc = "record" => Landable(call[c])
<1>1. Init => JudgedInv
  BY DEF Init, JudgedInv, Judged, Idle
<1>2. TypeInv /\ JudgedInv /\ [Next]_vars => JudgedInv'
  BY JudgedStep
<1>3. TypeInv /\ JudgedInv => [Rule]_vars
  <2> SUFFICES ASSUME TypeInv, JudgedInv, NEW c \in Calls \ raced, call[c].pc = "push"
               PROVE  Landable(call[c])
    OBVIOUS
  <2>1. Ready(call[c]) /\ Cleared(call[c]) /\ call[c].work = head
    BY DEF JudgedInv, Judged
  <2>2. head # None
    BY <2>1, NoneAssumption DEF TypeInv, Formed, Versions
  <2>3. QED
    BY <2>1, <2>2 DEF Ready, Cleared, Landable
<1>4. QED
  BY <1>1, <1>2, <1>3, TypesAlways, PTL DEF Spec, GatesHoldUnlessRaced
=============================================================================

------------------------ MODULE PushReceptionProofs -------------------------
(***************************************************************************)
(* What the branch's movers report, for any tree of commits and any number *)
(* of requests.                                                            *)
(***************************************************************************)
EXTENDS PushReception, TLAPS

Places == {"new", "receive", "report", "swap", "read", "count", "done"}
Fields == [pc: Places, kind: Kinds \cup {None}, before: Tips, base: Tips, new: Tips, read: Versions]

\* What a request knows at each await.
Sound(r, commits) ==
  /\ {r.before, r.base, r.new} \subseteq commits \cup {None}
  /\ r.pc = "swap" /\ r.kind \in {"commit", "suggest"} =>
       Parent[r.new] = IF r.base = None THEN Root ELSE r.base
  /\ r.pc = "receive" => r.kind = "push"
  /\ r.kind = "suggest" => r.base # None
  /\ r.pc = "swap" /\ r.kind = "sync" => r.new = Upstream
  /\ r.pc = "swap" => r.new \in Commits

\* It will report where the branch points: it moved it there, and can tell that it did.
Announces(r, t) ==
  /\ r.pc = "report" /\ r.new = t
  /\ r.kind \in {"push", "commit"} => r.before # t

\* It will take back the ticks on the file, which it changed.
TakesTicks(r, t) ==
  /\ r.pc = "report" /\ r.new # None
  /\ \/ r.kind \in {"push", "commit"} /\ VersionAt(r.before) # VersionAt(t)
     \/ r.kind = "suggest" /\ VersionAt(r.base) # VersionAt(r.new)

Plain ==
  /\ tip \in Tips /\ made \subseteq Commits
  /\ resets \subseteq Tips \X Tips
  /\ open \in BOOLEAN /\ page \in Versions /\ tick \in Versions
  /\ failures \in 0..MaxFaults
  /\ told \in BOOLEAN /\ unseen \in BOOLEAN /\ blind \in BOOLEAN /\ returned \in BOOLEAN
  /\ tip \in made \cup {None} /\ {Root, Upstream} \subseteq made

RequestsAreSound == req \in [Requests -> Fields] /\ \A q \in Requests : Sound(req[q], made)

Announced == tip = None \/ unseen \/ told \/ \E q \in Requests : Announces(req[q], tip)

ResetWaits == \E old, new \in Tips : <<old, new>> \in resets /\ TakesBack(old, new)
TickIsTrue ==
  tip # None /\ tick # None /\ ~blind =>
    tick = VersionAt(tip) \/ ResetWaits \/ \E q \in Requests : TakesTicks(req[q], tip)

RefsInv == Plain /\ RequestsAreSound /\ Announced /\ TickIsTrue

-----------------------------------------------------------------------------
LEMMA VersionsAreVersions ==
  /\ None \in Versions
  /\ \A c \in Tips : VersionAt(c) \in Versions
  /\ \A c \in Commits : c # None /\ VersionAt(c) = Version[c] /\ VersionAt(c) # None
  /\ VersionAt(None) = None
  BY CommitsAreATree DEF Versions, VersionAt, Tips

LEMMA WaitingIsSound ==
  /\ Waiting \in Fields
  /\ [Waiting EXCEPT !.pc = "done"] \in Fields
  /\ \A commits : Sound(Waiting, commits) /\ Sound([Waiting EXCEPT !.pc = "done"], commits)
  <1> DEFINE w == [pc |-> "done", kind |-> None, before |-> None, base |-> None, new |-> None, read |-> None]
  <1>1. [Waiting EXCEPT !.pc = "done"] = w
    BY DEF Waiting
  <1>2. None \in Tips /\ None \in Versions /\ None \in Kinds \cup {None}
    BY VersionsAreVersions DEF Tips
  <1>3. Waiting \in Fields /\ w \in Fields
    BY <1>2 DEF Waiting, Fields, Places
  <1>4. ASSUME NEW commits PROVE Sound(Waiting, commits) /\ Sound(w, commits)
    BY KindsAreKnown DEF Waiting, Sound, Kinds
  <1> HIDE DEF w
  <1> QED
    BY <1>1, <1>3, <1>4

LEMMA TypesFollow == Plain /\ RequestsAreSound => RefsTypeOK
  BY DEF Plain, RequestsAreSound, RefsTypeOK, Sound, Fields, Places

LEMMA RefsInvInit == RefsInit => RefsInv
  <1> SUFFICES ASSUME RefsInit PROVE RefsInv
    OBVIOUS
  <1>1. Plain
    <2>1. tip \in Tips /\ made \subseteq Commits /\ tip \in made \cup {None} /\ {Root, Upstream} \subseteq made
      BY CommitsAreATree DEF RefsInit, Tips
    <2>2. failures \in 0..MaxFaults
      BY FaultBound DEF RefsInit
    <2> QED
      BY <2>1, <2>2, VersionsAreVersions DEF RefsInit, Plain
  <1>2. RequestsAreSound
    BY WaitingIsSound DEF RefsInit, RequestsAreSound
  <1> QED
    BY <1>1, <1>2 DEF RefsInit, RefsInv, Announced, TickIsTrue

-----------------------------------------------------------------------------
(***************************************************************************)
(* What one request's step leaves of the others                            *)
(***************************************************************************)
LEMMA OneSteps ==
  ASSUME RequestsAreSound, NEW q \in Requests, NEW r \in Fields, Step(q, r),
         made \subseteq made', Sound(r, made')
  PROVE  /\ RequestsAreSound' /\ req'[q] = r
         /\ \A p \in Requests \ {q} : req'[p] = req[p]
  <1>1. /\ req' \in [Requests -> Fields] /\ req'[q] = r
        /\ \A p \in Requests \ {q} : req'[p] = req[p]
    BY DEF RequestsAreSound, Step
  <1>2. ASSUME NEW p \in Requests PROVE Sound(req'[p], made')
    BY <1>1 DEF RequestsAreSound, Sound
  <1> QED
    BY <1>1, <1>2 DEF RequestsAreSound

\* The branch stays: the report still comes, unless it was this request's.
LEMMA StillAnnounced ==
  ASSUME Announced, NEW q \in Requests, \A p \in Requests \ {q} : req'[p] = req[p],
         tip' = tip, unseen => unseen', told => told',
         Announces(req[q], tip) /\ tip # None => Announces(req'[q], tip) \/ told' \/ unseen'
  PROVE  Announced'
  BY DEF Announced, Announces

LEMMA TickStillTrue ==
  ASSUME TickIsTrue, NEW q \in Requests, \A p \in Requests \ {q} : req'[p] = req[p],
         tip' = tip, tick' = tick, blind => blind', resets \subseteq resets',
         TakesTicks(req[q], tip) /\ tip # None => TakesTicks(req'[q], tip) \/ blind' \/ ResetWaits'
  PROVE  TickIsTrue'
  <1> SUFFICES ASSUME tip # None, tick # None, ~blind'
               PROVE  tick = VersionAt(tip) \/ ResetWaits' \/ \E p \in Requests : TakesTicks(req'[p], tip)
    BY DEF TickIsTrue, TakesTicks
  <1>1. tick = VersionAt(tip) \/ ResetWaits \/ \E p \in Requests : TakesTicks(req[p], tip)
    BY DEF TickIsTrue
  <1>2. ResetWaits => ResetWaits'
    BY DEF ResetWaits, TakesBack
  <1>3. ASSUME NEW p \in Requests, TakesTicks(req[p], tip)
        PROVE  ResetWaits' \/ \E s \in Requests : TakesTicks(req'[s], tip)
    BY <1>3 DEF TakesTicks
  <1> QED
    BY <1>1, <1>2, <1>3

\* A request that has not come to its report keeps all that is promised.
LEMMA NothingMoves ==
  ASSUME RefsInv, NEW q \in Requests, NEW r \in Fields, Step(q, r), req[q].pc # "report",
         made \subseteq made', made' \subseteq Commits, Sound(r, made'),
         UNCHANGED <<tip, resets, open, page, tick, failures, told, unseen, blind, returned>>
  PROVE  RefsInv'
  <1>1. /\ RequestsAreSound' /\ req'[q] = r
        /\ \A p \in Requests \ {q} : req'[p] = req[p]
    BY OneSteps DEF RefsInv
  <1>2. Plain'
    BY DEF RefsInv, Plain
  <1>3. Announced'
    <2>1. ~Announces(req[q], tip)
      BY DEF Announces
    <2> QED
      BY <1>1, <2>1, StillAnnounced DEF RefsInv
  <1>4. TickIsTrue'
    <2>1. ~TakesTicks(req[q], tip)
      BY DEF TakesTicks
    <2> QED
      BY <1>1, <2>1, TickStillTrue DEF RefsInv
  <1> QED
    BY <1>1, <1>2, <1>3, <1>4 DEF RefsInv

-----------------------------------------------------------------------------
(***************************************************************************)
(* The branch moves                                                        *)
(***************************************************************************)
\* Whoever moves it either announces it or cannot tell; likewise with the ticks.
LEMMA MoverAnnounces ==
  ASSUME NEW q \in Requests, NEW new \in Tips, NEW before \in Tips, NEW clears \in BOOLEAN,
         MovesTo(new, before, clears), req'[q].pc = "report", req'[q].new = new,
         req'[q].kind \in {"push", "commit"} => req'[q].before = before
  PROVE  Announced'
  BY DEF MovesTo, Announced, Announces

LEMMA MoverTakesTicks ==
  ASSUME RefsInv, NEW q \in Requests, NEW new \in Tips, NEW before \in Tips, NEW clears \in BOOLEAN,
         MovesTo(new, before, clears), req'[q].pc = "report", req'[q].new = new,
         \A p \in Requests \ {q} : req'[p] = req[p], req[q].pc # "report",
         clears => \/ req'[q].kind \in {"push", "commit"} /\ req'[q].before = before
                   \/ req'[q].kind = "suggest" /\ req'[q].base = before,
         UNCHANGED <<resets, tick>>
  PROVE  TickIsTrue'
  <1> SUFFICES ASSUME new # None, tick # None, ~blind'
               PROVE  TickIsTrue'
    BY DEF TickIsTrue, MovesTo
  <1>1. tip' = new /\ ~blind
    BY DEF MovesTo
  <1>2. CASE VersionAt(new) = VersionAt(tip)
    <2>1. tip # None
      BY <1>2, VersionsAreVersions DEF Tips
    <2>2. tick = VersionAt(tip) \/ ResetWaits \/ \E p \in Requests : TakesTicks(req[p], tip)
      BY <1>1, <2>1 DEF RefsInv, TickIsTrue
    <2>3. ResetWaits => ResetWaits'
      BY DEF ResetWaits, TakesBack
    <2>4. ASSUME NEW p \in Requests, TakesTicks(req[p], tip) PROVE TakesTicks(req'[p], tip')
      <3>1. req'[p] = req[p]
        BY <2>4 DEF TakesTicks
      <3>2. TakesTicks(req[p], new)
        BY <1>2, <2>4 DEF TakesTicks
      <3> QED
        BY <1>1, <3>1, <3>2
    <2>5. VersionAt(tip)' = VersionAt(tip)
      BY <1>1, <1>2 DEF VersionAt
    <2>6. (\E p \in Requests : TakesTicks(req[p], tip)) => \E p \in Requests : TakesTicks(req'[p], tip')
      BY <2>4
    <2> QED
      BY <2>2, <2>3, <2>5, <2>6 DEF TickIsTrue, TakesTicks, VersionAt
  <1>3. CASE VersionAt(new) # VersionAt(tip)
    <2>1. clears /\ VersionAt(new) # VersionAt(before)
      BY <1>3 DEF MovesTo
    <2>2. TakesTicks(req'[q], new)
      BY <2>1 DEF TakesTicks
    <2> QED
      BY <1>1, <2>2 DEF TickIsTrue, TakesTicks, VersionAt
  <1> QED
    BY <1>2, <1>3

LEMMA Moved ==
  ASSUME RefsInv, NEW q \in Requests, NEW r \in Fields, Step(q, r), req[q].pc # "report", r.pc = "report",
         NEW new \in Tips, NEW before \in Tips, NEW clears \in BOOLEAN, MovesTo(new, before, clears),
         r.new = new, r.kind \in {"push", "commit"} => r.before = before,
         clears => r.kind \in {"push", "commit"} \/ (r.kind = "suggest" /\ r.base = before),
         made \subseteq made', made' \subseteq Commits, Sound(r, made'),
         UNCHANGED <<resets, open, page, tick, failures>>
  PROVE  RefsInv'
  <1>1. /\ RequestsAreSound' /\ req'[q] = r
        /\ \A p \in Requests \ {q} : req'[p] = req[p]
    BY OneSteps DEF RefsInv
  <1>2. Announced'
    BY <1>1, MoverAnnounces
  <1>3. TickIsTrue'
    <2>1. clears => \/ req'[q].kind \in {"push", "commit"} /\ req'[q].before = before
                    \/ req'[q].kind = "suggest" /\ req'[q].base = before
      BY <1>1
    <2> QED
      BY <1>1, <2>1, MoverTakesTicks
  <1>4. Plain'
    <2>1. tip' = new /\ new \in made' \cup {None}
      BY DEF MovesTo, Sound
    <2>2. told' \in BOOLEAN /\ unseen' \in BOOLEAN /\ blind' \in BOOLEAN /\ returned' \in BOOLEAN
      BY DEF RefsInv, Plain, MovesTo
    <2> QED
      BY <2>1, <2>2 DEF RefsInv, Plain
  <1> QED
    BY <1>1, <1>2, <1>3, <1>4 DEF RefsInv

-----------------------------------------------------------------------------
(***************************************************************************)
(* Pushes                                                                  *)
(***************************************************************************)
LEMMA FieldsOf ==
  ASSUME RefsInv, NEW q \in Requests
  PROVE  req[q] \in Fields /\ Sound(req[q], made) /\ tip \in Tips /\ tip \in made \cup {None}
  BY DEF RefsInv, RequestsAreSound, Plain

LEMMA BeginPushKeeps ==
  ASSUME RefsInv, NEW q \in Requests, BeginPush(q)
  PROVE  RefsInv'
  <1> DEFINE r == [Waiting EXCEPT !.pc = "receive", !.kind = "push", !.before = tip]
  <1>1. r \in Fields
    BY FieldsOf, WaitingIsSound DEF Fields, Places, Kinds
  <1>2. Sound(r, made')
    BY FieldsOf DEF BeginPush, Waiting, Sound
  <1>3. Step(q, r) /\ req[q].pc # "report"
    BY DEF BeginPush
  <1> HIDE DEF r
  <1> QED
    BY <1>1, <1>2, <1>3, NothingMoves DEF BeginPush, RefsInv, Plain

LEMMA ReceivePackKeeps ==
  ASSUME RefsInv, NEW q \in Requests, ReceivePack(q)
  PROVE  RefsInv'
  <1>0. req[q].kind = "push"
    BY FieldsOf DEF ReceivePack, Sound
  <1>1. CASE Stays /\ Step(q, [req[q] EXCEPT !.pc = "report"]) /\ UNCHANGED made
    <2> DEFINE r == [req[q] EXCEPT !.pc = "report"]
    <2>1. r \in Fields
      BY FieldsOf DEF Fields, Places
    <2>2. Sound(r, made')
      BY <1>1, FieldsOf DEF Fields, Sound
    <2>3. Step(q, r) /\ req[q].pc # "report"
      BY <1>1 DEF ReceivePack
    <2> HIDE DEF r
    <2> QED
      BY <1>1, <2>1, <2>2, <2>3, NothingMoves DEF ReceivePack, Stays, RefsInv, Plain
  <1>2. ASSUME NEW new \in Tips \ {tip}, MovesTo(new, req[q].before, TRUE), made' = made \cup ({new} \ {None}),
               Step(q, [req[q] EXCEPT !.pc = "report", !.new = new])
        PROVE  RefsInv'
    <2> DEFINE r == [req[q] EXCEPT !.pc = "report", !.new = new]
               before == req[q].before
    <2>1. r \in Fields /\ r.pc = "report" /\ r.new = new /\ r.kind = "push" /\ r.before = before /\ before \in Tips
      BY <1>0, FieldsOf DEF Fields, Places
    <2>2. Sound(r, made')
      BY <1>2, FieldsOf DEF Fields, Sound
    <2>3. Step(q, r) /\ req[q].pc # "report" /\ MovesTo(new, before, TRUE)
      BY <1>2 DEF ReceivePack
    <2>4. made \subseteq made' /\ made' \subseteq Commits
      BY <1>2 DEF Tips, RefsInv, Plain
    <2>5. UNCHANGED <<resets, open, page, tick, failures>>
      BY DEF ReceivePack
    <2> HIDE DEF r, before
    <2> QED
      BY <2>1, <2>2, <2>3, <2>4, <2>5, Moved
  <1> QED
    BY <1>1, <1>2 DEF ReceivePack

\* A request ends without a word: it had nothing to tell, or it is known that it did.
LEMMA EndsUnheard ==
  ASSUME RefsInv, NEW q \in Requests, Finish(q), tip' = tip, tick' = tick,
         resets \subseteq resets', unseen => unseen', told => told', blind => blind',
         Announces(req[q], tip) /\ tip # None => told' \/ unseen',
         TakesTicks(req[q], tip) /\ tip # None => blind' \/ ResetWaits',
         UNCHANGED made, Plain'
  PROVE  RefsInv'
  <1> DEFINE r == [Waiting EXCEPT !.pc = "done"]
  <1>1. r \in Fields /\ Sound(r, made') /\ Step(q, r)
    BY WaitingIsSound DEF Finish
  <1> HIDE DEF r
  <1>2. RequestsAreSound' /\ \A p \in Requests \ {q} : req'[p] = req[p]
    BY <1>1, OneSteps DEF RefsInv
  <1>3. Announced'
    BY <1>2, StillAnnounced DEF RefsInv
  <1>4. TickIsTrue'
    BY <1>2, TickStillTrue DEF RefsInv
  <1> QED
    BY <1>2, <1>3, <1>4 DEF RefsInv

LEMMA ReportKeeps ==
  ASSUME RefsInv, NEW q \in Requests, Report(q)
  PROVE  RefsInv'
  <1> DEFINE before == req[q].before
  <1>1. before \in Tips /\ tip \in Tips
    BY FieldsOf DEF Fields
  <1>2. CASE tip # None /\ tip # before
    <2>1. told' = TRUE /\ resets' = resets \cup {<<before, tip>>}
      BY <1>2 DEF Report, Reports, RefsInv, Plain
    <2>2. TakesTicks(req[q], tip) => ResetWaits'
      <3>1. SUFFICES ASSUME TakesTicks(req[q], tip) PROVE ResetWaits'
        OBVIOUS
      <3>2. VersionAt(before) # VersionAt(tip)
        BY <3>1 DEF TakesTicks, Report
      <3>3. TakesBack(before, tip)
        BY <3>2, <1>2 DEF VersionAt, TakesBack
      <3> QED
        BY <1>1, <2>1, <3>3 DEF ResetWaits, TakesBack
    <2>3. Plain'
      BY <1>1, <2>1 DEF Report, RefsInv, Plain
    <2> QED
      BY <2>1, <2>2, <2>3, EndsUnheard DEF Report
  <1>3. CASE ~(tip # None /\ tip # before)
    <2>1. UNCHANGED <<told, resets>>
      BY <1>3 DEF Report
    <2>2. tip # None => ~Announces(req[q], tip) /\ ~TakesTicks(req[q], tip)
      BY <1>3 DEF Report, Announces, TakesTicks
    <2>3. Plain'
      BY <2>1 DEF Report, RefsInv, Plain
    <2> QED
      BY <2>1, <2>2, <2>3, EndsUnheard DEF Report
  <1> QED
    BY <1>2, <1>3

LEMMA HangupKeeps ==
  ASSUME RefsInv, NEW q \in Requests, Hangup(q)
  PROVE  RefsInv'
  <1>1. Announces(req[q], tip) /\ tip # None => unseen'
    BY DEF Announces, Hangup
  <1>2. TakesTicks(req[q], tip) => blind'
    BY DEF TakesTicks, Hangup
  <1>3. unseen' \in BOOLEAN /\ blind' \in BOOLEAN /\ (unseen => unseen') /\ (blind => blind')
    BY DEF Hangup, RefsInv, Plain
  <1>4. failures' \in 0..MaxFaults
    BY FaultBound DEF Hangup, MayFail, RefsInv, Plain
  <1>5. Plain'
    BY <1>3, <1>4 DEF Hangup, RefsInv, Plain
  <1> QED
    BY <1>1, <1>2, <1>3, <1>5, EndsUnheard DEF Hangup

-----------------------------------------------------------------------------
(***************************************************************************)
(* Commits of the editor, and suggestions                                  *)
(***************************************************************************)
LEMMA BeginCommitKeeps ==
  ASSUME RefsInv, NEW q \in Requests, BeginCommit(q)
  PROVE  RefsInv'
  <1> DEFINE r == [Waiting EXCEPT !.pc = "read", !.kind = "commit", !.before = tip]
  <1>1. r \in Fields
    BY FieldsOf, WaitingIsSound DEF Fields, Places, Kinds
  <1>2. Sound(r, made')
    BY FieldsOf DEF BeginCommit, Waiting, Sound
  <1>3. Step(q, r) /\ req[q].pc # "report"
    BY DEF BeginCommit
  <1> HIDE DEF r
  <1> QED
    BY <1>1, <1>2, <1>3, NothingMoves DEF BeginCommit, RefsInv, Plain

LEMMA BuildKeeps ==
  ASSUME RefsInv, NEW q \in Requests, Build(q)
  PROVE  RefsInv'
  <1>1. PICK new \in Fresh(made, IF tip = None THEN Root ELSE tip) :
          /\ Step(q, [req[q] EXCEPT !.pc = "swap", !.base = tip, !.new = new])
          /\ made' = made \cup {new}
    BY DEF Build
  <1> DEFINE r == [req[q] EXCEPT !.pc = "swap", !.base = tip, !.new = new]
  <1>2. new \in Commits /\ Parent[new] = IF tip = None THEN Root ELSE tip
    BY DEF Fresh
  <1>3. r \in Fields /\ r.before = req[q].before /\ r.base = tip /\ r.new = new /\ r.kind = "commit"
    BY <1>2, FieldsOf DEF Build, Fields, Places, Tips
  <1>4. Sound(r, made')
    BY <1>1, <1>2, <1>3, FieldsOf DEF Sound
  <1>5. Step(q, r) /\ req[q].pc # "report"
    BY <1>1 DEF Build
  <1> HIDE DEF r
  <1> QED
    BY <1>1, <1>2, <1>3, <1>4, <1>5, NothingMoves DEF Build, RefsInv, Plain

LEMMA SwapKeeps ==
  ASSUME RefsInv, NEW q \in Requests, Swap(q)
  PROVE  RefsInv'
  <1>1. CASE tip = req[q].base
    <2> DEFINE r == [req[q] EXCEPT !.pc = "report"]
               new == req[q].new
               before == req[q].before
    <2>1. r \in Fields /\ r.pc = "report" /\ r.new = new /\ r.before = before /\ r.kind = "commit"
          /\ new \in Tips /\ before \in Tips
      BY FieldsOf DEF Fields, Places, Swap
    <2>2. Sound(r, made')
      BY <2>1, FieldsOf DEF Swap, Fields, Sound
    <2>3. Step(q, r) /\ req[q].pc # "report" /\ MovesTo(new, before, TRUE)
      BY <1>1 DEF Swap
    <2>4. made \subseteq made' /\ made' \subseteq Commits
      BY DEF Swap, RefsInv, Plain
    <2>5. UNCHANGED <<resets, open, page, tick, failures>>
      BY DEF Swap
    <2> HIDE DEF r, new, before
    <2> QED
      BY <2>1, <2>2, <2>3, <2>4, <2>5, Moved
  <1>2. CASE tip # req[q].base
    <2>1. ~Announces(req[q], tip) /\ ~TakesTicks(req[q], tip)
      BY DEF Swap, Announces, TakesTicks
    <2> QED
      BY <1>2, <2>1, EndsUnheard DEF Swap, Stays, RefsInv, Plain
  <1> QED
    BY <1>1, <1>2

LEMMA BeginSuggestionKeeps ==
  ASSUME RefsInv, NEW q \in Requests, BeginSuggestion(q)
  PROVE  RefsInv'
  <1> DEFINE r == [Waiting EXCEPT !.pc = "read", !.kind = "suggest", !.base = tip]
  <1>1. r \in Fields
    BY FieldsOf, WaitingIsSound DEF Fields, Places, Kinds
  <1>2. Sound(r, made')
    BY FieldsOf DEF BeginSuggestion, Waiting, Sound
  <1>3. Step(q, r) /\ req[q].pc # "report"
    BY DEF BeginSuggestion
  <1> HIDE DEF r
  <1> QED
    BY <1>1, <1>2, <1>3, NothingMoves DEF BeginSuggestion, RefsInv, Plain

\* A request that ends before it has moved the branch.
LEMMA EndsEarly ==
  ASSUME RefsInv, NEW q \in Requests, Finish(q), req[q].pc # "report",
         UNCHANGED <<tip, made, resets, open, page, tick, failures, told, unseen, blind, returned>>
  PROVE  RefsInv'
  <1>1. ~Announces(req[q], tip) /\ ~TakesTicks(req[q], tip)
    BY DEF Announces, TakesTicks
  <1> QED
    BY <1>1, EndsUnheard DEF RefsInv, Plain

LEMMA ReadContentKeeps ==
  ASSUME RefsInv, NEW q \in Requests, ReadContent(q)
  PROVE  RefsInv'
  <1>1. CASE tip = None
    BY <1>1, EndsEarly DEF ReadContent
  <1>2. CASE tip # None
    <2> DEFINE r == [req[q] EXCEPT !.pc = "count", !.read = Version[tip]]
    <2>1. Version[tip] \in Versions
      BY <1>2, FieldsOf DEF Tips, Versions
    <2>2. r \in Fields
      BY <2>1, FieldsOf DEF Fields, Places
    <2>3. Sound(r, made')
      BY FieldsOf DEF ReadContent, Fields, Sound
    <2>4. Step(q, r) /\ req[q].pc # "report"
      BY <1>2 DEF ReadContent
    <2> HIDE DEF r
    <2> QED
      BY <2>2, <2>3, <2>4, NothingMoves DEF ReadContent, RefsInv, Plain
  <1> QED
    BY <1>1, <1>2

LEMMA CommitInCloneKeeps ==
  ASSUME RefsInv, NEW q \in Requests, CommitInClone(q)
  PROVE  RefsInv'
  <1>1. CASE tip # req[q].base
    BY <1>1, EndsEarly DEF CommitInClone
  <1>2. CASE tip = req[q].base
    <2>1. PICK new \in Fresh(made, tip) :
            /\ Step(q, [req[q] EXCEPT !.pc = "swap", !.new = new])
            /\ made' = made \cup {new}
      BY <1>2 DEF CommitInClone
    <2> DEFINE r == [req[q] EXCEPT !.pc = "swap", !.new = new]
    <2>2. new \in Commits /\ Parent[new] = tip
      BY DEF Fresh
    <2>3. r \in Fields /\ r.before = req[q].before /\ r.base = tip /\ r.new = new /\ r.kind = "suggest" /\ r.pc = "swap"
      BY <1>2, <2>2, FieldsOf DEF CommitInClone, Fields, Places, Tips
    <2>4. Sound(r, made')
      BY <1>2, <2>1, <2>2, <2>3, FieldsOf DEF Sound, CommitInClone
    <2>5. Step(q, r) /\ req[q].pc # "report"
      BY <2>1 DEF CommitInClone
    <2> HIDE DEF r
    <2> QED
      BY <2>1, <2>2, <2>3, <2>4, <2>5, NothingMoves DEF CommitInClone, RefsInv, Plain
  <1> QED
    BY <1>1, <1>2

LEMMA PushSuggestionKeeps ==
  ASSUME RefsInv, NEW q \in Requests, PushSuggestion(q)
  PROVE  RefsInv'
  <1>1. CASE FastForward(tip, req[q].new) /\ tip # req[q].new
    <2> DEFINE r == [req[q] EXCEPT !.pc = "report"]
               new == req[q].new
               base == req[q].base
    <2>1. r \in Fields /\ r.pc = "report" /\ r.new = new /\ r.base = base /\ r.kind = "suggest"
          /\ new \in Tips /\ base \in Tips
      BY FieldsOf DEF Fields, Places, PushSuggestion
    <2>2. Sound(r, made')
      BY <2>1, FieldsOf DEF PushSuggestion, Fields, Sound
    <2>3. Step(q, r) /\ req[q].pc # "report" /\ MovesTo(new, base, TRUE)
      BY <1>1 DEF PushSuggestion
    <2>4. made \subseteq made' /\ made' \subseteq Commits
      BY DEF PushSuggestion, RefsInv, Plain
    <2> HIDE DEF r, new, base
    <2> QED
      BY <2>1, <2>2, <2>3, <2>4, Moved DEF PushSuggestion
  <1>2. CASE ~(FastForward(tip, req[q].new) /\ tip # req[q].new)
    BY <1>2, EndsEarly DEF PushSuggestion, Stays
  <1> QED
    BY <1>1, <1>2

LEMMA ReportSuggestionKeeps ==
  ASSUME RefsInv, NEW q \in Requests, ReportSuggestion(q)
  PROVE  RefsInv'
  <1> DEFINE base == req[q].base
             new == req[q].new
  <1>1. base \in Tips /\ new \in Tips
    BY FieldsOf DEF Fields
  <1>2. told' \in BOOLEAN /\ (told => told') /\ (new = tip => told') /\ resets' = resets \cup {<<base, new>>}
    BY DEF ReportSuggestion, Reports, RefsInv, Plain
  <1>3. TakesTicks(req[q], tip) => ResetWaits'
    <2>1. SUFFICES ASSUME TakesTicks(req[q], tip) PROVE ResetWaits'
      OBVIOUS
    <2>2. new # None /\ VersionAt(base) # VersionAt(new)
      BY <2>1 DEF TakesTicks, ReportSuggestion
    <2>3. TakesBack(base, new)
      BY <2>2 DEF VersionAt, TakesBack
    <2> QED
      BY <1>1, <1>2, <2>3 DEF ResetWaits, TakesBack
  <1>4. Announces(req[q], tip) => told'
    BY <1>2 DEF Announces
  <1>5. Plain'
    BY <1>1, <1>2 DEF ReportSuggestion, RefsInv, Plain
  <1> QED
    BY <1>2, <1>3, <1>4, <1>5, EndsUnheard DEF ReportSuggestion

-----------------------------------------------------------------------------
(***************************************************************************)
(* Syncs and merges                                                        *)
(***************************************************************************)
LEMMA BeginSyncKeeps ==
  ASSUME RefsInv, NEW q \in Requests, BeginSync(q)
  PROVE  RefsInv'
  <1> DEFINE r == [Waiting EXCEPT !.pc = "count", !.kind = "sync", !.base = tip]
  <1>1. r \in Fields
    BY FieldsOf, WaitingIsSound DEF Fields, Places, Kinds
  <1>2. Sound(r, made')
    BY FieldsOf DEF BeginSync, Waiting, Sound
  <1>3. Step(q, r) /\ req[q].pc # "report"
    BY DEF BeginSync
  <1> HIDE DEF r
  <1> QED
    BY <1>1, <1>2, <1>3, NothingMoves DEF BeginSync, RefsInv, Plain

LEMMA CountKeeps ==
  ASSUME RefsInv, NEW q \in Requests, Count(q)
  PROVE  RefsInv'
  <1> DEFINE r == [req[q] EXCEPT !.pc = "swap", !.new = Upstream]
  <1>1. CASE Step(q, r)
    <2>1. r \in Fields /\ r.before = req[q].before /\ r.base = req[q].base /\ r.new = Upstream /\ r.kind = "sync"
      BY CommitsAreATree, FieldsOf DEF Count, Fields, Places, Tips
    <2>2. Upstream \in made
      BY DEF RefsInv, Plain
    <2>3. Sound(r, made')
      BY <2>1, <2>2, FieldsOf, CommitsAreATree DEF Count, Fields, Sound
    <2>4. req[q].pc # "report"
      BY DEF Count
    <2> HIDE DEF r
    <2> QED
      BY <1>1, <2>1, <2>3, <2>4, NothingMoves DEF Count, RefsInv, Plain
  <1>2. CASE Finish(q)
    BY <1>2, EndsEarly DEF Count
  <1> QED
    BY <1>1, <1>2 DEF Count

LEMMA SyncKeeps ==
  ASSUME RefsInv, NEW q \in Requests, Sync(q)
  PROVE  RefsInv'
  <1>1. CASE req[q].base \in {None, tip}
    <2> DEFINE r == [req[q] EXCEPT !.pc = "report"]
    <2>1. r \in Fields /\ r.pc = "report" /\ r.new = Upstream /\ r.kind = "sync"
      BY FieldsOf DEF Fields, Places, Sync, Sound
    <2>2. Sound(r, made')
      BY <2>1, FieldsOf DEF Sync, Fields, Sound
    <2>3. Step(q, r) /\ req[q].pc # "report" /\ MovesTo(Upstream, None, FALSE)
      BY <1>1 DEF Sync
    <2>4. made \subseteq made' /\ made' \subseteq Commits /\ Upstream \in Tips /\ None \in Tips
      BY CommitsAreATree DEF Sync, RefsInv, Plain, Tips
    <2>5. UNCHANGED <<resets, open, page, tick, failures>>
      BY DEF Sync
    <2> HIDE DEF r
    <2> QED
      BY <2>1, <2>2, <2>3, <2>4, <2>5, Moved
  <1>2. CASE req[q].base \notin {None, tip}
    BY <1>2, EndsEarly DEF Sync, Stays
  <1> QED
    BY <1>1, <1>2

LEMMA ReportSyncKeeps ==
  ASSUME RefsInv, NEW q \in Requests, ReportSync(q)
  PROVE  RefsInv'
  <1>1. told' \in BOOLEAN /\ (told => told') /\ (req[q].new = tip => told')
    BY DEF ReportSync, Reports, RefsInv, Plain
  <1>2. Announces(req[q], tip) => told'
    BY <1>1 DEF Announces
  <1>3. ~TakesTicks(req[q], tip)
    BY DEF ReportSync, TakesTicks
  <1>4. Plain'
    BY <1>1 DEF ReportSync, RefsInv, Plain
  <1> QED
    BY <1>1, <1>2, <1>3, <1>4, EndsUnheard DEF ReportSync

LEMMA MergeIntoKeeps ==
  ASSUME RefsInv, NEW q \in Requests, MergeInto(q)
  PROVE  RefsInv'
  <1>1. PICK new \in Fresh(made, tip) :
          /\ MovesTo(new, None, FALSE)
          /\ made' = made \cup {new}
          /\ Step(q, [Waiting EXCEPT !.pc = "report", !.kind = "merge", !.new = new])
    BY DEF MergeInto
  <1> DEFINE r == [Waiting EXCEPT !.pc = "report", !.kind = "merge", !.new = new]
  <1>2. new \in Commits /\ new \in Tips /\ None \in Tips
    BY DEF Fresh, Tips
  <1>3. r \in Fields /\ r.pc = "report" /\ r.new = new /\ r.kind = "merge"
    BY <1>2, WaitingIsSound DEF Fields, Places, Kinds
  <1>4. Sound(r, made')
    BY <1>1 DEF Waiting, Sound
  <1>5. made \subseteq made' /\ made' \subseteq Commits
    BY <1>1, <1>2 DEF RefsInv, Plain
  <1>6. UNCHANGED <<resets, open, page, tick, failures>> /\ req[q].pc # "report" /\ Step(q, r)
    BY <1>1 DEF MergeInto
  <1> HIDE DEF r
  <1> QED
    BY <1>1, <1>2, <1>3, <1>4, <1>5, <1>6, Moved

-----------------------------------------------------------------------------
(***************************************************************************)
(* The branches page, the viewer, the resets and a restart                 *)
(***************************************************************************)
LEMMA HeadsKeep ==
  ASSUME RefsInv, CreateHead \/ DeleteHead
  PROVE  RefsInv'
  <1>1. UNCHANGED <<made, req, resets, open, page, tick, failures>>
    BY DEF CreateHead, DeleteHead
  <1>2. RequestsAreSound'
    BY <1>1 DEF RefsInv, RequestsAreSound, Sound
  <1>3. CASE CreateHead
    <2>1. PICK new \in made : MovesTo(new, new, FALSE)
      BY <1>3 DEF CreateHead
    <2>2. tip = None /\ tip' = new /\ unseen' = TRUE /\ new \in Commits
      BY <1>3, <2>1 DEF CreateHead, MovesTo, RefsInv, Plain
    <2>3. blind'
      BY <2>1, <2>2, VersionsAreVersions DEF MovesTo
    <2>4. told' \in BOOLEAN /\ blind' \in BOOLEAN /\ returned' \in BOOLEAN
      BY <2>1 DEF MovesTo, RefsInv, Plain
    <2>5. Plain'
      BY <1>1, <2>2, <2>4 DEF RefsInv, Plain, Tips
    <2> QED
      BY <1>2, <2>2, <2>3, <2>5 DEF RefsInv, Announced, TickIsTrue
  <1>4. CASE DeleteHead
    <2>1. MovesTo(None, tip, TRUE)
      BY <1>4 DEF DeleteHead
    <2>2. tip' = None /\ None \in Tips
      BY <2>1 DEF MovesTo, Tips
    <2>3. told' \in BOOLEAN /\ unseen' \in BOOLEAN /\ blind' \in BOOLEAN /\ returned' \in BOOLEAN
      BY <2>1 DEF MovesTo, RefsInv, Plain
    <2>4. Plain'
      BY <1>1, <2>2, <2>3 DEF RefsInv, Plain
    <2> QED
      BY <1>2, <2>2, <2>4 DEF RefsInv, Announced, TickIsTrue
  <1> QED
    BY <1>3, <1>4

\* A step of the viewer or of a reset: the requests and the branch stay.
LEMMA OnlyTicks ==
  ASSUME RefsInv, UNCHANGED <<tip, made, req, told, unseen, returned>>, Plain', TickIsTrue'
  PROVE  RefsInv'
  <1>1. RequestsAreSound'
    BY DEF RefsInv, RequestsAreSound, Sound
  <1>2. Announced'
    BY DEF RefsInv, Announced, Announces
  <1> QED
    BY <1>1, <1>2 DEF RefsInv

LEMMA ViewerKeeps ==
  ASSUME RefsInv, LoadPage \/ Tick \/ Untick \/ CloseOrReopen
  PROVE  RefsInv'
  <1>1. CASE LoadPage
    <2>1. page' \in Versions
      BY <1>1, FieldsOf, VersionsAreVersions DEF LoadPage, RefsInv, Plain
    <2>2. Plain'
      BY <1>1, <2>1 DEF LoadPage, RefsInv, Plain
    <2>3. TickIsTrue'
      BY <1>1 DEF LoadPage, RefsInv, TickIsTrue, ResetWaits, TakesBack, TakesTicks, VersionAt
    <2> QED
      BY <1>1, <2>2, <2>3, OnlyTicks DEF LoadPage
  <1>2. CASE Tick
    <2>1. tick' = page /\ blind' = (page # VersionAt(tip))
      BY <1>2 DEF Tick
    <2>2. Plain'
      BY <1>2, <2>1 DEF Tick, RefsInv, Plain
    <2>3. TickIsTrue'
      BY <1>2, <2>1 DEF Tick, TickIsTrue, VersionAt
    <2> QED
      BY <1>2, <2>2, <2>3, OnlyTicks DEF Tick
  <1>3. CASE Untick
    <2>1. Plain'
      BY <1>3, VersionsAreVersions DEF Untick, RefsInv, Plain
    <2>2. TickIsTrue'
      BY <1>3 DEF Untick, TickIsTrue
    <2> QED
      BY <1>3, <2>1, <2>2, OnlyTicks DEF Untick
  <1>4. CASE CloseOrReopen
    <2>1. open' \in BOOLEAN
      BY <1>4 DEF CloseOrReopen
    <2>2. Plain'
      BY <1>4, <2>1 DEF CloseOrReopen, RefsInv, Plain
    <2>3. TickIsTrue'
      BY <1>4 DEF CloseOrReopen, RefsInv, TickIsTrue, ResetWaits, TakesBack, TakesTicks, VersionAt
    <2> QED
      BY <1>4, <2>2, <2>3, OnlyTicks DEF CloseOrReopen
  <1> QED
    BY <1>1, <1>2, <1>3, <1>4

LEMMA ResetKeeps ==
  ASSUME RefsInv, NEW old \in Tips, NEW new \in Tips, Reset(old, new)
  PROVE  RefsInv'
  <1>1. CASE open /\ TakesBack(old, new)
    <2>1. tick' = None /\ blind' = FALSE
      BY <1>1 DEF Reset
    <2>2. Plain'
      BY <2>1, VersionsAreVersions DEF Reset, RefsInv, Plain
    <2> QED
      BY <2>1, <2>2, OnlyTicks DEF Reset, TickIsTrue
  <1>2. CASE ~(open /\ TakesBack(old, new))
    <2>1. blind' = (blind \/ TakesBack(old, new)) /\ tick' = tick /\ blind' \in BOOLEAN
      BY <1>2 DEF Reset
    <2>2. Plain'
      BY <2>1 DEF Reset, RefsInv, Plain
    <2>3. ~TakesBack(old, new) /\ ResetWaits => ResetWaits'
      BY DEF Reset, ResetWaits, TakesBack
    <2>4. TickIsTrue'
      <3>1. SUFFICES ASSUME tip # None, tick # None, ~blind' PROVE TickIsTrue'
        BY <2>1 DEF TickIsTrue, Reset
      <3>2. ~blind /\ ~TakesBack(old, new)
        BY <2>1, <3>1
      <3>3. tick = VersionAt(tip) \/ ResetWaits' \/ \E p \in Requests : TakesTicks(req[p], tip)
        BY <2>3, <3>1, <3>2 DEF RefsInv, TickIsTrue
      <3> QED
        BY <2>1, <3>3 DEF Reset, TickIsTrue, TakesTicks, VersionAt
    <2> QED
      BY <2>2, <2>4, OnlyTicks DEF Reset
  <1> QED
    BY <1>1, <1>2

LEMMA FaultsKeep ==
  ASSUME RefsInv, Restart \/ \E old, new \in Tips : ResetFails(old, new)
  PROVE  RefsInv'
  <1>1. failures' \in 0..MaxFaults
    <2>1. MayFail
      BY DEF Restart, ResetFails
    <2> QED
      BY <2>1, FaultBound DEF MayFail, RefsInv, Plain
  <1>2. CASE Restart
    <2>1. RequestsAreSound'
      <3> DEFINE done == [Waiting EXCEPT !.pc = "done"]
      <3>1. done \in Fields /\ Sound(done, made)
        BY WaitingIsSound
      <3>2. req' = [q \in Requests |-> IF q \in Going THEN done ELSE req[q]] /\ made' = made
        BY <1>2 DEF Restart
      <3> HIDE DEF done
      <3>3. ASSUME NEW q \in Requests PROVE req'[q] \in Fields /\ Sound(req'[q], made)
        BY <3>1, <3>2 DEF RefsInv, RequestsAreSound
      <3>4. req' \in [Requests -> Fields]
        BY <3>2, <3>3
      <3>5. \A q \in Requests : Sound(req'[q], made')
        BY <3>2, <3>3
      <3> QED
        BY <3>4, <3>5 DEF RequestsAreSound
    <2>2. Plain'
      BY <1>1, <1>2 DEF Restart, RefsInv, Plain
    <2> QED
      BY <1>2, <2>1, <2>2 DEF Restart, RefsInv, Announced, TickIsTrue
  <1>3. ASSUME NEW old \in Tips, NEW new \in Tips, ResetFails(old, new) PROVE RefsInv'
    <2>1. Plain'
      BY <1>1, <1>3 DEF ResetFails, RefsInv, Plain
    <2> QED
      BY <1>3, <2>1, OnlyTicks DEF ResetFails, TickIsTrue
  <1> QED
    BY <1>2, <1>3

LEMMA RequestsKeep ==
  ASSUME RefsInv, NEW q \in Requests,
         \/ BeginPush(q) \/ ReceivePack(q) \/ Report(q) \/ Hangup(q)
         \/ BeginCommit(q) \/ Build(q) \/ Swap(q)
         \/ BeginSuggestion(q) \/ ReadContent(q) \/ CommitInClone(q) \/ PushSuggestion(q)
         \/ ReportSuggestion(q)
         \/ BeginSync(q) \/ Count(q) \/ Sync(q) \/ ReportSync(q) \/ MergeInto(q)
  PROVE  RefsInv'
  BY BeginPushKeeps, ReceivePackKeeps, ReportKeeps, HangupKeeps, BeginCommitKeeps, BuildKeeps, SwapKeeps,
     BeginSuggestionKeeps, ReadContentKeeps, CommitInCloneKeeps, PushSuggestionKeeps, ReportSuggestionKeeps,
     BeginSyncKeeps, CountKeeps, SyncKeeps, ReportSyncKeeps, MergeIntoKeeps

LEMMA RefsInvStep == RefsInv /\ [RefsNext]_refsVars => RefsInv'
  <1> SUFFICES ASSUME RefsInv, [RefsNext]_refsVars PROVE RefsInv'
    OBVIOUS
  <1>1. CASE UNCHANGED refsVars
    <2>1. Plain' /\ TickIsTrue'
      BY <1>1 DEF refsVars, RefsInv, Plain, TickIsTrue, ResetWaits, TakesBack, TakesTicks, VersionAt
    <2> QED
      BY <1>1, <2>1, OnlyTicks DEF refsVars
  <1>2. ASSUME NEW r \in resets, Reset(r[1], r[2]) \/ ResetFails(r[1], r[2]) PROVE RefsInv'
    <2>1. r[1] \in Tips /\ r[2] \in Tips
      BY DEF RefsInv, Plain
    <2> QED
      BY <1>2, <2>1, ResetKeeps, FaultsKeep
  <1>3. CASE CreateHead \/ DeleteHead \/ LoadPage \/ Tick \/ Untick \/ CloseOrReopen \/ Restart
    BY <1>3, HeadsKeep, ViewerKeeps, FaultsKeep
  <1> QED
    BY <1>1, <1>2, <1>3, RequestsKeep DEF RefsNext

LEMMA RefsInvHolds == RefsSpec => []RefsInv
  BY RefsInvInit, RefsInvStep, PTL DEF RefsSpec

-----------------------------------------------------------------------------
(***************************************************************************)
(* Whatever is in progress, no request refers to a commit that does not    *)
(* exist, and a commit about to be swapped in follows the tip that the     *)
(* swap expects (web-commit.ts, commitChanges; git-utils.ts, update-ref).  *)
(***************************************************************************)
THEOREM RefsTypes == RefsSpec => []RefsTypeOK
  <1>1. RefsInv => RefsTypeOK
    BY TypesFollow DEF RefsInv
  <1> QED
    BY <1>1, RefsInvHolds, PTL

(***************************************************************************)
(* However the listings of any number of pushes overlap, whoever moved the *)
(* branch last reports it (git-push-shared.ts, runPostReceiveEffects).     *)
(***************************************************************************)
THEOREM TipReported == RefsSpec => []TipIsReported
  <1>1. RefsInv => TipIsReported
    BY DEF RefsInv, Announced, Announces, TipIsReported, Going
  <1> QED
    BY <1>1, RefsInvHolds, PTL

(***************************************************************************)
(* A tick vouches for the version of the file that the branch holds, once  *)
(* all has settled: whoever changed the file last takes the ticks back     *)
(* (pull-file-views.ts, resetViewedFilesForPush).                          *)
(***************************************************************************)
THEOREM TicksVouch == RefsSpec => []TickVouchesUnlessBlind
  <1>1. RefsInv => TickVouchesUnlessBlind
    BY DEF RefsInv, TickIsTrue, TakesTicks, ResetWaits, VersionAt, TickVouchesUnlessBlind, Going
  <1> QED
    BY <1>1, RefsInvHolds, PTL

-----------------------------------------------------------------------------
(***************************************************************************)
(* The order of the commits                                                *)
(***************************************************************************)
LEMMA PastIsOfCommits == \A c \in Commits : Past[c] \subseteq Commits /\ c \in Past[c]
  BY DEF Past

LEMMA PastIsClosed ==
  ASSUME NEW c \in Commits
  PROVE  /\ \A d \in Past[c] : Parent[d] # None => Parent[d] \in Past[c]
         /\ \A S \in SUBSET Commits : c \in S /\ FollowsParents(S) => Past[c] \subseteq S
  <1>1. Past[c] = {d \in Commits : \A S \in SUBSET Commits : c \in S /\ FollowsParents(S) => d \in S}
    BY DEF Past
  <1>2. ASSUME NEW d \in Past[c], Parent[d] # None PROVE Parent[d] \in Past[c]
    <2>1. d \in Commits /\ Parent[d] \in Commits
      BY <1>1, <1>2, CommitsAreATree
    <2>2. ASSUME NEW S \in SUBSET Commits, c \in S, FollowsParents(S) PROVE Parent[d] \in S
      <3>1. d \in S
        BY <1>1, <2>2
      <3> QED
        BY <1>2, <2>2, <3>1 DEF FollowsParents
    <2> QED
      BY <1>1, <2>1, <2>2
  <1> QED
    BY <1>1, <1>2

\* What a commit reaches reaches no further.
LEMMA PastIsTransitive ==
  ASSUME NEW c \in Commits, NEW d \in Past[c]
  PROVE  d \in Commits /\ Past[d] \subseteq Past[c]
  <1>1. d \in Commits /\ Past[c] \in SUBSET Commits
    BY PastIsOfCommits
  <1>2. FollowsParents(Past[c])
    BY PastIsClosed DEF FollowsParents
  <1> QED
    BY <1>1, <1>2, PastIsClosed

\* Before a commit is itself and what its parent reaches.
LEMMA PastFollowsParent ==
  ASSUME NEW c \in Commits, NEW d \in Past[c], d # c
  PROVE  Parent[c] \in Commits /\ d \in Past[Parent[c]]
  <1>1. CASE Parent[c] = None
    <2>1. FollowsParents({c})
      BY <1>1 DEF FollowsParents
    <2> QED
      BY <2>1, PastIsClosed
  <1>2. CASE Parent[c] # None
    <2>1. Parent[c] \in Commits
      BY <1>2, CommitsAreATree
    <2> DEFINE S == {c} \cup Past[Parent[c]]
    <2>2. S \in SUBSET Commits /\ c \in S
      BY <2>1, PastIsOfCommits
    <2>3. FollowsParents(S)
      BY <2>1, PastIsClosed, PastIsOfCommits DEF FollowsParents
    <2>4. Past[c] \subseteq S
      BY <2>2, <2>3, PastIsClosed
    <2> QED
      BY <2>1, <2>4
  <1> QED
    BY <1>1, <1>2

\* Two commits that reach each other are one.
LEMMA PastIsOrdered ==
  ASSUME NEW c \in Commits, NEW d \in Past[c], c \in Past[d]
  PROVE  c = d
  <1> SUFFICES ASSUME d # c PROVE FALSE
    OBVIOUS
  <1>1. Parent[c] \in Commits /\ d \in Past[Parent[c]]
    BY PastFollowsParent
  <1>2. c \in Past[Parent[c]]
    BY <1>1, PastIsTransitive
  <1> QED
    BY <1>1, <1>2, CommitsAreATree, NoneIsItsOwnAncestor

LEMMA ForwardFromCommit ==
  ASSUME NEW old \in Commits, NEW new \in Tips
  PROVE  /\ FastForward(old, new) <=> new \in Commits /\ old \in Past[new]
         /\ FastForward(old, old)
  BY CommitsAreATree, PastIsOfCommits DEF FastForward, Tips

-----------------------------------------------------------------------------
(***************************************************************************)
(* While the branch only goes forward                                      *)
(***************************************************************************)
\* What a request has read lies behind the tip, or is what it will put there.
Behind(r, t) ==
  /\ r.kind = "suggest" /\ r.pc = "read" => r.base \in Past[t]
  /\ r.kind = "suggest" /\ r.pc = "count" =>
       \E c \in Past[t] : r.base \in Past[c] /\ r.read = Version[c]
  /\ r.kind = "suggest" /\ r.pc \in {"swap", "report"} => r.read = Version[Parent[r.new]]
  /\ r.kind = "sync" /\ r.base # None /\ r.pc = "count" => r.base \in Past[t]
  /\ r.kind = "sync" /\ r.base # None /\ r.pc = "swap" => r.base \in Past[Upstream]

ForwardOnly == ~returned => tip # None /\ \A q \in Requests : Behind(req[q], tip)

LEMMA BehindLater ==
  ASSUME NEW t \in Commits, NEW s \in Commits, t \in Past[s], NEW r, Behind(r, t)
  PROVE  Behind(r, s)
  <1>1. Past[t] \subseteq Past[s]
    BY PastIsTransitive
  <1> QED
    BY <1>1 DEF Behind

LEMMA OthersAreBehind ==
  \A r, t : r.kind \notin {"suggest", "sync"} => Behind(r, t)
  BY DEF Behind

LEMMA WaitingIsBehind ==
  /\ Waiting.kind \notin {"suggest", "sync"}
  /\ [Waiting EXCEPT !.pc = "done"].kind \notin {"suggest", "sync"}
  BY KindsAreKnown DEF Waiting, Kinds

\* How the tip goes, in the eyes of the history variable.
Goes == (tip' = tip /\ returned' = returned) \/ (returned' = (returned \/ ~FastForward(tip, tip')))

\* One request steps, and knows what it should where the tip is now.
LEMMA OneGoesForward ==
  ASSUME RefsInv, RefsInv', ForwardOnly, Goes, NEW q \in Requests,
         \A p \in Requests \ {q} : req'[p] = req[p],
         ~returned /\ ~returned' /\ tip \in Commits /\ tip' \in Commits /\ tip \in Past[tip'] /\ Behind(req[q], tip)
           => Behind(req'[q], tip')
  PROVE  ForwardOnly'
  <1> SUFFICES ASSUME ~returned' PROVE tip' # None /\ \A p \in Requests : Behind(req'[p], tip')
    BY DEF ForwardOnly, Behind
  <1>0. ~returned
    BY DEF Goes, RefsInv, Plain
  <1>1. ~returned /\ tip # None /\ \A p \in Requests : Behind(req[p], tip)
    BY <1>0 DEF ForwardOnly
  <1>2. tip \in Commits /\ tip' \in Tips
    BY <1>1 DEF RefsInv, Plain, Tips
  <1>3. tip' \in Commits /\ tip \in Past[tip']
    BY <1>1, <1>2, ForwardFromCommit, PastIsOfCommits DEF Goes
  <1>4. tip' # None
    BY <1>3, CommitsAreATree
  <1>5. ASSUME NEW p \in Requests \ {q} PROVE Behind(req'[p], tip')
    BY <1>1, <1>2, <1>3, BehindLater
  <1> QED
    BY <1>1, <1>2, <1>3, <1>4, <1>5

LEMMA StepsOf ==
  ASSUME RefsInv, NEW q \in Requests, NEW r, Step(q, r)
  PROVE  req'[q] = r /\ \A p \in Requests \ {q} : req'[p] = req[p]
  BY DEF RefsInv, RequestsAreSound, Step

LEMMA GoesAlways == RefsNext => Goes
  <1>1. ASSUME NEW new, NEW before, NEW clears, MovesTo(new, before, clears) PROVE Goes
    BY <1>1 DEF MovesTo, Goes
  <1>2. Stays => Goes
    BY DEF Stays, Goes
  <1>3. UNCHANGED <<tip, returned>> => Goes
    BY DEF Goes
  <1>4. ASSUME NEW q \in Requests,
               \/ BeginPush(q) \/ ReceivePack(q) \/ Report(q) \/ Hangup(q)
               \/ BeginCommit(q) \/ Build(q) \/ Swap(q)
               \/ BeginSuggestion(q) \/ ReadContent(q) \/ CommitInClone(q) \/ PushSuggestion(q)
               \/ ReportSuggestion(q)
               \/ BeginSync(q) \/ Count(q) \/ Sync(q) \/ ReportSync(q) \/ MergeInto(q)
        PROVE  Goes
    <2>1. ReceivePack(q) \/ Swap(q) \/ PushSuggestion(q) \/ Sync(q) \/ MergeInto(q) => Goes
      BY <1>1, <1>2 DEF ReceivePack, Swap, PushSuggestion, Sync, MergeInto
    <2> QED
      BY <1>3, <1>4, <2>1 DEF BeginPush, Report, Hangup, BeginCommit, Build, BeginSuggestion, ReadContent,
         CommitInClone, ReportSuggestion, BeginSync, Count, ReportSync
  <1>5. CreateHead \/ DeleteHead => Goes
    BY <1>1 DEF CreateHead, DeleteHead
  <1>6. LoadPage \/ Tick \/ Untick \/ CloseOrReopen \/ Restart => Goes
    BY <1>3 DEF LoadPage, Tick, Untick, CloseOrReopen, Restart
  <1>7. ASSUME NEW r \in resets, Reset(r[1], r[2]) \/ ResetFails(r[1], r[2]) PROVE Goes
    BY <1>3, <1>7 DEF Reset, ResetFails
  <1> QED
    BY <1>4, <1>5, <1>6, <1>7 DEF RefsNext

LEMMA SuggestionGoesForward ==
  ASSUME RefsInv, RefsInv', ForwardOnly, Goes, NEW q \in Requests,
         \/ BeginSuggestion(q) \/ ReadContent(q) \/ CommitInClone(q) \/ PushSuggestion(q)
         \/ ReportSuggestion(q)
  PROVE  ForwardOnly'
  <1>1. req[q] \in Fields /\ (req[q].kind = "suggest" => req[q].base # None)
    BY FieldsOf DEF Sound
  <1>2. CASE BeginSuggestion(q)
    <2> DEFINE r == [Waiting EXCEPT !.pc = "read", !.kind = "suggest", !.base = tip]
    <2>1. r.pc = "read" /\ r.kind = "suggest" /\ r.base = tip
      BY DEF Waiting
    <2>2. Step(q, r) /\ tip' = tip
      BY <1>2 DEF BeginSuggestion
    <2> HIDE DEF r
    <2>3. tip \in Commits => Behind(r, tip')
      BY <2>1, <2>2, PastIsOfCommits DEF Behind
    <2>4. req'[q] = r /\ \A p \in Requests \ {q} : req'[p] = req[p]
      BY <2>2, StepsOf
    <2> QED
      BY <2>3, <2>4, OneGoesForward
  <1>3. CASE ReadContent(q) /\ tip # None
    <2> DEFINE r == [req[q] EXCEPT !.pc = "count", !.read = Version[tip]]
    <2>1. r.pc = "count" /\ r.kind = "suggest" /\ r.base = req[q].base /\ r.read = Version[tip]
      BY <1>1, <1>3 DEF Fields, ReadContent
    <2>2. Step(q, r) /\ tip' = tip /\ req[q].kind = "suggest" /\ req[q].pc = "read"
      BY <1>3 DEF ReadContent
    <2> HIDE DEF r
    <2>3. tip \in Commits /\ Behind(req[q], tip) => Behind(r, tip')
      BY <2>1, <2>2, PastIsOfCommits DEF Behind
    <2>4. req'[q] = r /\ \A p \in Requests \ {q} : req'[p] = req[p]
      BY <2>2, StepsOf
    <2> QED
      BY <2>3, <2>4, OneGoesForward
  <1>4. CASE CommitInClone(q) /\ tip = req[q].base
    <2>1. PICK new \in Fresh(made, tip) : Step(q, [req[q] EXCEPT !.pc = "swap", !.new = new])
      BY <1>4 DEF CommitInClone
    <2> DEFINE r == [req[q] EXCEPT !.pc = "swap", !.new = new]
    <2>2. r.pc = "swap" /\ r.kind = "suggest" /\ r.base = tip /\ r.read = req[q].read /\ r.new = new
      BY <1>1, <1>4 DEF Fields, CommitInClone
    <2>3. Step(q, r) /\ tip' = tip /\ Parent[new] = tip
      BY <1>4, <2>1 DEF CommitInClone, Fresh
    <2> HIDE DEF r
    <2>4. ASSUME tip \in Commits, Behind(req[q], tip) PROVE Behind(r, tip')
      <3>1. PICK c \in Past[tip] : tip \in Past[c] /\ req[q].read = Version[c]
        BY <1>4, <2>4 DEF Behind, CommitInClone
      <3>2. c = tip
        BY <2>4, <3>1, PastIsOrdered
      <3> QED
        BY <2>2, <2>3, <3>1, <3>2 DEF Behind
    <2>5. req'[q] = r /\ \A p \in Requests \ {q} : req'[p] = req[p]
      BY <2>3, StepsOf
    <2> QED
      BY <2>4, <2>5, OneGoesForward
  <1>5. CASE PushSuggestion(q) /\ Step(q, [req[q] EXCEPT !.pc = "report"])
    <2> DEFINE r == [req[q] EXCEPT !.pc = "report"]
    <2>1. r.pc = "report" /\ r.kind = "suggest" /\ r.read = req[q].read /\ r.new = req[q].new
      BY <1>1, <1>5 DEF Fields, PushSuggestion
    <2>2. Step(q, r) /\ req[q].pc = "swap" /\ req[q].kind = "suggest"
      BY <1>5 DEF PushSuggestion
    <2> HIDE DEF r
    <2>3. Behind(req[q], tip) => Behind(r, tip')
      BY <2>1, <2>2 DEF Behind
    <2>4. req'[q] = r /\ \A p \in Requests \ {q} : req'[p] = req[p]
      BY <2>2, StepsOf
    <2> QED
      BY <2>3, <2>4, OneGoesForward
  <1>6. CASE Finish(q)
    <2> DEFINE r == [Waiting EXCEPT !.pc = "done"]
    <2>1. req'[q] = r /\ \A p \in Requests \ {q} : req'[p] = req[p]
      BY <1>6, StepsOf DEF Finish
    <2>2. Behind(r, tip')
      BY WaitingIsBehind, OthersAreBehind
    <2> HIDE DEF r
    <2> QED
      BY <2>1, <2>2, OneGoesForward
  <1> QED
    BY <1>2, <1>3, <1>4, <1>5, <1>6 DEF ReadContent, CommitInClone, PushSuggestion, ReportSuggestion

LEMMA SyncGoesForward ==
  ASSUME RefsInv, RefsInv', ForwardOnly, Goes, NEW q \in Requests,
         BeginSync(q) \/ Count(q) \/ Sync(q) \/ ReportSync(q)
  PROVE  ForwardOnly'
  <1>1. req[q] \in Fields /\ Upstream \in Commits
    BY FieldsOf, CommitsAreATree
  <1>2. CASE BeginSync(q)
    <2> DEFINE r == [Waiting EXCEPT !.pc = "count", !.kind = "sync", !.base = tip]
    <2>1. r.pc = "count" /\ r.kind = "sync" /\ r.base = tip
      BY DEF Waiting
    <2>2. Step(q, r) /\ tip' = tip
      BY <1>2 DEF BeginSync
    <2> HIDE DEF r
    <2>3. tip \in Commits => Behind(r, tip')
      BY <2>1, <2>2, PastIsOfCommits DEF Behind
    <2>4. req'[q] = r /\ \A p \in Requests \ {q} : req'[p] = req[p]
      BY <2>2, StepsOf
    <2> QED
      BY <2>3, <2>4, OneGoesForward
  <1>3. CASE Count(q) /\ Step(q, [req[q] EXCEPT !.pc = "swap", !.new = Upstream])
    <2> DEFINE r == [req[q] EXCEPT !.pc = "swap", !.new = Upstream]
    <2>1. r.pc = "swap" /\ r.kind = "sync" /\ r.base = req[q].base
      BY <1>1, <1>3 DEF Fields, Count
    <2>2. Step(q, r) /\ tip' = tip /\ req[q].kind = "sync" /\ req[q].pc = "count"
      BY <1>3 DEF Count
    <2>3. req[q].base # None => FastForward(tip, Upstream) \/ Finish(q)
      BY <1>3 DEF Count
    <2> HIDE DEF r
    <2>4. ~Finish(q)
      <3> DEFINE done == [Waiting EXCEPT !.pc = "done"]
      <3>1. done.pc = "done" /\ (Finish(q) => Step(q, done))
        BY DEF Waiting, Finish
      <3> HIDE DEF done
      <3> QED
        BY <2>1, <2>2, <3>1, StepsOf
    <2>5. ASSUME tip \in Commits, Behind(req[q], tip) PROVE Behind(r, tip')
      <3>1. CASE req[q].base = None
        BY <2>1, <3>1 DEF Behind
      <3>2. CASE req[q].base # None
        <4>1. tip \in Past[Upstream] /\ req[q].base \in Past[tip]
          BY <1>1, <2>2, <2>3, <2>4, <2>5, <3>2, ForwardFromCommit DEF Behind, Tips
        <4>2. req[q].base \in Past[Upstream]
          BY <1>1, <4>1, PastIsTransitive
        <4> QED
          BY <2>1, <4>2 DEF Behind
      <3> QED
        BY <3>1, <3>2
    <2>6. req'[q] = r /\ \A p \in Requests \ {q} : req'[p] = req[p]
      BY <2>2, StepsOf
    <2> QED
      BY <2>5, <2>6, OneGoesForward
  <1>4. CASE Sync(q) /\ Step(q, [req[q] EXCEPT !.pc = "report"])
    <2> DEFINE r == [req[q] EXCEPT !.pc = "report"]
    <2>1. r.pc = "report" /\ r.kind = "sync" /\ Step(q, r)
      BY <1>1, <1>4 DEF Fields, Sync
    <2> HIDE DEF r
    <2>2. Behind(r, tip')
      BY <2>1 DEF Behind
    <2>3. req'[q] = r /\ \A p \in Requests \ {q} : req'[p] = req[p]
      BY <2>1, StepsOf
    <2> QED
      BY <2>2, <2>3, OneGoesForward
  <1>5. CASE Finish(q)
    <2> DEFINE r == [Waiting EXCEPT !.pc = "done"]
    <2>1. req'[q] = r /\ \A p \in Requests \ {q} : req'[p] = req[p]
      BY <1>5, StepsOf DEF Finish
    <2>2. Behind(r, tip')
      BY WaitingIsBehind, OthersAreBehind
    <2> HIDE DEF r
    <2> QED
      BY <2>1, <2>2, OneGoesForward
  <1> QED
    BY <1>2, <1>3, <1>4, <1>5 DEF Count, Sync, ReportSync

\* A push, a commit of the editor or a merge has nothing to remember.
LEMMA OthersGoForward ==
  ASSUME RefsInv, RefsInv', ForwardOnly, Goes, NEW q \in Requests,
         \/ BeginPush(q) \/ ReceivePack(q) \/ Report(q) \/ Hangup(q)
         \/ BeginCommit(q) \/ Build(q) \/ Swap(q) \/ MergeInto(q)
  PROVE  ForwardOnly'
  <1>1. req[q] \in Fields /\ (req[q].pc = "receive" => req[q].kind = "push")
    BY FieldsOf DEF Sound
  <1>2. PICK r : Step(q, r) /\ r.kind \notin {"suggest", "sync"}
    <2>1. CASE BeginPush(q)
      <3> DEFINE r == [Waiting EXCEPT !.pc = "receive", !.kind = "push", !.before = tip]
      <3>1. r.kind \notin {"suggest", "sync"} /\ Step(q, r)
        BY <2>1 DEF BeginPush, Waiting
      <3> HIDE DEF r
      <3> QED
        BY <3>1
    <2>2. CASE BeginCommit(q)
      <3> DEFINE r == [Waiting EXCEPT !.pc = "read", !.kind = "commit", !.before = tip]
      <3>1. r.kind \notin {"suggest", "sync"} /\ Step(q, r)
        BY <2>2 DEF BeginCommit, Waiting
      <3> HIDE DEF r
      <3> QED
        BY <3>1
    <2>3. CASE MergeInto(q)
      <3>1. PICK new : Step(q, [Waiting EXCEPT !.pc = "report", !.kind = "merge", !.new = new])
        BY <2>3 DEF MergeInto
      <3> DEFINE r == [Waiting EXCEPT !.pc = "report", !.kind = "merge", !.new = new]
      <3>2. r.kind \notin {"suggest", "sync"} /\ Step(q, r)
        BY <3>1 DEF Waiting
      <3> HIDE DEF r
      <3> QED
        BY <3>2
    <2>4. CASE Finish(q)
      BY <2>4, WaitingIsBehind DEF Finish
    <2>5. CASE Step(q, [req[q] EXCEPT !.pc = "report"]) /\ (ReceivePack(q) \/ Swap(q))
      <3> DEFINE r == [req[q] EXCEPT !.pc = "report"]
      <3>1. r.kind \notin {"suggest", "sync"} /\ Step(q, r)
        BY <1>1, <2>5 DEF ReceivePack, Swap, Fields
      <3> HIDE DEF r
      <3> QED
        BY <3>1
    <2>6. ASSUME ReceivePack(q), NEW new \in Tips, Step(q, [req[q] EXCEPT !.pc = "report", !.new = new])
          PROVE  \E r : Step(q, r) /\ r.kind \notin {"suggest", "sync"}
      <3> DEFINE r == [req[q] EXCEPT !.pc = "report", !.new = new]
      <3>1. r.kind \notin {"suggest", "sync"} /\ Step(q, r)
        BY <1>1, <2>6 DEF ReceivePack, Fields
      <3> HIDE DEF r
      <3> QED
        BY <3>1
    <2>7. CASE Build(q)
      <3>1. PICK new : Step(q, [req[q] EXCEPT !.pc = "swap", !.base = tip, !.new = new])
        BY <2>7 DEF Build
      <3> DEFINE r == [req[q] EXCEPT !.pc = "swap", !.base = tip, !.new = new]
      <3>2. r.kind \notin {"suggest", "sync"} /\ Step(q, r)
        BY <1>1, <2>7, <3>1 DEF Build, Fields
      <3> HIDE DEF r
      <3> QED
        BY <3>2
    <2> QED
      BY <2>1, <2>2, <2>3, <2>4, <2>5, <2>6, <2>7 DEF ReceivePack, Report, Hangup, Swap
  <1>3. req'[q] = r /\ \A p \in Requests \ {q} : req'[p] = req[p]
    BY <1>2, StepsOf
  <1>4. Behind(r, tip')
    BY <1>2, OthersAreBehind
  <1> QED
    BY <1>3, <1>4, OneGoesForward

\* Nothing of a request changes: it is as far behind as it was.
LEMMA BranchGoesForward ==
  ASSUME RefsInv, RefsInv', ForwardOnly, Goes, UNCHANGED req
  PROVE  ForwardOnly'
  <1> SUFFICES ASSUME ~returned' PROVE tip' # None /\ \A p \in Requests : Behind(req[p], tip')
    BY DEF ForwardOnly, Behind
  <1>1. ~returned
    BY DEF Goes, RefsInv, Plain
  <1>2. tip # None /\ \A p \in Requests : Behind(req[p], tip)
    BY <1>1 DEF ForwardOnly
  <1>3. tip \in Commits /\ tip' \in Tips
    BY <1>2 DEF RefsInv, Plain, Tips
  <1>4. tip' \in Commits /\ tip \in Past[tip']
    BY <1>1, <1>3, ForwardFromCommit, PastIsOfCommits DEF Goes
  <1>5. tip' # None
    BY <1>4, CommitsAreATree
  <1>6. ASSUME NEW p \in Requests PROVE Behind(req[p], tip')
    BY <1>2, <1>3, <1>4, BehindLater
  <1> QED
    BY <1>5, <1>6

LEMMA ForwardStep == RefsInv /\ RefsInv' /\ ForwardOnly /\ [RefsNext]_refsVars => ForwardOnly'
  <1> SUFFICES ASSUME RefsInv, RefsInv', ForwardOnly, [RefsNext]_refsVars PROVE ForwardOnly'
    OBVIOUS
  <1>1. CASE UNCHANGED refsVars
    BY <1>1, BranchGoesForward DEF refsVars, Goes
  <1>2. Goes
    BY GoesAlways DEF refsVars, Goes
  <1>3. CASE CreateHead \/ DeleteHead \/ LoadPage \/ Tick \/ Untick \/ CloseOrReopen
    BY <1>2, <1>3, BranchGoesForward DEF CreateHead, DeleteHead, LoadPage, Tick, Untick, CloseOrReopen
  <1>4. ASSUME NEW r \in resets, Reset(r[1], r[2]) \/ ResetFails(r[1], r[2]) PROVE ForwardOnly'
    BY <1>2, <1>4, BranchGoesForward DEF Reset, ResetFails
  <1>5. CASE Restart
    <2> DEFINE done == [Waiting EXCEPT !.pc = "done"]
    <2>1. req' = [q \in Requests |-> IF q \in Going THEN done ELSE req[q]] /\ UNCHANGED <<tip, returned>>
      BY <1>5 DEF Restart
    <2>2. Behind(done, tip)
      BY WaitingIsBehind, OthersAreBehind
    <2> HIDE DEF done
    <2>3. ASSUME NEW q \in Requests, Behind(req[q], tip) PROVE Behind(req'[q], tip')
      BY <2>1, <2>2, <2>3
    <2> QED
      BY <2>1, <2>3 DEF ForwardOnly, Behind
  <1> QED
    BY <1>1, <1>2, <1>3, <1>4, <1>5, SuggestionGoesForward, SyncGoesForward, OthersGoForward DEF RefsNext

LEMMA ForwardHolds == RefsSpec => [](RefsInv /\ ForwardOnly)
  <1>1. RefsInit => ForwardOnly
    BY CommitsAreATree, WaitingIsBehind, OthersAreBehind DEF RefsInit, ForwardOnly
  <1> QED
    BY <1>1, RefsInvInit, RefsInvStep, ForwardStep, PTL DEF RefsSpec

-----------------------------------------------------------------------------
(***************************************************************************)
(* A suggestion that is applied was computed from the file as it is in the *)
(* commit it follows, though other requests move the branch between its    *)
(* reads (git-utils.ts, commitFileChange; routes/pr-suggestions.ts).       *)
(***************************************************************************)
THEOREM SuggestionFits == RefsSpec => []SuggestionIsOfItsParent
  <1>1. RefsInv /\ ForwardOnly => SuggestionIsOfItsParent
    BY DEF ForwardOnly, Behind, SuggestionIsOfItsParent
  <1> QED
    BY <1>1, ForwardHolds, PTL

(***************************************************************************)
(* Where the server moves the branch itself, the new tip follows the old:  *)
(* the old value that update-ref is given, and the push that is not        *)
(* forced, let nobody's commits be dropped (web-commit.ts, commitChanges;  *)
(* git-utils.ts, syncForkBranch).                                          *)
(***************************************************************************)
THEOREM NothingDiscarded == RefsSpec => ServerNeverDiscards
  <1>1. ASSUME RefsInv, ForwardOnly, [RefsNext]_refsVars, NEW q \in Requests,
               req[q].pc = "swap", req'[q].pc = "report"
        PROVE  FastForward(tip, tip') \/ returned \/ (req[q].kind = "sync" /\ req[q].base = None)
    <2>1. req[q] \in Fields /\ Sound(req[q], made) /\ tip \in Tips
      BY <1>1, FieldsOf
    <2>2. Swap(q) \/ PushSuggestion(q) \/ Sync(q)
      <3>1. ASSUME NEW p \in Requests \ {q}, NEW r, Step(p, r) PROVE FALSE
        BY <1>1, <3>1, StepsOf
      <3>2. \A p \in Requests : ~Finish(p)
        <4> DEFINE done == [Waiting EXCEPT !.pc = "done"]
        <4>1. done.pc = "done" /\ \A p \in Requests : Finish(p) => Step(p, done)
          BY DEF Waiting, Finish
        <4> HIDE DEF done
        <4> QED
          BY <1>1, <3>1, <4>1, StepsOf
      <3>3. ~Restart
        <4>1. Restart => req'[q] = IF q \in Going THEN [Waiting EXCEPT !.pc = "done"] ELSE req[q]
          BY <1>1 DEF Restart
        <4> QED
          BY <1>1, <4>1 DEF Waiting, Going
      <3>4. req' # req
        BY <1>1
      <3>5. PICK p \in Requests :
              \/ BeginPush(p) \/ ReceivePack(p) \/ BeginCommit(p) \/ Build(p) \/ Swap(p)
              \/ BeginSuggestion(p) \/ ReadContent(p) \/ CommitInClone(p) \/ PushSuggestion(p)
              \/ BeginSync(p) \/ Count(p) \/ Sync(p) \/ MergeInto(p)
        BY <1>1, <3>2, <3>3, <3>4 DEF RefsNext, refsVars, CreateHead, DeleteHead, LoadPage, Tick, Untick,
           CloseOrReopen, Reset, ResetFails, Report, Hangup, ReportSuggestion, ReportSync
      <3>6. p = q
        <4>1. \E r : Step(p, r)
          BY <3>2, <3>5 DEF BeginPush, ReceivePack, BeginCommit, Build, Swap, BeginSuggestion, ReadContent,
             CommitInClone, PushSuggestion, BeginSync, Count, Sync, MergeInto
        <4> QED
          BY <3>1, <4>1
      <3> QED
        BY <1>1, <3>5, <3>6 DEF BeginPush, ReceivePack, BeginCommit, Build, BeginSuggestion, ReadContent,
           CommitInClone, BeginSync, Count, MergeInto
    <2>3. ~Finish(q)
      <3> DEFINE done == [Waiting EXCEPT !.pc = "done"]
      <3>1. done.pc = "done" /\ (Finish(q) => Step(q, done))
        BY DEF Waiting, Finish
      <3> HIDE DEF done
      <3> QED
        BY <1>1, <3>1, StepsOf
    <2>4. CASE PushSuggestion(q)
      BY <2>3, <2>4 DEF PushSuggestion, MovesTo
    <2>5. CASE Swap(q)
      <3>1. tip = req[q].base /\ tip' = req[q].new
        BY <2>3, <2>5 DEF Swap, MovesTo
      <3>2. CASE tip = None
        BY <3>2 DEF FastForward
      <3>3. CASE tip # None
        <4>1. tip \in Commits /\ Parent[req[q].new] = tip /\ req[q].new \in Commits
          BY <2>1, <2>5, <3>1, <3>3 DEF Swap, Sound, Fields, Tips
        <4>2. tip \in Past[req[q].new]
          BY <3>3, <4>1, PastIsOfCommits, PastIsClosed
        <4> QED
          BY <3>1, <4>1, <4>2, ForwardFromCommit DEF Tips
      <3> QED
        BY <3>2, <3>3
    <2>6. CASE Sync(q)
      <3>1. tip' = Upstream /\ req[q].base \in {None, tip} /\ req[q].kind = "sync"
        BY <2>3, <2>6 DEF Sync, MovesTo
      <3> SUFFICES ASSUME ~returned, req[q].base # None PROVE FastForward(tip, Upstream)
        BY <3>1
      <3>2. tip \in Past[Upstream] /\ tip \in Commits
        BY <1>1, <3>1, CommitsAreATree, PastIsOfCommits DEF ForwardOnly, Behind
      <3> QED
        BY <3>1, <3>2, CommitsAreATree DEF FastForward
    <2> QED
      BY <2>2, <2>4, <2>5, <2>6
  <1>2. RefsInv /\ ForwardOnly /\ [RefsNext]_refsVars =>
          [\A q \in Requests : req[q].pc = "swap" /\ req'[q].pc = "report" =>
             FastForward(tip, tip') \/ returned \/ (req[q].kind = "sync" /\ req[q].base = None)]_refsVars
    BY <1>1
  <1> QED
    BY <1>2, ForwardHolds, PTL DEF RefsSpec, ServerNeverDiscards
=============================================================================

----------------------------- MODULE PagesProofs -----------------------------
(***************************************************************************)
(* Theorems about the pages of the web client and what they show: the page *)
(* of an issue and that of a pull request, for any issues, labels and pull *)
(* requests; the board of a project, its rows and its page, for any        *)
(* columns and cards; each for any number of requests under way.           *)
(***************************************************************************)
EXTENDS Board, IssuePage, PullPage, FiniteSetTheorems, NaturalsInduction, WellFoundedInduction, TLAPS

(***************************************************************************)
(* The page of an issue.  Answers have an order, the one in which the      *)
(* server gave them, and the page takes them in any; the copy is right in  *)
(* the end if the last of them would leave it right, and what could break  *)
(* that is marked already: an answer that was overtaken, or a label that   *)
(* was asked for when the page showed something else.                      *)
(***************************************************************************)
\* The answers that are on their way and from which the page sets its copy; of them, those for issue n.
OnTheirWay == {q \in Requests : ask[q].pc = "answered" /\ ask[q].what \in Kinds \ {"comment"}}
For(n) == {q \in OnTheirWay : ask[q].to = n}

\* What an answer will make of the copy.
Value(q) == IF ask[q].what = "label" THEN Relabelled(ask[q]) ELSE ask[q].answer

\* The last answer of S, and what S leaves on the page when it is taken in order.
LastAnswer(q, S) == q \in S /\ \A p \in S \ {q} : p \in ask[q].after
Leaves(S, v) == (S = {} /\ v = copy) \/ \E q \in S : LastAnswer(q, S) /\ v = Value(q)
Preceding(q) == {p \in For(ask[q].to) : p \in ask[q].after}

AnswersOrdered ==
  /\ \A q \in Requests : ask[q].after \subseteq OnTheirWay \ {q}
  /\ \A p, q \in OnTheirWay : p # q => (p \in ask[q].after <=> q \notin ask[p].after)

\* What replaces the copy by the issue as it is, whatever comes first.
Unopened == loading /\ Asked = {}
ToBeRead(n) == \E q \in Requests : ask[q].to = n /\
  \/ ask[q].pc = "sent" /\ ask[q].what \in {"load", "refresh"}
  \/ ask[q].pc = "answered" /\ ask[q].what = "comment"

\* What makes the page give up: an answer that was overtaken, and a label asked for when
\* the page showed something else than it will have then, with no whole issue after it.
SomeLate(n) == \E q \in For(n) : ask[q].late
NoneWholeAfter(q, n) == \A p \in For(n) : ask[p].what # "label" => p \in ask[q].after
Misplaced(n) == \E q \in For(n) :
  ask[q].what = "label" /\ ~Leaves(Preceding(q), ask[q].with) /\ NoneWholeAfter(q, n)

RightFor(n) ==
  ~crossed /\ ~failed /\ n \notin behind =>
    Unopened \/ ToBeRead(n) \/ SomeLate(n) \/ Misplaced(n) \/ Leaves(For(n), Copy(n))
CopyWillBeRight == \A n \in Issues : n = shownOf => RightFor(n)

AsksWhole == \A q \in Requests : LET a == ask[q] IN
  /\ a.pc # "idle" => a.what \in Kinds /\ a.to \in Issues
  /\ a.pc # "idle" /\ a.what = "label" => a.with \in Copies /\ a.label \in PageLabels
  /\ a.pc = "answered" /\ a.what \notin {"label", "comment"} => a.answer \in Copies
OneStateButton == \A p, q \in Asked : ask[p].what = "state" /\ ask[q].what = "state" => p = q

IssuePageInv == IssuePageTypeOK /\ AsksWhole /\ OneStateButton /\ AnswersOrdered /\ CopyWillBeRight

AskRecords == [pc: {"idle", "sent", "answered"}, what: Kinds \cup {None}, to: Issues \cup {None},
               label: PageLabels \cup {None}, rest: BOOLEAN, with: Copies \cup {None},
               answer: Copies \cup {None}, after: SUBSET Requests, late: BOOLEAN]

LEMMA IssuePageInitInv == IssuePageInit => IssuePageInv
  <1> SUFFICES ASSUME IssuePageInit PROVE IssuePageInv
    OBVIOUS
  <1>1. \A q \in Requests : ask[q] = Unasked /\ ask[q].pc = "idle" /\ ask[q].after = {}
    BY DEF IssuePageInit, Unasked
  <1>2. Asked = {} /\ OnTheirWay = {}
    BY <1>1 DEF Asked, OnTheirWay
  <1>3. Unasked \in AskRecords
    BY DEF Unasked, AskRecords
  <1>4. issue \in [Issues -> IssueRows]
    BY DEF IssuePageInit, Plain, IssueRows
  <1>5. ask \in [Requests -> AskRecords]
    BY <1>3 DEF IssuePageInit
  <1>6. IssuePageTypeOK
    <2>1. held = {} /\ behind = {} /\ edits \in 0..MaxEdits
      BY EditsBound DEF IssuePageInit
    <2>2. "state" \in held <=> \E q \in Asked : ask[q].what = "state"
      BY <1>2, <2>1
    <2>3. shownOf \in Issues /\ copy \in Copies \cup {None} /\ loading \in BOOLEAN /\ failed \in BOOLEAN /\ crossed \in BOOLEAN
      BY DEF IssuePageInit
    <2> QED
      BY <1>4, <1>5, <2>1, <2>2, <2>3 DEF IssuePageTypeOK, AskRecords
  <1>7. AsksWhole
    BY <1>1 DEF AsksWhole
  <1>8. OneStateButton /\ AnswersOrdered
    BY <1>1, <1>2 DEF OneStateButton, AnswersOrdered
  <1>9. CopyWillBeRight
    BY <1>2 DEF CopyWillBeRight, RightFor, Unopened, IssuePageInit
  <1> QED
    BY <1>6, <1>7, <1>8, <1>9 DEF IssuePageInv

LEMMA RequestTyped ==
  ASSUME IssuePageTypeOK
  PROVE  ask \in [Requests -> AskRecords]
  BY DEF IssuePageTypeOK, AskRecords

\* What a request is as it is sent.
LEMMA SentFields ==
  ASSUME NEW what \in Kinds, NEW n \in Issues, NEW l \in PageLabels \cup {None},
         what = "label" => copy \in Copies, NEW a, a = Sent(what, n, l)
  PROVE  /\ a \in AskRecords
         /\ a.pc = "sent" /\ a.what = what /\ a.to = n /\ a.label = l /\ a.after = {}
         /\ what = "label" => a.with = copy
  <1> DEFINE rest == what \in {"state", "fix"} /\ ~copy.row.rest
             with == IF what = "label" THEN copy ELSE None
  <1>1. Sent(what, n, l) = [pc |-> "sent", what |-> what, to |-> n, label |-> l, rest |-> rest, with |-> with,
                            answer |-> None, after |-> {}, late |-> FALSE]
    <2>1. Sent(what, n, l) = [Unasked EXCEPT !.pc = "sent", !.what = what, !.to = n, !.label = l, !.rest = rest,
                                             !.with = with]
      BY DEF Sent
    <2> HIDE DEF rest, with
    <2> QED
      BY <2>1 DEF Unasked
  <1>2. rest \in BOOLEAN /\ with \in Copies \cup {None}
    OBVIOUS
  <1> HIDE DEF rest, with
  <1>3. Sent(what, n, l) \in AskRecords
    BY <1>1, <1>2 DEF AskRecords
  <1> QED
    BY <1>1, <1>3 DEF with

\* An answer has come: it is not on its way, and what it overtook is late.
LEMMA ComeFields ==
  ASSUME IssuePageTypeOK, NEW q \in Requests, ask' = Come(ask, q, Unasked)
  PROVE  /\ ask' \in [Requests -> AskRecords] /\ ask'[q] = Unasked
         /\ \A p \in Requests \ {q} :
              /\ ask'[p].pc = ask[p].pc /\ ask'[p].what = ask[p].what /\ ask'[p].to = ask[p].to
              /\ ask'[p].label = ask[p].label /\ ask'[p].rest = ask[p].rest /\ ask'[p].with = ask[p].with
              /\ ask'[p].answer = ask[p].answer /\ ask'[p].after = ask[p].after \ {q}
              /\ ask'[p].late = (ask[p].late \/ p \in ask[q].after)
  <1>0. ask \in [Requests -> AskRecords] /\ DOMAIN ask = Requests
    BY RequestTyped
  <1>1. ask' = [p \in Requests |->
          IF p = q THEN Unasked
          ELSE [ask[p] EXCEPT !.after = ask[p].after \ {q}, !.late = ask[p].late \/ p \in ask[q].after]]
    BY <1>0 DEF Come
  <1>2. Unasked \in AskRecords
    BY DEF Unasked, AskRecords
  <1>3. ASSUME NEW p \in Requests \ {q}
        PROVE  /\ ask'[p].pc = ask[p].pc /\ ask'[p].what = ask[p].what /\ ask'[p].to = ask[p].to
               /\ ask'[p].label = ask[p].label /\ ask'[p].rest = ask[p].rest /\ ask'[p].with = ask[p].with
               /\ ask'[p].answer = ask[p].answer /\ ask'[p].after = ask[p].after \ {q}
               /\ ask'[p].late = (ask[p].late \/ p \in ask[q].after)
               /\ ask'[p] \in AskRecords
    <2>1. ask[p] \in AskRecords
      BY <1>0
    <2>2. ask'[p] = [ask[p] EXCEPT !.after = ask[p].after \ {q}, !.late = ask[p].late \/ p \in ask[q].after]
      BY <1>1
    <2>3. (ask[p].late \/ p \in ask[q].after) \in BOOLEAN
      BY <2>1 DEF AskRecords
    <2> QED
      BY <2>1, <2>2, <2>3 DEF AskRecords
  <1>4. ask'[q] = Unasked
    BY <1>1
  <1>5. ask' \in [Requests -> AskRecords]
    BY <1>1, <1>2, <1>3, <1>4
  <1> QED
    BY <1>3, <1>4, <1>5

LEMMA LeftTheWay ==
  ASSUME IssuePageTypeOK, NEW q \in Requests, ask' = Come(ask, q, Unasked), NEW n
  PROVE  OnTheirWay' = OnTheirWay \ {q} /\ For(n)' = For(n) \ {q} /\ Asked' = Asked \ {q}
  <1>1. \A p \in Requests \ {q} : ask'[p].pc = ask[p].pc /\ ask'[p].what = ask[p].what /\ ask'[p].to = ask[p].to
    BY ComeFields
  <1>2. ask'[q].pc = "idle"
    <2>1. ask'[q] = Unasked
      BY ComeFields
    <2> QED
      BY <2>1 DEF Unasked
  <1>3. OnTheirWay' = OnTheirWay \ {q}
    BY <1>1, <1>2 DEF OnTheirWay
  <1>4. Asked' = Asked \ {q}
    BY <1>1, <1>2 DEF Asked
  <1>5. For(n)' = For(n) \ {q}
    BY <1>1, <1>3 DEF For, OnTheirWay
  <1> QED
    BY <1>3, <1>4, <1>5

\* Nothing changes that is on its way for the issue n, nor the copy.
LEMMA WayIsKept ==
  ASSUME NEW n, For(n)' = For(n), \A p \in For(n) : ask'[p] = ask[p], copy' = copy
  PROVE  /\ SomeLate(n) => SomeLate(n)'
         /\ Misplaced(n) => Misplaced(n)'
         /\ \A v : Leaves(For(n), v) => Leaves(For(n), v)'
  <1>2. ASSUME NEW p \in For(n) PROVE Value(p)' = Value(p)
    BY DEF Value, Relabelled
  <1>3. ASSUME NEW S, S \subseteq For(n), NEW v PROVE Leaves(S, v)' <=> Leaves(S, v)
    <2>1. ASSUME NEW p \in S PROVE LastAnswer(p, S)' <=> LastAnswer(p, S)
      BY <1>3 DEF LastAnswer
    <2> QED
      BY <1>2, <1>3, <2>1 DEF Leaves
  <1>5. SomeLate(n) => SomeLate(n)'
    BY DEF SomeLate
  <1>6. \A v : Leaves(For(n), v) => Leaves(For(n), v)'
    <2> SUFFICES ASSUME NEW v, Leaves(For(n), v) PROVE Leaves(For(n), v)'
      OBVIOUS
    <2> PICK S : S = For(n)
      OBVIOUS
    <2>1. Leaves(S, v)'
      BY <1>3
    <2> QED
      BY <2>1 DEF Leaves
  <1>7. Misplaced(n) => Misplaced(n)'
    <2> SUFFICES ASSUME NEW q \in For(n), ask[q].what = "label", ~Leaves(Preceding(q), ask[q].with), NoneWholeAfter(q, n)
                 PROVE  Misplaced(n)'
      BY DEF Misplaced
    <2>1. ask'[q] = ask[q] /\ q \in For(n)' /\ ask[q].to = n
      BY DEF For
    <2>2. Preceding(q)' = Preceding(q) /\ Preceding(q) \subseteq For(n)
      BY <2>1 DEF Preceding
    <2>3. NoneWholeAfter(q, n)'
      BY <2>1 DEF NoneWholeAfter
    <2> PICK S, v : S = Preceding(q) /\ v = ask[q].with
      OBVIOUS
    <2>4. ~Leaves(S, v)'
      BY <1>3, <2>2
    <2>5. ~Leaves(Preceding(q), ask[q].with)'
      BY <2>1, <2>2, <2>4 DEF Leaves
    <2> QED
      BY <2>1, <2>3, <2>5 DEF Misplaced
  <1> QED
    BY <1>5, <1>6, <1>7

\* A request is sent: nothing on its way is touched.
LEMMA AsksOne ==
  ASSUME IssuePageInv, NEW q \in Requests, q \notin OnTheirWay, ask[q].pc = "idle" \/ ask[q].what # "state",
         NEW what \in Kinds, NEW n \in Issues, NEW l \in PageLabels \cup {None},
         what = "label" => copy \in Copies /\ l \in PageLabels,
         what = "state" => "state" \notin held,
         ask' = [ask EXCEPT ![q] = Sent(what, n, l)]
  PROVE  /\ ask' \in [Requests -> AskRecords] /\ AsksWhole' /\ OneStateButton' /\ AnswersOrdered'
         /\ OnTheirWay' = OnTheirWay /\ \A p \in OnTheirWay : ask'[p] = ask[p]
         /\ ask'[q].pc = "sent" /\ ask'[q].what = what /\ ask'[q].to = n
         /\ Asked' = Asked \cup {q}
         /\ \A p \in Requests \ {q} : ask'[p] = ask[p]
         /\ (\E p \in Asked' : ask'[p].what = "state") <=> (what = "state" \/ \E p \in Asked : ask[p].what = "state")
  <1> PICK a : a = Sent(what, n, l)
    OBVIOUS
  <1>1. /\ a \in AskRecords
        /\ a.pc = "sent" /\ a.what = what /\ a.to = n /\ a.label = l /\ a.after = {}
        /\ what = "label" => a.with = copy
    <2>1. what = "label" => copy \in Copies
      OBVIOUS
    <2> QED
      BY <2>1, SentFields
  <1>2. ask \in [Requests -> AskRecords]
    BY RequestTyped DEF IssuePageInv
  <1>3. ask' \in [Requests -> AskRecords] /\ ask'[q] = a /\ \A p \in Requests \ {q} : ask'[p] = ask[p]
    BY <1>1, <1>2
  <1>4. OnTheirWay' = OnTheirWay /\ \A p \in OnTheirWay : ask'[p] = ask[p]
    BY <1>1, <1>3 DEF OnTheirWay
  <1>5. Asked' = Asked \cup {q}
    BY <1>1, <1>3 DEF Asked
  <1>6. AsksWhole'
    <2> SUFFICES ASSUME NEW p \in Requests
                 PROVE  /\ ask'[p].pc # "idle" => ask'[p].what \in Kinds /\ ask'[p].to \in Issues
                        /\ ask'[p].pc # "idle" /\ ask'[p].what = "label" => ask'[p].with \in Copies /\ ask'[p].label \in PageLabels
                        /\ ask'[p].pc = "answered" /\ ask'[p].what \notin {"label", "comment"} => ask'[p].answer \in Copies
      BY DEF AsksWhole, Copies, IssueRows
    <2>1. CASE p = q
      BY <1>1, <1>3, <2>1
    <2>2. CASE p # q
      BY <1>3, <2>2 DEF AsksWhole, IssuePageInv
    <2> QED
      BY <2>1, <2>2
  <1>7. AnswersOrdered'
    <2>1. \A p \in Requests : ask'[p].after \subseteq OnTheirWay' \ {p}
      BY <1>1, <1>3, <1>4 DEF AnswersOrdered, IssuePageInv
    <2>2. \A p, r \in OnTheirWay' : p # r => (p \in ask'[r].after <=> r \notin ask'[p].after)
      BY <1>4 DEF AnswersOrdered, IssuePageInv
    <2> QED
      BY <2>1, <2>2 DEF AnswersOrdered
  <1>8. "state" \in held <=> \E p \in Asked : ask[p].what = "state"
    BY DEF IssuePageInv, IssuePageTypeOK
  <1>9. OneStateButton'
    BY <1>1, <1>3, <1>5, <1>8 DEF OneStateButton, IssuePageInv, Asked
  <1>10. (\E p \in Asked' : ask'[p].what = "state") <=> (what = "state" \/ \E p \in Asked : ask[p].what = "state")
    BY <1>1, <1>3, <1>5 DEF Asked
  <1> QED
    BY <1>1, <1>3, <1>4, <1>5, <1>6, <1>7, <1>9, <1>10

\* An answer comes, or none.
LEMMA ComesOne ==
  ASSUME IssuePageInv, NEW q \in Requests, ask[q].pc # "idle", ask' = Come(ask, q, Unasked), held' = held \ {ask[q].what}
  PROVE  /\ ask' \in [Requests -> AskRecords] /\ AsksWhole' /\ OneStateButton' /\ AnswersOrdered'
         /\ held' \subseteq {"state"} /\ ("state" \in held' <=> \E p \in Asked' : ask'[p].what = "state")
  <1>1. /\ ask' \in [Requests -> AskRecords] /\ ask'[q] = Unasked
        /\ \A p \in Requests \ {q} :
              /\ ask'[p].pc = ask[p].pc /\ ask'[p].what = ask[p].what /\ ask'[p].to = ask[p].to
              /\ ask'[p].label = ask[p].label /\ ask'[p].with = ask[p].with
              /\ ask'[p].answer = ask[p].answer /\ ask'[p].after = ask[p].after \ {q}
    BY ComeFields DEF IssuePageInv
  <1>2. Unasked.pc = "idle" /\ Unasked.after = {}
    BY DEF Unasked
  <1>3. OnTheirWay' = OnTheirWay \ {q} /\ Asked' = Asked \ {q}
    BY LeftTheWay DEF IssuePageInv
  <1>4. AsksWhole'
    <2> SUFFICES ASSUME NEW p \in Requests
                 PROVE  /\ ask'[p].pc # "idle" => ask'[p].what \in Kinds /\ ask'[p].to \in Issues
                        /\ ask'[p].pc # "idle" /\ ask'[p].what = "label" => ask'[p].with \in Copies /\ ask'[p].label \in PageLabels
                        /\ ask'[p].pc = "answered" /\ ask'[p].what \notin {"label", "comment"} => ask'[p].answer \in Copies
      BY DEF AsksWhole, Copies, IssueRows
    <2>1. CASE p = q
      BY <1>1, <1>2, <2>1
    <2>2. CASE p # q
      BY <1>1, <2>2 DEF AsksWhole, IssuePageInv
    <2> QED
      BY <2>1, <2>2
  <1>5. AnswersOrdered'
    <2>1. \A p \in Requests : ask'[p].after \subseteq OnTheirWay' \ {p}
      BY <1>1, <1>2, <1>3 DEF AnswersOrdered, IssuePageInv
    <2>2. \A p, r \in OnTheirWay' : p # r => (p \in ask'[r].after <=> r \notin ask'[p].after)
      BY <1>1, <1>3 DEF AnswersOrdered, IssuePageInv, OnTheirWay
    <2> QED
      BY <2>1, <2>2 DEF AnswersOrdered
  <1>6. OneStateButton'
    BY <1>1, <1>3 DEF OneStateButton, IssuePageInv, Asked
  <1>7. held \subseteq {"state"} /\ ("state" \in held <=> \E p \in Asked : ask[p].what = "state")
    BY DEF IssuePageInv, IssuePageTypeOK
  <1>8. "state" \in held' <=> \E p \in Asked' : ask'[p].what = "state"
    BY <1>1, <1>3, <1>7 DEF OneStateButton, IssuePageInv, Asked
  <1> QED
    BY <1>1, <1>4, <1>5, <1>6, <1>7, <1>8

\* The server answers: the new answer comes after all that are on their way.
LEMMA Serves ==
  ASSUME IssuePageInv, NEW q \in Requests, ask[q].pc = "sent", ServeIssue(q)
  PROVE  /\ ask' \in [Requests -> AskRecords] /\ AsksWhole' /\ OneStateButton' /\ AnswersOrdered'
         /\ Asked' = Asked /\ \A p \in Asked : ask'[p].what = ask[p].what
         /\ \A p \in Requests \ {q} : ask'[p] = ask[p]
         /\ ask'[q].pc = "answered" /\ ask'[q].what = ask[q].what /\ ask'[q].to = ask[q].to
         /\ ask'[q].label = ask[q].label /\ ask'[q].with = ask[q].with /\ ask'[q].after = OnTheirWay
         /\ ask[q].what \notin {"label", "comment"} =>
              ask'[q].answer = [of |-> ask[q].to, row |-> Altered(issue[ask[q].to], ask[q])]
         /\ OnTheirWay' = IF ask[q].what = "comment" THEN OnTheirWay ELSE OnTheirWay \cup {q}
         /\ Altered(issue[ask[q].to], ask[q]) \in IssueRows
  <1> PICK a, n : a = ask[q] /\ n = ask[q].to
    OBVIOUS
  <1>0. ask \in [Requests -> AskRecords] /\ a \in AskRecords /\ n \in Issues /\ a.what \in Kinds /\ issue \in [Issues -> IssueRows]
    BY RequestTyped DEF IssuePageInv, AsksWhole, IssuePageTypeOK
  <1>1. AnsweredBefore(ask, Kinds \ {"comment"}) = OnTheirWay
    BY <1>0 DEF AnsweredBefore, OnTheirWay
  <1>2. Altered(issue[n], a) \in IssueRows
    <2>1. issue[n] \in IssueRows /\ a.rest \in BOOLEAN
      BY <1>0 DEF AskRecords
    <2>2. a.what = "label" => a.label \in PageLabels
      BY DEF IssuePageInv, AsksWhole
    <2> QED
      BY <2>1, <2>2 DEF Altered, IssueRows
  <1> DEFINE answer == IF a.what \in {"label", "comment"} THEN None ELSE [of |-> n, row |-> Altered(issue[n], a)]
  <1>3. answer \in Copies \cup {None} /\ (a.what \notin {"label", "comment"} => answer \in Copies)
    BY <1>0, <1>2 DEF Copies
  <1> PICK w : w = answer
    OBVIOUS
  <1>4. ask' = [ask EXCEPT ![q].pc = "answered", ![q].answer = w, ![q].after = OnTheirWay]
    BY <1>1 DEF ServeIssue
  <1>5. PICK b \in AskRecords :
          /\ b.pc = "answered" /\ b.answer = w /\ b.after = OnTheirWay
          /\ b.what = a.what /\ b.to = a.to /\ b.label = a.label /\ b.with = a.with
          /\ b = [a EXCEPT !.pc = "answered", !.answer = w, !.after = OnTheirWay]
    BY <1>0, <1>3 DEF AskRecords, OnTheirWay
  <1>6. ask' = [ask EXCEPT ![q] = b]
    BY <1>0, <1>4, <1>5
  <1>7. ask' \in [Requests -> AskRecords] /\ ask'[q] = b /\ \A p \in Requests \ {q} : ask'[p] = ask[p]
    BY <1>0, <1>5, <1>6
  <1>14. \A p \in Requests : ask'[p].what = ask[p].what /\ (p # q => ask'[p].pc = ask[p].pc)
    BY <1>5, <1>7
  <1>8. OnTheirWay' = IF a.what = "comment" THEN OnTheirWay ELSE OnTheirWay \cup {q}
    <2>1. ask'[q].pc = "answered" /\ ask[q].pc = "sent" /\ ask[q].what = a.what /\ a.what \in Kinds
      BY <1>0, <1>5, <1>7
    <2> QED
      BY <1>14, <2>1 DEF OnTheirWay
  <1>9. Asked' = Asked /\ \A p \in Asked : ask'[p].what = ask[p].what
    <2>1. ask'[q].pc # "idle" /\ ask[q].pc # "idle"
      BY <1>5, <1>7
    <2> QED
      BY <1>14, <2>1 DEF Asked
  <1>10. AsksWhole'
    <2> SUFFICES ASSUME NEW p \in Requests
                 PROVE  /\ ask'[p].pc # "idle" => ask'[p].what \in Kinds /\ ask'[p].to \in Issues
                        /\ ask'[p].pc # "idle" /\ ask'[p].what = "label" => ask'[p].with \in Copies /\ ask'[p].label \in PageLabels
                        /\ ask'[p].pc = "answered" /\ ask'[p].what \notin {"label", "comment"} => ask'[p].answer \in Copies
      BY DEF AsksWhole, Copies, IssueRows
    <2>1. CASE p = q
      <3>1. ask'[p] = b /\ b.what = ask[q].what /\ b.to = ask[q].to /\ b.with = ask[q].with /\ b.label = ask[q].label
        BY <1>5, <1>7, <2>1
      <3>2. ask[q].pc = "sent" /\ b.answer = w /\ (ask[q].what \notin {"label", "comment"} => w \in Copies)
        BY <1>3, <1>5
      <3> QED
        BY <3>1, <3>2 DEF AsksWhole, IssuePageInv
    <2>2. CASE p # q
      BY <1>7, <2>2 DEF AsksWhole, IssuePageInv
    <2> QED
      BY <2>1, <2>2
  <1>11. AnswersOrdered'
    <2>0. q \notin OnTheirWay
      BY DEF OnTheirWay
    <2>1. \A p \in Requests : ask'[p].after \subseteq OnTheirWay' \ {p}
      <3>1. OnTheirWay \subseteq OnTheirWay' /\ ask'[q].after = OnTheirWay
        BY <1>5, <1>7, <1>8
      <3>2. \A p \in Requests \ {q} : ask'[p].after \subseteq OnTheirWay \ {p}
        BY <1>7 DEF AnswersOrdered, IssuePageInv
      <3> QED
        BY <2>0, <3>1, <3>2
    <2>2. \A p, r \in OnTheirWay' : p # r => (p \in ask'[r].after <=> r \notin ask'[p].after)
      <3> SUFFICES ASSUME NEW p \in OnTheirWay', NEW r \in OnTheirWay', p # r
                   PROVE  p \in ask'[r].after <=> r \notin ask'[p].after
        OBVIOUS
      <3>0. p \in Requests /\ r \in Requests
        BY DEF OnTheirWay
      <3>1. CASE p = q
        BY <1>5, <1>7, <1>8, <2>0, <3>0, <3>1 DEF AnswersOrdered, IssuePageInv
      <3>2. CASE r = q
        BY <1>5, <1>7, <1>8, <2>0, <3>0, <3>2 DEF AnswersOrdered, IssuePageInv
      <3>3. CASE p # q /\ r # q
        BY <1>7, <1>8, <3>0, <3>3 DEF AnswersOrdered, IssuePageInv
      <3> QED
        BY <3>1, <3>2, <3>3
    <2> QED
      BY <2>1, <2>2 DEF AnswersOrdered
  <1>12. OneStateButton'
    BY <1>5, <1>7, <1>9 DEF OneStateButton, IssuePageInv, Asked
  <1>13. a.what \notin {"label", "comment"} => w = [of |-> n, row |-> Altered(issue[n], a)]
    OBVIOUS
  <1> QED
    BY <1>2, <1>5, <1>7, <1>8, <1>9, <1>10, <1>11, <1>12, <1>13

\* Only what is asked for changes: the copy will be right as it would have been.
LEMMA AskingKeepsRight ==
  ASSUME CopyWillBeRight, OnTheirWay' = OnTheirWay, \A p \in OnTheirWay : ask'[p] = ask[p],
         UNCHANGED <<issue, shownOf, copy, failed, behind, crossed>>,
         \A n : ToBeRead(n) => ToBeRead(n)', \A n : n = shownOf /\ Unopened => ToBeRead(n)'
  PROVE  CopyWillBeRight'
  <1> SUFFICES ASSUME NEW n \in Issues, n = shownOf PROVE RightFor(n)'
    BY DEF CopyWillBeRight
  <1>0. RightFor(n)
    BY DEF CopyWillBeRight
  <1>1. For(n)' = For(n) /\ \A p \in For(n) : ask'[p] = ask[p]
    BY DEF For
  <1>2. (SomeLate(n) => SomeLate(n)') /\ (Misplaced(n) => Misplaced(n)') /\ \A v : Leaves(For(n), v) => Leaves(For(n), v)'
    BY <1>1, WayIsKept
  <1>3. Leaves(For(n), Copy(n)) => Leaves(For(n), Copy(n))'
    <2> PICK v : v = Copy(n)
      OBVIOUS
    <2>1. Copy(n)' = v
      BY DEF Copy
    <2> QED
      BY <1>2, <2>1 DEF Leaves
  <1> QED
    BY <1>0, <1>2, <1>3 DEF RightFor

\* What S leaves is one thing.
LEMMA LeavesOne ==
  ASSUME AnswersOrdered, NEW S, S \subseteq OnTheirWay, NEW v, NEW w, Leaves(S, v), Leaves(S, w)
  PROVE  v = w
  BY DEF Leaves, LastAnswer, AnswersOrdered, OnTheirWay

\* An answer has come: what the others leave, unless there is none.
LEMMA OtherAnswersStay ==
  ASSUME IssuePageInv, NEW q \in Requests, ask' = Come(ask, q, Unasked), NEW S, S \subseteq OnTheirWay \ {q}
  PROVE  /\ \A p \in S : /\ Value(p)' = Value(p) /\ ask'[p].what = ask[p].what /\ ask'[p].to = ask[p].to
                         /\ ask'[p].with = ask[p].with /\ ask'[p].after = ask[p].after \ {q}
                         /\ (ask[p].late \/ p \in ask[q].after => ask'[p].late)
         /\ \A p \in S : LastAnswer(p, S)' <=> LastAnswer(p, S)
         /\ S # {} => \A v : Leaves(S, v)' <=> Leaves(S, v)
  <1>0. S \subseteq Requests \ {q}
    BY DEF OnTheirWay
  <1>1. \A p \in S : /\ ask'[p].what = ask[p].what /\ ask'[p].to = ask[p].to /\ ask'[p].label = ask[p].label
                     /\ ask'[p].with = ask[p].with /\ ask'[p].answer = ask[p].answer /\ ask'[p].after = ask[p].after \ {q}
                     /\ ask'[p].late = (ask[p].late \/ p \in ask[q].after)
    BY <1>0, ComeFields DEF IssuePageInv
  <1>2. ASSUME NEW p \in S PROVE Value(p)' = Value(p)
    BY <1>1 DEF Value, Relabelled
  <1>3. ASSUME NEW p \in S PROVE LastAnswer(p, S)' <=> LastAnswer(p, S)
    BY <1>1 DEF LastAnswer
  <1>4. S # {} => \A v : Leaves(S, v)' <=> Leaves(S, v)
    BY <1>2, <1>3 DEF Leaves
  <1> QED
    BY <1>1, <1>2, <1>3, <1>4

\* An answer of another issue, or none: nothing is lost of those of n but what no whole issue follows.
LEMMA ForeignKeepsRight ==
  ASSUME IssuePageInv, NEW q \in Requests, ask' = Come(ask, q, Unasked), NEW n, q \notin For(n),
         copy' = copy \/ \E p \in For(n) : ask[p].what # "label"
  PROVE  /\ SomeLate(n) => SomeLate(n)'
         /\ Misplaced(n) => Misplaced(n)'
         /\ \A v : Leaves(For(n), v) => Leaves(For(n), v)'
  <1> PICK F : F = For(n)
    OBVIOUS
  <1>1. For(n)' = F /\ F \subseteq OnTheirWay \ {q}
    BY LeftTheWay DEF IssuePageInv, For
  <1>2. \A p \in F : /\ Value(p)' = Value(p) /\ ask'[p].what = ask[p].what /\ ask'[p].to = ask[p].to
                     /\ ask'[p].with = ask[p].with /\ ask'[p].after = ask[p].after \ {q}
                     /\ (ask[p].late \/ p \in ask[q].after => ask'[p].late)
    BY <1>1, OtherAnswersStay
  <1>3. SomeLate(n) => SomeLate(n)'
    BY <1>1, <1>2 DEF SomeLate
  <1>4. ASSUME NEW v, Leaves(For(n), v) PROVE Leaves(For(n), v)'
    <2>1. CASE F # {}
      <3>1. Leaves(F, v)' <=> Leaves(F, v)
        BY <1>1, <2>1, OtherAnswersStay
      <3> QED
        BY <1>1, <1>4, <3>1 DEF Leaves
    <2>2. CASE F = {}
      BY <1>1, <1>4, <2>2 DEF Leaves
    <2> QED
      BY <2>1, <2>2
  <1>5. Misplaced(n) => Misplaced(n)'
    <2> SUFFICES ASSUME NEW x \in For(n), ask[x].what = "label", ~Leaves(Preceding(x), ask[x].with), NoneWholeAfter(x, n)
                 PROVE  Misplaced(n)'
      BY DEF Misplaced
    <2>1. x \in For(n)' /\ ask'[x].what = "label" /\ ask[x].to = n /\ ask'[x].to = n
          /\ ask'[x].with = ask[x].with /\ ask'[x].after = ask[x].after \ {q}
      BY <1>1, <1>2 DEF For
    <2> PICK S, v : S = Preceding(x) /\ v = ask[x].with
      OBVIOUS
    <2>2. Preceding(x)' = S /\ S \subseteq OnTheirWay \ {q}
      BY <1>1, <2>1 DEF Preceding
    <2>3. NoneWholeAfter(x, n)'
      BY <1>1, <1>2, <2>1 DEF NoneWholeAfter
    <2>4. ~Leaves(S, v)'
      <3>1. CASE S # {}
        <4>1. Leaves(S, v)' <=> Leaves(S, v)
          BY <2>2, <3>1, OtherAnswersStay
        <4> QED
          BY <4>1
      <3>2. CASE S = {} /\ copy' = copy
        BY <3>2 DEF Leaves
      <3>3. CASE S = {} /\ \E p \in For(n) : ask[p].what # "label"
        BY <3>3, <2>1 DEF NoneWholeAfter, Preceding
      <3> QED
        BY <3>1, <3>2, <3>3
    <2>5. ~Leaves(Preceding(x), ask[x].with)'
      BY <2>1, <2>2, <2>4 DEF Leaves
    <2> QED
      BY <2>1, <2>3, <2>5 DEF Misplaced
  <1> QED
    BY <1>3, <1>4, <1>5

\* An answer of n is taken that was not overtaken.
LEMMA OwnKeepsRight ==
  ASSUME IssuePageInv, NEW q \in Requests, ask' = Come(ask, q, Unasked), NEW n, q \in For(n),
         ~ask[q].late, ask[q].what = "label" => ask[q].with = copy, copy' = Value(q)
  PROVE  /\ SomeLate(n) => SomeLate(n)'
         /\ Misplaced(n) => SomeLate(n)' \/ Misplaced(n)'
         /\ \A v : Leaves(For(n), v) => SomeLate(n)' \/ Leaves(For(n), v)'
  <1> PICK F : F = For(n) \ {q}
    OBVIOUS
  <1>1. For(n)' = F /\ F \subseteq OnTheirWay \ {q} /\ q \in OnTheirWay
    BY LeftTheWay DEF IssuePageInv, For
  <1>2. \A p \in F : /\ Value(p)' = Value(p) /\ ask'[p].what = ask[p].what /\ ask'[p].to = ask[p].to
                     /\ ask'[p].with = ask[p].with /\ ask'[p].after = ask[p].after \ {q}
                     /\ (ask[p].late \/ p \in ask[q].after => ask'[p].late)
    BY <1>1, OtherAnswersStay
  <1>3. SomeLate(n) => SomeLate(n)'
    BY <1>1, <1>2 DEF SomeLate
  <1>4. CASE \E p \in F : p \in ask[q].after
    BY <1>1, <1>2, <1>3, <1>4 DEF SomeLate
  <1>5. CASE \A p \in F : p \notin ask[q].after
    <2>1. \A p \in F : q \in ask[p].after
      BY <1>1, <1>5 DEF IssuePageInv, AnswersOrdered
    <2>2. ASSUME NEW v, Leaves(For(n), v) PROVE Leaves(For(n), v)'
      <3> PICK x \in For(n) : LastAnswer(x, For(n)) /\ v = Value(x)
        BY <2>2 DEF Leaves
      <3>1. CASE x = q
        BY <1>1, <1>5, <3>1 DEF LastAnswer, Leaves
      <3>2. CASE x # q
        <4>1. x \in F /\ LastAnswer(x, F)
          BY <3>2 DEF LastAnswer
        <4>2. LastAnswer(x, F)'
          BY <1>1, <4>1, OtherAnswersStay
        <4> QED
          BY <1>1, <1>2, <4>1, <4>2 DEF Leaves, LastAnswer
      <3> QED
        BY <3>1, <3>2
    <2>3. Misplaced(n) => Misplaced(n)'
      <3> SUFFICES ASSUME NEW x \in For(n), ask[x].what = "label", ~Leaves(Preceding(x), ask[x].with), NoneWholeAfter(x, n)
                   PROVE  Misplaced(n)'
        BY DEF Misplaced
      <3>1. x # q
        <4> SUFFICES ASSUME x = q PROVE FALSE
          OBVIOUS
        <4>1. q \notin ask[q].after /\ ask[q].to = n
          BY <1>1 DEF IssuePageInv, AnswersOrdered, For, OnTheirWay
        <4>2. Preceding(q) = {}
          BY <1>5, <4>1 DEF Preceding
        <4> QED
          BY <4>2 DEF Leaves
      <3>2. x \in F /\ x \in For(n)' /\ ask'[x].what = "label" /\ ask[x].to = n /\ ask'[x].to = n
            /\ ask'[x].with = ask[x].with /\ ask'[x].after = ask[x].after \ {q}
        BY <1>1, <1>2, <3>1 DEF For
      <3> PICK S, v : S = Preceding(x) \ {q} /\ v = ask[x].with
        OBVIOUS
      <3>3. Preceding(x)' = S /\ S \subseteq F
        BY <1>1, <3>2 DEF Preceding
      <3>4. NoneWholeAfter(x, n)'
        BY <1>1, <1>2, <3>2 DEF NoneWholeAfter
      <3>5. Preceding(x) = S \cup {q} /\ q \notin S
        BY <2>1, <3>2 DEF Preceding
      <3>6. ~Leaves(S, v)'
        <4> SUFFICES ASSUME Leaves(S, v)' PROVE Leaves(Preceding(x), v)
          OBVIOUS
        <4>1. CASE S = {}
          <5>1. v = Value(q)
            BY <4>1 DEF Leaves
          <5>2. LastAnswer(q, Preceding(x)) /\ q \in Preceding(x)
            BY <3>5, <4>1 DEF LastAnswer
          <5> QED
            BY <5>1, <5>2 DEF Leaves
        <4>2. CASE S # {}
          <5>1. Leaves(S, v)
            BY <1>1, <3>3, <4>2, OtherAnswersStay
          <5> PICK p \in S : LastAnswer(p, S) /\ v = Value(p)
            BY <5>1, <4>2 DEF Leaves
          <5>2. LastAnswer(p, Preceding(x))
            BY <2>1, <3>3, <3>5 DEF LastAnswer
          <5> QED
            BY <3>5, <5>2 DEF Leaves
        <4> QED
          BY <4>1, <4>2
      <3>7. ~Leaves(Preceding(x), ask[x].with)'
        BY <3>2, <3>3, <3>6 DEF Leaves
      <3> QED
        BY <3>2, <3>4, <3>7 DEF Misplaced
    <2> QED
      BY <1>3, <2>2, <2>3
  <1> QED
    BY <1>4, <1>5

\* A label put on the issue is put on a copy that was right.
LEMMA RelabelledCopy ==
  ASSUME NEW a, NEW n, NEW r \in IssueRows, a.what = "label", a.with = [of |-> n, row |-> r]
  PROVE  Relabelled(a) = [of |-> n, row |-> Altered(r, a)]
  <1>1. Altered(r, a) = [r EXCEPT !.labels = IF a.label \in r.labels THEN @ \ {a.label} ELSE @ \cup {a.label}]
    BY DEF Altered
  <1>2. Relabelled(a) = [of |-> n, row |-> [r EXCEPT !.labels = IF a.label \in r.labels THEN @ \ {a.label} ELSE @ \cup {a.label}]]
    BY DEF Relabelled, IssueRows
  <1> QED
    BY <1>1, <1>2

\* The server gives the last answer there is: the issue as it is then, or a label on a right copy.
LEMMA ServingKeepsRight ==
  ASSUME IssuePageInv, NEW q \in Requests, ServeIssue(q)
  PROVE  CopyWillBeRight'
  <1> SUFFICES ASSUME NEW n \in Issues, n = shownOf PROVE RightFor(n)'
    BY DEF CopyWillBeRight, ServeIssue
  <1>0. ask[q].pc = "sent" /\ UNCHANGED <<shownOf, copy, loading, failed, crossed>>
    BY DEF ServeIssue
  <1> PICK m, what : m = ask[q].to /\ what = ask[q].what
    OBVIOUS
  <1>1. m \in Issues /\ what \in Kinds /\ issue \in [Issues -> IssueRows] /\ AnswersOrdered /\ RightFor(n)
    BY <1>0 DEF IssuePageInv, AsksWhole, IssuePageTypeOK, CopyWillBeRight
  <1>2. /\ AnswersOrdered'
        /\ \A p \in Requests \ {q} : ask'[p] = ask[p]
        /\ ask'[q].pc = "answered" /\ ask'[q].what = what /\ ask'[q].to = m
        /\ ask'[q].label = ask[q].label /\ ask'[q].with = ask[q].with /\ ask'[q].after = OnTheirWay
        /\ what \notin {"label", "comment"} => ask'[q].answer = [of |-> m, row |-> Altered(issue[m], ask[q])]
        /\ OnTheirWay' = IF what = "comment" THEN OnTheirWay ELSE OnTheirWay \cup {q}
    BY <1>0, Serves
  <1>3. q \notin OnTheirWay /\ For(n) \subseteq OnTheirWay /\ OnTheirWay \subseteq Requests /\ q \notin For(n)
    BY <1>0 DEF OnTheirWay, For
  <1>4. issue' = [issue EXCEPT ![m] = Altered(issue[m], ask[q])]
    BY DEF ServeIssue
  <1>5. ~Unopened
    BY <1>0 DEF Unopened, Asked
  <1>6. behind' = IF what \in {"load", "refresh"} THEN behind \ {m} ELSE behind
    BY DEF ServeIssue
  <1>7. CASE m # n
    <2>1. For(n)' = For(n) /\ \A p \in For(n) : ask'[p] = ask[p]
      BY <1>2, <1>3, <1>7 DEF For
    <2>2. (SomeLate(n) => SomeLate(n)') /\ (Misplaced(n) => Misplaced(n)') /\ \A v : Leaves(For(n), v) => Leaves(For(n), v)'
      BY <1>0, <2>1, WayIsKept
    <2>3. issue'[n] = issue[n]
      BY <1>1, <1>4, <1>7
    <2>4. Leaves(For(n), Copy(n)) => Leaves(For(n), Copy(n))'
      <3> PICK v : v = Copy(n)
        OBVIOUS
      <3>1. Copy(n)' = v
        BY <2>3 DEF Copy
      <3> QED
        BY <2>2, <3>1 DEF Leaves
    <2>5. ToBeRead(n) => ToBeRead(n)'
      BY <1>2, <1>7 DEF ToBeRead
    <2>6. n \notin behind' => n \notin behind
      BY <1>6, <1>7
    <2> QED
      BY <1>0, <1>1, <1>5, <2>2, <2>4, <2>5, <2>6 DEF RightFor
  <1>8. CASE m = n /\ what = "comment"
    <2>1. ToBeRead(n)'
      BY <1>2, <1>8 DEF ToBeRead
    <2> QED
      BY <2>1 DEF RightFor
  <1>9. CASE m = n /\ what # "comment"
    <2>0. For(n)' = For(n) \cup {q} /\ LastAnswer(q, For(n))'
      <3>1. For(n)' = For(n) \cup {q}
        BY <1>2, <1>3, <1>9 DEF For
      <3> QED
        BY <1>2, <1>3, <3>1 DEF LastAnswer
    <2>1. Copy(n)' = [of |-> n, row |-> Altered(issue[n], ask[q])]
      BY <1>1, <1>4, <1>9 DEF Copy
    <2>2. CASE what # "label"
      <3>1. Value(q)' = Copy(n)'
        BY <1>2, <1>9, <2>1, <2>2 DEF Value
      <3>2. Leaves(For(n), Copy(n))'
        BY <2>0, <3>1 DEF Leaves
      <3> QED
        BY <3>2 DEF RightFor
    <2>3. CASE what = "label"
      <3>1. ToBeRead(n) => ToBeRead(n)'
        BY <1>0, <1>2, <2>3 DEF ToBeRead
      <3>2. SomeLate(n) => SomeLate(n)'
        BY <1>2, <1>3, <2>0 DEF SomeLate
      <3> PICK F, with : F = For(n) /\ with = ask[q].with
        OBVIOUS
      <3>3. \A p \in F : ask'[p] = ask[p] /\ Value(p)' = Value(p)
        <4> SUFFICES ASSUME NEW p \in F PROVE ask'[p] = ask[p] /\ Value(p)' = Value(p)
          OBVIOUS
        <4>1. ask'[p] = ask[p]
          BY <1>2, <1>3
        <4> QED
          BY <4>1 DEF Value, Relabelled
      <3>4. ASSUME NEW S, S \subseteq F, NEW v PROVE Leaves(S, v)' <=> Leaves(S, v)
        <4>1. ASSUME NEW p \in S PROVE LastAnswer(p, S)' <=> LastAnswer(p, S)
          BY <3>3, <3>4 DEF LastAnswer
        <4> QED
          BY <1>0, <3>3, <3>4, <4>1 DEF Leaves
      <3>5. Misplaced(n) => Misplaced(n)'
        <4> SUFFICES ASSUME NEW x \in For(n), ask[x].what = "label", ~Leaves(Preceding(x), ask[x].with), NoneWholeAfter(x, n)
                     PROVE  Misplaced(n)'
          BY DEF Misplaced
        <4>1. ask'[x] = ask[x] /\ ask[x].to = n /\ x \in For(n)' /\ q \notin ask[x].after
          BY <1>3, <2>0, <3>3, <1>1 DEF For, AnswersOrdered
        <4>2. Preceding(x)' = Preceding(x) /\ Preceding(x) \subseteq F
          BY <2>0, <4>1 DEF Preceding
        <4>3. NoneWholeAfter(x, n)'
          BY <1>2, <2>0, <2>3, <3>3, <4>1 DEF NoneWholeAfter
        <4> PICK S, v : S = Preceding(x) /\ v = ask[x].with
          OBVIOUS
        <4>4. ~Leaves(S, v)'
          BY <3>4, <4>2
        <4>5. ~Leaves(Preceding(x), ask[x].with)'
          BY <4>1, <4>2, <4>4 DEF Leaves
        <4> QED
          BY <4>1, <4>3, <4>5 DEF Misplaced
      <3>6. Leaves(For(n), Copy(n)) => Misplaced(n)' \/ Leaves(For(n), Copy(n))'
        <4> SUFFICES ASSUME Leaves(For(n), Copy(n)) PROVE Misplaced(n)' \/ Leaves(For(n), Copy(n))'
          OBVIOUS
        <4>1. CASE Leaves(F, with)
          <5>1. with = Copy(n)
            BY <1>1, <1>3, <4>1, LeavesOne
          <5>2. Relabelled(ask[q]) = [of |-> n, row |-> Altered(issue[n], ask[q])]
            BY <1>1, <2>3, <5>1, RelabelledCopy DEF Copy
          <5>3. Value(q)' = Relabelled(ask[q])
            BY <1>2, <2>3 DEF Value, Relabelled
          <5> QED
            BY <2>0, <2>1, <5>2, <5>3 DEF Leaves
        <4>2. CASE ~Leaves(F, with)
          <5>1. ~Leaves(F, with)'
            BY <3>4, <4>2
          <5>2. Preceding(q)' = F
            BY <1>2, <1>3, <1>9, <2>0 DEF Preceding
          <5>3. ~Leaves(Preceding(q), ask[q].with)'
            BY <1>2, <5>1, <5>2 DEF Leaves
          <5>4. NoneWholeAfter(q, n)'
            BY <1>2, <1>3, <2>0, <2>3 DEF NoneWholeAfter
          <5> QED
            BY <1>2, <2>0, <2>3, <5>3, <5>4 DEF Misplaced
        <4> QED
          BY <4>1, <4>2
      <3>7. n \notin behind' => n \notin behind
        BY <1>6, <2>3
      <3> QED
        BY <1>0, <1>1, <1>5, <3>1, <3>2, <3>5, <3>6, <3>7 DEF RightFor
    <2> QED
      BY <2>2, <2>3
  <1> QED
    BY <1>7, <1>8, <1>9

\* The page takes an answer, or gets none.
LEMMA TakingKeepsRight ==
  ASSUME IssuePageInv, NEW q \in Requests, Deliver(q) \/ Fails(q)
  PROVE  CopyWillBeRight'
  <1> SUFFICES ASSUME NEW n \in Issues, n = shownOf PROVE RightFor(n)'
    BY DEF CopyWillBeRight, Deliver, Fails
  <1> SUFFICES ASSUME ~crossed', ~failed', n \notin behind'
               PROVE  ToBeRead(n)' \/ SomeLate(n)' \/ Misplaced(n)' \/ Leaves(For(n), Copy(n))'
    BY DEF RightFor
  <1>1. ask' = Come(ask, q, Unasked) /\ ask[q].pc # "idle" /\ issue' = issue /\ RightFor(n)
        /\ crossed \in BOOLEAN /\ failed \in BOOLEAN
    BY DEF Deliver, Fails, IssuePageInv, CopyWillBeRight, IssuePageTypeOK
  <1>2. ~Unopened
    BY <1>1 DEF Unopened, Asked
  <1>3. \A p \in Requests \ {q} : ask'[p].pc = ask[p].pc /\ ask'[p].what = ask[p].what /\ ask'[p].to = ask[p].to
    BY <1>1, ComeFields DEF IssuePageInv
  <1>4. \A v : Copy(n) = v => Copy(n)' = v
    BY <1>1 DEF Copy
  <1>5. CASE Fails(q)
    <2>1. ~crossed /\ ~failed /\ n \notin behind
      BY <1>1, <1>5 DEF Fails
    <2>2. q \notin For(n) /\ copy' = copy
      BY <1>5 DEF Fails, For, OnTheirWay
    <2>3. (SomeLate(n) => SomeLate(n)') /\ (Misplaced(n) => Misplaced(n)') /\ \A v : Leaves(For(n), v) => Leaves(For(n), v)'
      BY <1>1, <2>2, ForeignKeepsRight
    <2>4. ToBeRead(n) => ToBeRead(n)'
      <3> SUFFICES ASSUME NEW r \in Requests, ask[r].to = n,
                          \/ ask[r].pc = "sent" /\ ask[r].what \in {"load", "refresh"}
                          \/ ask[r].pc = "answered" /\ ask[r].what = "comment"
                   PROVE  ToBeRead(n)'
        BY DEF ToBeRead
      <3>1. r # q
        BY <1>5 DEF Fails
      <3> QED
        BY <1>3, <3>1 DEF ToBeRead
    <2>5. Leaves(For(n), Copy(n)) => Leaves(For(n), Copy(n))'
      BY <1>4, <2>3 DEF Leaves
    <2> QED
      BY <1>1, <1>2, <2>1, <2>3, <2>4, <2>5 DEF RightFor
  <1>6. CASE Deliver(q)
    <2>1. ~crossed /\ ~failed /\ n \notin behind /\ ~Misleads(q) /\ copy' = Value(q)
      BY <1>1, <1>6 DEF Deliver, Value
    <2>2. q \in OnTheirWay
      BY <1>6 DEF Deliver, OnTheirWay, IssuePageInv, AsksWhole
    <2>3. ToBeRead(n) => ToBeRead(n)'
      BY <1>3, <2>2 DEF ToBeRead, OnTheirWay
    <2>4. CASE ask[q].to = n
      <3>1. q \in For(n) /\ ~ask[q].late /\ (ask[q].what = "label" => ask[q].with = copy)
        BY <2>1, <2>2, <2>4 DEF For, Misleads
      <3>2. /\ SomeLate(n) => SomeLate(n)'
            /\ Misplaced(n) => SomeLate(n)' \/ Misplaced(n)'
            /\ \A v : Leaves(For(n), v) => SomeLate(n)' \/ Leaves(For(n), v)'
        BY <1>1, <2>1, <3>1, OwnKeepsRight
      <3>3. Leaves(For(n), Copy(n)) => SomeLate(n)' \/ Leaves(For(n), Copy(n))'
        BY <1>4, <3>2 DEF Leaves
      <3> QED
        BY <1>1, <1>2, <2>1, <2>3, <3>2, <3>3 DEF RightFor
    <2>5. CASE ask[q].to # n
      <3>1. PICK p \in Asked : ask[p].what = "load" /\ ask[p].to = n
        BY <2>1, <2>5 DEF Misleads
      <3>2. p \in Requests /\ p # q /\ ask[p].pc \in {"sent", "answered"}
        BY <2>5, <3>1, RequestTyped DEF Asked, AskRecords, IssuePageInv
      <3>3. CASE ask[p].pc = "sent"
        BY <1>3, <3>1, <3>2, <3>3 DEF ToBeRead
      <3>4. CASE ask[p].pc = "answered"
        <4>1. p \in For(n) /\ ask[p].what # "label" /\ q \notin For(n)
          BY <2>5, <3>1, <3>2, <3>4 DEF For, OnTheirWay, Kinds
        <4>2. (SomeLate(n) => SomeLate(n)') /\ (Misplaced(n) => Misplaced(n)') /\ \A v : Leaves(For(n), v) => Leaves(For(n), v)'
          BY <1>1, <4>1, ForeignKeepsRight
        <4>3. Leaves(For(n), Copy(n)) => Leaves(For(n), Copy(n))'
          BY <1>4, <4>2 DEF Leaves
        <4> QED
          BY <1>1, <1>2, <2>1, <2>3, <4>2, <4>3 DEF RightFor
      <3> QED
        BY <3>2, <3>3, <3>4
    <2> QED
      BY <2>4, <2>5
  <1> QED
    BY <1>5, <1>6

\* A request is sent by an action that changes nothing of what the copy depends on.
LEMMA AskingStep ==
  ASSUME IssuePageInv, NEW q \in Requests, q \notin OnTheirWay, ask[q].pc # "sent", ask[q].pc = "idle" \/ ask[q].what # "state",
         NEW what \in Kinds, NEW n \in Issues, NEW l \in PageLabels \cup {None},
         what = "label" => copy \in Copies /\ l \in PageLabels, what = "state" => "state" \notin held,
         ask' = [ask EXCEPT ![q] = Sent(what, n, l)],
         UNCHANGED <<issue, shownOf, copy, loading, failed, edits, behind, crossed>>,
         held' = (IF what = "state" THEN held \cup {"state"} ELSE held),
         loading /\ Asked = {} => what = "load" /\ n = shownOf,
         ask[q].pc = "answered" => what = "refresh" /\ n = ask[q].to
  PROVE  IssuePageInv'
  <1>1. /\ ask' \in [Requests -> AskRecords] /\ AsksWhole' /\ OneStateButton' /\ AnswersOrdered'
        /\ OnTheirWay' = OnTheirWay /\ \A p \in OnTheirWay : ask'[p] = ask[p]
        /\ ask'[q].pc = "sent" /\ ask'[q].what = what /\ ask'[q].to = n
        /\ \A p \in Requests \ {q} : ask'[p] = ask[p]
        /\ (\E p \in Asked' : ask'[p].what = "state") <=> (what = "state" \/ \E p \in Asked : ask[p].what = "state")
    <2>1. ask' \in [Requests -> AskRecords] /\ AsksWhole' /\ OneStateButton' /\ AnswersOrdered'
      BY AsksOne
    <2>2. OnTheirWay' = OnTheirWay /\ \A p \in OnTheirWay : ask'[p] = ask[p]
      BY AsksOne
    <2>3. ask'[q].pc = "sent" /\ ask'[q].what = what /\ ask'[q].to = n
      <3> PICK a : a = Sent(what, n, l)
        OBVIOUS
      <3>1. a.pc = "sent" /\ a.what = what /\ a.to = n
        BY SentFields
      <3>2. ask'[q] = a
        BY RequestTyped DEF IssuePageInv
      <3> QED
        BY <3>1, <3>2
    <2>4. \A p \in Requests \ {q} : ask'[p] = ask[p]
      BY AsksOne
    <2>5. (\E p \in Asked' : ask'[p].what = "state") <=> (what = "state" \/ \E p \in Asked : ask[p].what = "state")
      BY AsksOne
    <2> QED
      BY <2>1, <2>2, <2>3, <2>4, <2>5
  <1>2. IssuePageTypeOK
    BY DEF IssuePageInv
  <1>3. IssuePageTypeOK'
    <2>1. held' \subseteq {"state"} /\ ("state" \in held' <=> \E p \in Asked' : ask'[p].what = "state")
      BY <1>1, <1>2 DEF IssuePageTypeOK
    <2> QED
      BY <1>1, <1>2, <2>1 DEF IssuePageTypeOK, AskRecords, IssueRows, Copies
  <1>4. \A m : ToBeRead(m) => ToBeRead(m)'
    <2> SUFFICES ASSUME NEW m, NEW r \in Requests, ask[r].to = m,
                        \/ ask[r].pc = "sent" /\ ask[r].what \in {"load", "refresh"}
                        \/ ask[r].pc = "answered" /\ ask[r].what = "comment"
                 PROVE  ToBeRead(m)'
      BY DEF ToBeRead
    <2>1. CASE r = q
      BY <1>1, <2>1 DEF ToBeRead
    <2>2. CASE r # q
      BY <1>1, <2>2 DEF ToBeRead
    <2> QED
      BY <2>1, <2>2
  <1>5. \A m : m = shownOf /\ Unopened => ToBeRead(m)'
    BY <1>1 DEF ToBeRead, Unopened
  <1>6. CopyWillBeRight'
    <2>1. CopyWillBeRight
      BY DEF IssuePageInv
    <2> QED
      BY <1>1, <1>4, <1>5, <2>1, AskingKeepsRight
  <1> QED
    BY <1>1, <1>3, <1>6 DEF IssuePageInv

LEMMA PageAsks ==
  ASSUME IssuePageInv, NEW q \in Requests,
         OpenIssue(q) \/ ToggleState(q) \/ Fix(q) \/ Comment(q) \/ DeliverComment(q) \/ \E l \in PageLabels : ToggleLabel(q, l)
  PROVE  IssuePageInv'
  <1>0. IssuePageTypeOK /\ shownOf \in Issues /\ None \in PageLabels \cup {None} /\ held \subseteq {"state"}
        /\ {"load", "refresh", "state", "fix", "label", "comment"} \subseteq Kinds
    BY DEF IssuePageInv, IssuePageTypeOK, Kinds
  <1>1. CASE OpenIssue(q)
    <2>1. q \notin OnTheirWay /\ ask[q].pc = "idle"
      BY <1>1 DEF OpenIssue, Asked, OnTheirWay
    <2>2. /\ ask' = [ask EXCEPT ![q] = Sent("load", shownOf, None)]
          /\ UNCHANGED <<issue, shownOf, copy, loading, failed, held, edits, behind, crossed>>
      BY <1>1 DEF OpenIssue
    <2> QED
      BY <1>0, <2>1, <2>2, AskingStep
  <1>2. ASSUME NEW what \in {"state", "fix", "comment", "label"}, NEW l \in PageLabels \cup {None}, AskFor(q, what, l),
               what = "label" => l \in PageLabels, what = "state" => "state" \notin held,
               held' = (IF what = "state" THEN held \cup {"state"} ELSE held)
        PROVE  IssuePageInv'
    <2>1. q \notin OnTheirWay /\ ask[q].pc = "idle" /\ ~loading /\ copy \in Copies
      BY <1>0, <1>2 DEF AskFor, OnTheirWay, IssuePageTypeOK
    <2>2. /\ ask' = [ask EXCEPT ![q] = Sent(what, shownOf, l)]
          /\ UNCHANGED <<issue, shownOf, copy, loading, failed, edits, behind, crossed>>
      BY <1>2 DEF AskFor
    <2>3. what \in Kinds
      BY <1>0
    <2> QED
      BY <1>0, <1>2, <2>1, <2>2, <2>3, AskingStep
  <1>3. CASE ToggleState(q)
    <2>1. AskFor(q, "state", None) /\ "state" \notin held /\ held' = held \cup {"state"}
      BY <1>3 DEF ToggleState
    <2> QED
      BY <1>2, <2>1
  <1>4. CASE Fix(q)
    BY <1>2, <1>4 DEF Fix
  <1>5. CASE Comment(q)
    BY <1>2, <1>5 DEF Comment
  <1>6. ASSUME NEW l \in PageLabels, ToggleLabel(q, l) PROVE IssuePageInv'
    BY <1>2, <1>6 DEF ToggleLabel
  <1>7. CASE DeliverComment(q)
    <2>1. q \notin OnTheirWay /\ ask[q].what = "comment" /\ ask[q].pc = "answered" /\ ask[q].to \in Issues /\ Asked # {}
      BY <1>7 DEF DeliverComment, OnTheirWay, IssuePageInv, AsksWhole, Asked
    <2>2. /\ ask' = [ask EXCEPT ![q] = Sent("refresh", ask[q].to, None)]
          /\ UNCHANGED <<issue, shownOf, copy, loading, failed, held, edits, behind, crossed>>
      BY <1>7 DEF DeliverComment
    <2> QED
      BY <1>0, <2>1, <2>2, AskingStep
  <1> QED
    BY <1>1, <1>3, <1>4, <1>5, <1>6, <1>7

LEMMA PageMoves ==
  ASSUME IssuePageInv, NEW q \in Requests, NEW n \in Issues, GoToIssue(q, n)
  PROVE  IssuePageInv'
  <1>0. IssuePageTypeOK /\ {"load"} \subseteq Kinds
    BY DEF IssuePageInv, Kinds
  <1>1. q \notin OnTheirWay /\ ask[q].pc = "idle"
    BY DEF GoToIssue, OnTheirWay
  <1>2. /\ ask' = [ask EXCEPT ![q] = Sent("load", n, None)]
        /\ shownOf' = n /\ loading' = TRUE /\ failed' = FALSE /\ crossed' = (crossed /\ Asked # {})
        /\ UNCHANGED <<issue, copy, held, edits, behind>>
    BY DEF GoToIssue
  <1>3. /\ ask' \in [Requests -> AskRecords] /\ AsksWhole' /\ OneStateButton' /\ AnswersOrdered'
        /\ ask'[q].pc = "sent" /\ ask'[q].what = "load" /\ ask'[q].to = n
        /\ (\E p \in Asked' : ask'[p].what = "state") <=> \E p \in Asked : ask[p].what = "state"
    <2>1. /\ "load" \in Kinds /\ "load" # "label" /\ "load" # "state" /\ None \in PageLabels \cup {None}
          /\ ask' = [ask EXCEPT ![q] = Sent("load", n, None)]
      BY <1>0, <1>2
    <2> PICK what, l : what = "load" /\ l = None
      OBVIOUS
    <2>2. /\ what \in Kinds /\ what # "label" /\ what # "state" /\ l \in PageLabels \cup {None}
          /\ ask' = [ask EXCEPT ![q] = Sent(what, n, l)]
      BY <2>1
    <2>3. ask' \in [Requests -> AskRecords] /\ AsksWhole' /\ OneStateButton' /\ AnswersOrdered'
      BY <1>1, <2>2, AsksOne
    <2>4. (\E p \in Asked' : ask'[p].what = "state") <=> (what = "state" \/ \E p \in Asked : ask[p].what = "state")
      BY <1>1, <2>2, AsksOne
    <2>5. ask'[q].pc = "sent" /\ ask'[q].what = what /\ ask'[q].to = n
      <3> PICK a : a = Sent(what, n, l)
        OBVIOUS
      <3>1. a.pc = "sent" /\ a.what = what /\ a.to = n
        BY <2>2, SentFields DEF IssuePageInv
      <3>2. ask'[q] = a
        BY <2>2, RequestTyped DEF IssuePageInv
      <3> QED
        BY <3>1, <3>2
    <2> QED
      BY <2>2, <2>3, <2>4, <2>5
  <1>4. IssuePageTypeOK'
    BY <1>0, <1>2, <1>3 DEF IssuePageTypeOK, AskRecords, IssueRows, Copies
  <1>5. CopyWillBeRight'
    <2> SUFFICES ASSUME NEW m \in Issues, m = shownOf' PROVE RightFor(m)'
      BY DEF CopyWillBeRight
    <2> QED
      BY <1>2, <1>3 DEF RightFor, ToBeRead
  <1> QED
    BY <1>3, <1>4, <1>5 DEF IssuePageInv

LEMMA PageTakes ==
  ASSUME IssuePageInv, NEW q \in Requests, Deliver(q) \/ Fails(q)
  PROVE  IssuePageInv'
  <1>0. IssuePageTypeOK
    BY DEF IssuePageInv
  <1>1. ask' = Come(ask, q, Unasked) /\ ask[q].pc # "idle" /\ held' = held \ {ask[q].what} /\ UNCHANGED <<issue, shownOf>>
    BY DEF Deliver, Fails
  <1>2. /\ ask' \in [Requests -> AskRecords] /\ AsksWhole' /\ OneStateButton' /\ AnswersOrdered'
        /\ held' \subseteq {"state"} /\ ("state" \in held' <=> \E p \in Asked' : ask'[p].what = "state")
    BY <1>1, ComesOne
  <1>3. CopyWillBeRight'
    BY TakingKeepsRight
  <1>4. copy' \in Copies \cup {None}
    <2>1. CASE Fails(q)
      BY <1>0, <2>1 DEF Fails, IssuePageTypeOK
    <2>2. CASE Deliver(q) /\ ask[q].what # "label"
      BY <2>2 DEF Deliver, IssuePageInv, AsksWhole
    <2>3. CASE Deliver(q) /\ ask[q].what = "label"
      <3> PICK a : a = ask[q]
        OBVIOUS
      <3>1. a.with \in Copies /\ a.label \in PageLabels
        BY <2>3 DEF Deliver, IssuePageInv, AsksWhole
      <3>2. Relabelled(a) = [of |-> a.with.of, row |-> [rest |-> a.with.row.rest, labels |->
              IF a.label \in a.with.row.labels THEN a.with.row.labels \ {a.label} ELSE a.with.row.labels \cup {a.label}]]
        BY <3>1 DEF Relabelled, Copies, IssueRows
      <3>3. Relabelled(a) \in Copies
        BY <3>1, <3>2 DEF Copies, IssueRows
      <3> QED
        BY <2>3, <3>3 DEF Deliver
    <2> QED
      BY <2>1, <2>2, <2>3
  <1>5. loading' \in BOOLEAN /\ failed' \in BOOLEAN /\ crossed' \in BOOLEAN
    BY <1>0 DEF Deliver, Fails, IssuePageTypeOK
  <1>6. edits' \in 0..MaxEdits
    <2>1. edits' = edits \/ (edits < MaxEdits /\ edits' = edits + 1)
      BY DEF Deliver, Fails
    <2> QED
      BY <1>0, <2>1, EditsBound DEF IssuePageTypeOK
  <1>7. behind' \subseteq Issues
    <2>1. ask[q].to \in Issues
      BY <1>1 DEF IssuePageInv, AsksWhole
    <2> QED
      BY <1>0, <2>1 DEF Deliver, Fails, IssuePageTypeOK
  <1>8. IssuePageTypeOK'
    BY <1>0, <1>1, <1>2, <1>4, <1>5, <1>6, <1>7 DEF IssuePageTypeOK, AskRecords, IssueRows, Copies
  <1> QED
    BY <1>2, <1>3, <1>8 DEF IssuePageInv

LEMMA PageIsServed ==
  ASSUME IssuePageInv, NEW q \in Requests, ServeIssue(q)
  PROVE  IssuePageInv'
  <1>0. IssuePageTypeOK /\ ask[q].pc = "sent"
    BY DEF IssuePageInv, ServeIssue
  <1>1. /\ ask' \in [Requests -> AskRecords] /\ AsksWhole' /\ OneStateButton' /\ AnswersOrdered'
        /\ Asked' = Asked /\ \A p \in Asked : ask'[p].what = ask[p].what
        /\ Altered(issue[ask[q].to], ask[q]) \in IssueRows
    BY <1>0, Serves
  <1>2. issue' = [issue EXCEPT ![ask[q].to] = Altered(issue[ask[q].to], ask[q])] /\ behind' \subseteq behind
        /\ UNCHANGED <<shownOf, copy, loading, failed, held, edits, crossed>>
    BY DEF ServeIssue
  <1>3. issue' \in [Issues -> IssueRows]
    BY <1>0, <1>1, <1>2 DEF IssuePageTypeOK
  <1>4. IssuePageTypeOK'
    BY <1>0, <1>1, <1>2, <1>3 DEF IssuePageTypeOK, AskRecords, IssueRows, Copies
  <1> QED
    BY <1>1, <1>4, ServingKeepsRight DEF IssuePageInv

LEMMA PageIsEdited ==
  ASSUME IssuePageInv, NEW n \in Issues, NEW r \in IssueRows, Edit(n, r)
  PROVE  IssuePageInv'
  <1>0. IssuePageTypeOK
    BY DEF IssuePageInv
  <1>1. /\ issue' = [issue EXCEPT ![n] = r] /\ edits < MaxEdits /\ edits' = edits + 1 /\ behind' = behind \cup {n}
        /\ UNCHANGED <<shownOf, copy, loading, failed, ask, held, crossed>>
    BY DEF Edit
  <1>2. IssuePageTypeOK'
    <2>1. issue' \in [Issues -> IssueRows] /\ edits' \in 0..MaxEdits /\ behind' \subseteq Issues
      BY <1>0, <1>1, EditsBound DEF IssuePageTypeOK
    <2> QED
      BY <1>0, <1>1, <2>1 DEF IssuePageTypeOK, Asked, IssueRows, Copies
  <1>3. AsksWhole' /\ OneStateButton' /\ AnswersOrdered'
    BY <1>1 DEF IssuePageInv, AsksWhole, OneStateButton, AnswersOrdered, Asked, OnTheirWay, Copies, IssueRows
  <1>4. CopyWillBeRight'
    <2> SUFFICES ASSUME NEW m \in Issues, m = shownOf PROVE RightFor(m)'
      BY <1>1 DEF CopyWillBeRight
    <2>0. RightFor(m)
      BY DEF IssuePageInv, CopyWillBeRight
    <2>1. CASE m = n
      BY <1>1, <2>1 DEF RightFor
    <2>2. CASE m # n
      <3>1. For(m)' = For(m) /\ \A p \in For(m) : ask'[p] = ask[p]
        BY <1>1 DEF For, OnTheirWay
      <3>2. (SomeLate(m) => SomeLate(m)') /\ (Misplaced(m) => Misplaced(m)') /\ \A v : Leaves(For(m), v) => Leaves(For(m), v)'
        BY <1>1, <3>1, WayIsKept
      <3>3. Copy(m)' = Copy(m)
        BY <1>0, <1>1, <2>2 DEF Copy, IssuePageTypeOK
      <3>4. Leaves(For(m), Copy(m)) => Leaves(For(m), Copy(m))'
        BY <3>2, <3>3 DEF Leaves
      <3>5. (ToBeRead(m) => ToBeRead(m)') /\ (Unopened => Unopened')
        BY <1>1 DEF ToBeRead, Unopened, Asked
      <3> QED
        BY <1>1, <2>0, <3>2, <3>4, <3>5 DEF RightFor
    <2> QED
      BY <2>1, <2>2
  <1> QED
    BY <1>2, <1>3, <1>4 DEF IssuePageInv

LEMMA IssuePageNextInv == IssuePageInv /\ [IssuePageNext]_issuePageVars => IssuePageInv'
  <1> SUFFICES ASSUME IssuePageInv, [IssuePageNext]_issuePageVars PROVE IssuePageInv'
    OBVIOUS
  <1>1. ASSUME NEW q \in Requests, OpenIssue(q) \/ ToggleState(q) \/ Fix(q) \/ Comment(q) \/ DeliverComment(q)
                                   \/ \E l \in PageLabels : ToggleLabel(q, l)
        PROVE  IssuePageInv'
    BY <1>1, PageAsks
  <1>2. ASSUME NEW q \in Requests, NEW n \in Issues, GoToIssue(q, n) PROVE IssuePageInv'
    BY <1>2, PageMoves
  <1>3. ASSUME NEW q \in Requests, Deliver(q) \/ Fails(q) PROVE IssuePageInv'
    BY <1>3, PageTakes
  <1>4. ASSUME NEW q \in Requests, ServeIssue(q) PROVE IssuePageInv'
    BY <1>4, PageIsServed
  <1>5. ASSUME NEW n \in Issues, NEW r \in IssueRows, Edit(n, r) PROVE IssuePageInv'
    BY <1>5, PageIsEdited
  <1>6. CASE UNCHANGED issuePageVars
    <2>0. UNCHANGED <<issue, shownOf, copy, loading, failed, ask, held, edits, behind, crossed>>
      BY <1>6 DEF issuePageVars
    <2>1. IssuePageTypeOK'
      BY <2>0 DEF IssuePageInv, IssuePageTypeOK, Asked
    <2>2. AsksWhole' /\ OneStateButton' /\ AnswersOrdered'
      BY <2>0 DEF IssuePageInv, AsksWhole, OneStateButton, AnswersOrdered, Asked, OnTheirWay
    <2>3. CopyWillBeRight'
      <3> SUFFICES ASSUME NEW m \in Issues, m = shownOf PROVE RightFor(m)'
        BY <2>0 DEF CopyWillBeRight
      <3>0. RightFor(m)
        BY DEF IssuePageInv, CopyWillBeRight
      <3>1. For(m)' = For(m) /\ \A p \in For(m) : ask'[p] = ask[p]
        BY <2>0 DEF For, OnTheirWay
      <3>2. (SomeLate(m) => SomeLate(m)') /\ (Misplaced(m) => Misplaced(m)') /\ \A v : Leaves(For(m), v) => Leaves(For(m), v)'
        BY <2>0, <3>1, WayIsKept
      <3>3. Leaves(For(m), Copy(m)) => Leaves(For(m), Copy(m))'
        BY <2>0, <3>2 DEF Leaves, Copy
      <3>4. (ToBeRead(m) => ToBeRead(m)') /\ (Unopened => Unopened')
        BY <2>0 DEF ToBeRead, Unopened, Asked
      <3> QED
        BY <2>0, <3>0, <3>2, <3>3, <3>4 DEF RightFor
    <2> QED
      BY <2>1, <2>2, <2>3 DEF IssuePageInv
  <1> QED
    BY <1>1, <1>2, <1>3, <1>4, <1>5, <1>6 DEF IssuePageNext

LEMMA IssuePageInvHolds == IssuePageSpec => []IssuePageInv
  BY IssuePageInitInv, IssuePageNextInv, PTL DEF IssuePageSpec

(***************************************************************************)
(* The page of an issue shows the issue of its address once nothing is     *)
(* under way, for any number of requests, issues and labels, answers in    *)
(* any order, failures and moves from issue to issue.                      *)
(***************************************************************************)
THEOREM IssueIsShown == IssuePageSpec => []IssuePageShows
  <1>1. IssuePageInv => IssuePageShows
    <2> SUFFICES ASSUME IssuePageInv, Asked = {}, ~loading, ~failed, ~crossed, shownOf \notin behind
                 PROVE  copy = Copy(shownOf)
      BY DEF IssuePageShows
    <2> PICK n : n = shownOf
      OBVIOUS
    <2>1. n \in Issues /\ RightFor(n)
      BY DEF IssuePageInv, IssuePageTypeOK, CopyWillBeRight
    <2>2. \A q \in Requests : ask[q].pc = "idle"
      BY DEF Asked
    <2>3. For(n) = {} /\ ~ToBeRead(n)
      BY <2>2 DEF For, OnTheirWay, ToBeRead
    <2> QED
      BY <2>1, <2>3 DEF RightFor, Unopened, SomeLate, Misplaced, Leaves
  <1> QED
    BY <1>1, IssuePageInvHolds, PTL

(***************************************************************************)
(* The page of a pull request.  The copy is set from the answers to what   *)
(* reads the row, and by hand from the copy of the time of the click; the  *)
(* argument about their order is the one of the page of an issue, up to    *)
(* what a merged or closed pull request does not show.                     *)
(***************************************************************************)
ByHandKinds == Box \cup {"ready"}
RowKinds == ByHandKinds \cup {"load", "refresh"}
QueryKinds == RowKinds \cup PageLists \cup {"suggest", "review"}

\* The answers that are on their way and from which the page sets its copy; of them, those for n.
RowsOnTheirWay == {q \in Requests : query[q].pc = "answered" /\ query[q].what \in RowKinds}
RowsFor(n) == {q \in RowsOnTheirWay : query[q].to = n}

\* What an answer will make of the copy, and what S leaves when it is taken in order.
RowOf(q) == IF query[q].what \in ByHandKinds THEN ByHand(query[q]) ELSE query[q].answer
LastRow(q, S) == q \in S /\ \A p \in S \ {q} : p \in query[q].after
RowsLeave(S, v) == (S = {} /\ v = pr) \/ \E q \in S : LastRow(q, S) /\ v = RowOf(q)
RowsBefore(q) == {p \in RowsFor(query[q].to) : p \in query[q].after}

RowsOrdered ==
  /\ \A q \in RowsOnTheirWay : query[q].after \subseteq RowsOnTheirWay \ {q}
  /\ \A p, q \in RowsOnTheirWay : p # q => (p \in query[q].after <=> q \notin query[p].after)

\* The row will be read again, or what comes makes the page muddle it.
RowToBeRead(n) == \E q \in Requests : query[q].to = n /\
  \/ query[q].pc = "sent" /\ query[q].what \in {"load", "refresh"}
  \/ query[q].pc = "answered" /\ query[q].what \in {"suggest", "review"}
LateRow(n) == \E q \in RowsFor(n) : query[q].late
NoneReadAfter(q, n) == \A p \in RowsFor(n) : query[p].what \notin ByHandKinds => p \in query[q].after
StaleClick(n) == \E q \in RowsFor(n) :
  query[q].what \in ByHandKinds /\ ~RowsLeave(RowsBefore(q), query[q].with) /\ NoneReadAfter(q, n)
RowComesRight(n) == \E v \in PullCopies : RowsLeave(RowsFor(n), v) /\ Visible(v) = Visible(PullCopy(n))

RowRightFor(n) ==
  ~muddled /\ n \notin aside =>
    \/ pr = None /\ Queried = {}
    \/ RowToBeRead(n) \/ LateRow(n) \/ StaleClick(n) \/ RowComesRight(n)
RowWillBeRight == \A n \in Pulls : n = pullAt => RowRightFor(n)

\* A list is the one of the head, or it is about to be asked for, or on its way.
ListInPlace(l) == list[l] = [of |-> pullAt, head |-> pull[pullAt].head]
ListComes(l) == pr = None \/ l \in owed \/ \E q \in Queried : query[q].what = l /\ query[q].to = pullAt
ListsWillBeRight == \A l \in PageLists \ outdated :
  /\ \A q \in Queried : query[q].pc = "answered" /\ query[q].what = l /\ query[q].to = pullAt =>
       query[q].answer.row.head = pull[pullAt].head
  /\ ListComes(l) \/ ListInPlace(l)

QueriesWhole == \A q \in Requests : LET a == query[q] IN
  /\ a.pc # "idle" => a.what \in QueryKinds /\ a.to \in Pulls
  /\ a.pc # "idle" /\ a.what \in ByHandKinds => a.with \in PullCopies
  /\ a.pc = "answered" /\ a.what \notin {"suggest", "review"} => a.answer \in PullCopies
  /\ a.pc = "refused" => a.what \notin {"load", "refresh"} \cup PageLists
NothingReadYet == pr = None =>
  /\ owed = {} /\ \A l \in PageLists : list[l] = None
  /\ \A q \in Queried : query[q].what = "load"

PullPageInv == PullPageTypeOK /\ QueriesWhole /\ NothingReadYet /\ RowsOrdered /\ RowWillBeRight /\ ListsWillBeRight

QueryRecords == [pc: {"idle", "sent", "answered", "refused"}, what: QueryKinds \cup {None},
                 to: Pulls \cup {None}, with: PullCopies \cup {None}, answer: PullCopies \cup {None},
                 after: SUBSET Requests, late: BOOLEAN]

LEMMA QueryTyped ==
  ASSUME PullPageTypeOK
  PROVE  query \in [Requests -> QueryRecords]
  <1>1. QueryKinds \cup {None} = Box \cup PageLists \cup {None, "load", "refresh", "ready", "suggest", "review"}
    BY DEF QueryKinds, RowKinds, ByHandKinds
  <1> QED
    BY <1>1 DEF PullPageTypeOK, QueryRecords

\* What the type says besides the queries.
RestTyped ==
  /\ pull \in [Pulls -> PullRows] /\ pullAt \in Pulls /\ tab \in {"conversation", "files"}
  /\ pr \in PullCopies \cup {None} /\ prLoading \in BOOLEAN
  /\ list \in [PageLists -> [of: Pulls, head: (0..MaxHead) \cup {None}] \cup {None}] /\ owed \subseteq PageLists
  /\ moves \in 0..MaxMoves
  /\ aside \subseteq Pulls /\ muddled \in BOOLEAN /\ outdated \subseteq PageLists
BoxWaits ==
  /\ \A q \in box : q \in Requests /\ query[q].pc # "idle" /\ query[q].what \in ByHandKinds
  /\ box # {} => tab = "conversation" /\ ~prLoading

LEMMA PullTypes == PullPageTypeOK <=> (RestTyped /\ BoxWaits /\ query \in [Requests -> QueryRecords])
  <1>1. QueryKinds \cup {None} = Box \cup PageLists \cup {None, "load", "refresh", "ready", "suggest", "review"}
    BY DEF QueryKinds, RowKinds, ByHandKinds
  <1>2. BoxWaits <=> /\ box \subseteq {q \in Queried : query[q].what \in Box \cup {"ready"}}
                     /\ box # {} => tab = "conversation" /\ ~prLoading
    BY DEF BoxWaits, Queried, ByHandKinds
  <1> QED
    BY <1>1, <1>2 DEF PullPageTypeOK, RestTyped, QueryRecords

LEMMA PullPageInitInv == PullPageInit => PullPageInv
  <1> SUFFICES ASSUME PullPageInit PROVE PullPageInv
    OBVIOUS
  <1>1. \A q \in Requests : query[q] = Silent /\ query[q].pc = "idle"
    BY DEF PullPageInit, Silent
  <1>2. Queried = {} /\ RowsOnTheirWay = {}
    BY <1>1 DEF Queried, RowsOnTheirWay
  <1>3. Silent \in QueryRecords
    BY DEF Silent, QueryRecords
  <1>4. query \in [Requests -> QueryRecords]
    BY <1>3 DEF PullPageInit
  <1>5. pull \in [Pulls -> PullRows]
    BY MovesBound DEF PullPageInit, PullRows
  <1>6. RestTyped
    <2>1. list \in [PageLists -> [of: Pulls, head: (0..MaxHead) \cup {None}] \cup {None}]
      BY DEF PullPageInit
    <2>2. pullAt \in Pulls /\ tab = "conversation" /\ pr = None /\ prLoading = TRUE /\ owed = {} /\ moves = 0 /\ aside = {}
          /\ muddled = FALSE /\ outdated = {}
      BY DEF PullPageInit
    <2>3. moves \in 0..MaxMoves
      BY <2>2, MovesBound
    <2> QED
      BY <1>5, <2>1, <2>2, <2>3 DEF RestTyped
  <1>7. BoxWaits
    BY DEF BoxWaits, PullPageInit
  <1>8. QueriesWhole
    BY <1>1 DEF QueriesWhole
  <1>9. NothingReadYet /\ RowsOrdered
    BY <1>2 DEF NothingReadYet, RowsOrdered, PullPageInit
  <1>10. RowWillBeRight
    BY <1>2 DEF RowWillBeRight, RowRightFor, PullPageInit
  <1>11. ListsWillBeRight
    BY <1>2 DEF ListsWillBeRight, ListComes, PullPageInit
  <1> QED
    BY <1>4, <1>6, <1>7, <1>8, <1>9, <1>10, <1>11, PullTypes DEF PullPageInv

\* What a query is as it is sent.
QueryOf(what, n) == [Query(what) EXCEPT !.to = n]

LEMMA QueryFields ==
  ASSUME NEW what \in QueryKinds, NEW n \in Pulls, pullAt \in Pulls,
         what \in ByHandKinds => pr \in PullCopies, NEW a, a = QueryOf(what, n)
  PROVE  /\ a \in QueryRecords
         /\ a.pc = "sent" /\ a.what = what /\ a.to = n /\ a.after = {}
         /\ what \in ByHandKinds => a.with = pr
  <1> DEFINE with == IF what \in ByHandKinds THEN pr ELSE None
  <1>1. a = [pc |-> "sent", what |-> what, to |-> n, with |-> with, answer |-> None, after |-> {}, late |-> FALSE]
    BY DEF QueryOf, Query, Silent, ByHandKinds
  <1>2. with \in PullCopies \cup {None} /\ (what \in ByHandKinds => with = pr)
    OBVIOUS
  <1> HIDE DEF with
  <1>3. [pc |-> "sent", what |-> what, to |-> n, with |-> with, answer |-> None, after |-> {}, late |-> FALSE] \in QueryRecords
    BY <1>2 DEF QueryRecords
  <1> QED
    BY <1>1, <1>2, <1>3

LEMMA QueryHere ==
  ASSUME NEW what
  PROVE  Query(what) = QueryOf(what, pullAt)
  BY DEF QueryOf, Query, Silent

\* An answer has come, or none.
LEMMA QueryComes ==
  ASSUME PullPageTypeOK, NEW q \in Requests, query' = Come(query, q, Silent)
  PROVE  /\ query' \in [Requests -> QueryRecords] /\ query'[q] = Silent
         /\ \A p \in Requests \ {q} :
              /\ query'[p].pc = query[p].pc /\ query'[p].what = query[p].what /\ query'[p].to = query[p].to
              /\ query'[p].with = query[p].with /\ query'[p].answer = query[p].answer
              /\ query'[p].after = query[p].after \ {q}
              /\ query'[p].late = (query[p].late \/ p \in query[q].after)
  <1>0. query \in [Requests -> QueryRecords] /\ DOMAIN query = Requests
    BY QueryTyped
  <1>1. query' = [p \in Requests |->
          IF p = q THEN Silent
          ELSE [query[p] EXCEPT !.after = query[p].after \ {q}, !.late = query[p].late \/ p \in query[q].after]]
    BY <1>0 DEF Come
  <1>2. Silent \in QueryRecords
    BY DEF Silent, QueryRecords
  <1>3. ASSUME NEW p \in Requests \ {q}
        PROVE  /\ query'[p].pc = query[p].pc /\ query'[p].what = query[p].what /\ query'[p].to = query[p].to
               /\ query'[p].with = query[p].with /\ query'[p].answer = query[p].answer
               /\ query'[p].after = query[p].after \ {q}
               /\ query'[p].late = (query[p].late \/ p \in query[q].after)
               /\ query'[p] \in QueryRecords
    <2>1. query[p] \in QueryRecords
      BY <1>0
    <2>2. query'[p] = [query[p] EXCEPT !.after = query[p].after \ {q}, !.late = query[p].late \/ p \in query[q].after]
      BY <1>1
    <2>3. (query[p].late \/ p \in query[q].after) \in BOOLEAN
      BY <2>1 DEF QueryRecords
    <2> QED
      BY <2>1, <2>2, <2>3 DEF QueryRecords
  <1>4. query'[q] = Silent
    BY <1>1
  <1>5. query' \in [Requests -> QueryRecords]
    BY <1>1, <1>2, <1>3, <1>4
  <1> QED
    BY <1>3, <1>4, <1>5

LEMMA RowsLeftTheWay ==
  ASSUME PullPageTypeOK, NEW q \in Requests, query' = Come(query, q, Silent), NEW n
  PROVE  RowsOnTheirWay' = RowsOnTheirWay \ {q} /\ RowsFor(n)' = RowsFor(n) \ {q} /\ Queried' = Queried \ {q}
  <1>1. \A p \in Requests \ {q} : query'[p].pc = query[p].pc /\ query'[p].what = query[p].what /\ query'[p].to = query[p].to
    BY QueryComes
  <1>2. query'[q].pc = "idle"
    <2>1. query'[q] = Silent
      BY QueryComes
    <2> QED
      BY <2>1 DEF Silent
  <1>3. RowsOnTheirWay' = RowsOnTheirWay \ {q}
    BY <1>1, <1>2 DEF RowsOnTheirWay
  <1>4. Queried' = Queried \ {q}
    BY <1>1, <1>2 DEF Queried
  <1>5. RowsFor(n)' = RowsFor(n) \ {q}
    BY <1>1, <1>3 DEF RowsFor, RowsOnTheirWay
  <1> QED
    BY <1>3, <1>4, <1>5

\* Nothing changes that is on its way for n, nor the copy.
LEMMA RowsAreKept ==
  ASSUME NEW n, RowsFor(n)' = RowsFor(n), \A p \in RowsFor(n) : query'[p] = query[p], pr' = pr
  PROVE  /\ LateRow(n) => LateRow(n)'
         /\ StaleClick(n) => StaleClick(n)'
         /\ \A v : RowsLeave(RowsFor(n), v) => RowsLeave(RowsFor(n), v)'
  <1>2. ASSUME NEW p \in RowsFor(n) PROVE RowOf(p)' = RowOf(p)
    BY DEF RowOf
  <1>3. ASSUME NEW S, S \subseteq RowsFor(n), NEW v PROVE RowsLeave(S, v)' <=> RowsLeave(S, v)
    <2>1. ASSUME NEW p \in S PROVE LastRow(p, S)' <=> LastRow(p, S)
      BY <1>3 DEF LastRow
    <2> QED
      BY <1>2, <1>3, <2>1 DEF RowsLeave
  <1>5. LateRow(n) => LateRow(n)'
    BY DEF LateRow
  <1>6. \A v : RowsLeave(RowsFor(n), v) => RowsLeave(RowsFor(n), v)'
    <2> SUFFICES ASSUME NEW v, RowsLeave(RowsFor(n), v) PROVE RowsLeave(RowsFor(n), v)'
      OBVIOUS
    <2> PICK S : S = RowsFor(n)
      OBVIOUS
    <2>1. RowsLeave(S, v)'
      BY <1>3
    <2> QED
      BY <2>1 DEF RowsLeave
  <1>7. StaleClick(n) => StaleClick(n)'
    <2> SUFFICES ASSUME NEW q \in RowsFor(n), query[q].what \in ByHandKinds, ~RowsLeave(RowsBefore(q), query[q].with), NoneReadAfter(q, n)
                 PROVE  StaleClick(n)'
      BY DEF StaleClick
    <2>1. query'[q] = query[q] /\ q \in RowsFor(n)' /\ query[q].to = n
      BY DEF RowsFor
    <2>2. RowsBefore(q)' = RowsBefore(q) /\ RowsBefore(q) \subseteq RowsFor(n)
      BY <2>1 DEF RowsBefore
    <2>3. NoneReadAfter(q, n)'
      BY <2>1 DEF NoneReadAfter
    <2> PICK S, v : S = RowsBefore(q) /\ v = query[q].with
      OBVIOUS
    <2>4. ~RowsLeave(S, v)'
      BY <1>3, <2>2
    <2>5. ~RowsLeave(RowsBefore(q), query[q].with)'
      BY <2>1, <2>2, <2>4 DEF RowsLeave
    <2> QED
      BY <2>1, <2>3, <2>5 DEF StaleClick
  <1> QED
    BY <1>5, <1>6, <1>7

\* A query is sent: no row on its way is touched.
LEMMA SendsQuery ==
  ASSUME PullPageInv, NEW q \in Requests, q \notin RowsOnTheirWay,
         NEW what \in QueryKinds, NEW n \in Pulls, what \in ByHandKinds => pr \in PullCopies,
         query' = [query EXCEPT ![q] = QueryOf(what, n)]
  PROVE  /\ query' \in [Requests -> QueryRecords] /\ QueriesWhole' /\ RowsOrdered'
         /\ RowsOnTheirWay' = RowsOnTheirWay
         /\ query'[q].pc = "sent" /\ query'[q].what = what /\ query'[q].to = n
         /\ Queried' = Queried \cup {q}
         /\ \A p \in Requests \ {q} : query'[p] = query[p]
  <1> PICK a : a = QueryOf(what, n)
    OBVIOUS
  <1>0. PullPageTypeOK /\ query \in [Requests -> QueryRecords] /\ pullAt \in Pulls
    BY QueryTyped DEF PullPageInv, PullPageTypeOK
  <1>1. /\ a \in QueryRecords
        /\ a.pc = "sent" /\ a.what = what /\ a.to = n /\ a.after = {}
        /\ what \in ByHandKinds => a.with = pr
    BY <1>0, QueryFields
  <1>3. query' \in [Requests -> QueryRecords] /\ query'[q] = a /\ \A p \in Requests \ {q} : query'[p] = query[p]
    BY <1>0, <1>1
  <1>4. RowsOnTheirWay' = RowsOnTheirWay /\ \A p \in RowsOnTheirWay : query'[p] = query[p]
    BY <1>1, <1>3 DEF RowsOnTheirWay
  <1>5. Queried' = Queried \cup {q}
    BY <1>1, <1>3 DEF Queried
  <1>6. QueriesWhole'
    <2> SUFFICES ASSUME NEW p \in Requests
                 PROVE  /\ query'[p].pc # "idle" => query'[p].what \in QueryKinds /\ query'[p].to \in Pulls
                        /\ query'[p].pc # "idle" /\ query'[p].what \in ByHandKinds => query'[p].with \in PullCopies
                        /\ query'[p].pc = "answered" /\ query'[p].what \notin {"suggest", "review"} => query'[p].answer \in PullCopies
                        /\ query'[p].pc = "refused" => query'[p].what \notin {"load", "refresh"} \cup PageLists
      BY DEF QueriesWhole, PullCopies, PullRows, QueryKinds, RowKinds, ByHandKinds
    <2>1. CASE p = q
      BY <1>1, <1>3, <2>1
    <2>2. CASE p # q
      BY <1>3, <2>2 DEF QueriesWhole, PullPageInv
    <2> QED
      BY <2>1, <2>2
  <1>7. RowsOrdered'
    BY <1>4 DEF RowsOrdered, PullPageInv
  <1> QED
    BY <1>1, <1>3, <1>4, <1>5, <1>6, <1>7

\* An answer comes, or none.
LEMMA QueryEnds ==
  ASSUME PullPageInv, NEW q \in Requests, query' = Come(query, q, Silent)
  PROVE  /\ query' \in [Requests -> QueryRecords] /\ QueriesWhole' /\ RowsOrdered'
  <1>0. PullPageTypeOK
    BY DEF PullPageInv
  <1>1. /\ query' \in [Requests -> QueryRecords] /\ query'[q] = Silent
        /\ \A p \in Requests \ {q} :
              /\ query'[p].pc = query[p].pc /\ query'[p].what = query[p].what /\ query'[p].to = query[p].to
              /\ query'[p].with = query[p].with /\ query'[p].answer = query[p].answer
              /\ query'[p].after = query[p].after \ {q}
    BY <1>0, QueryComes
  <1>2. Silent.pc = "idle"
    BY DEF Silent
  <1>3. RowsOnTheirWay' = RowsOnTheirWay \ {q}
    BY <1>0, RowsLeftTheWay
  <1>4. QueriesWhole'
    <2> SUFFICES ASSUME NEW p \in Requests
                 PROVE  /\ query'[p].pc # "idle" => query'[p].what \in QueryKinds /\ query'[p].to \in Pulls
                        /\ query'[p].pc # "idle" /\ query'[p].what \in ByHandKinds => query'[p].with \in PullCopies
                        /\ query'[p].pc = "answered" /\ query'[p].what \notin {"suggest", "review"} => query'[p].answer \in PullCopies
                        /\ query'[p].pc = "refused" => query'[p].what \notin {"load", "refresh"} \cup PageLists
      BY DEF QueriesWhole, PullCopies, PullRows, QueryKinds, RowKinds, ByHandKinds
    <2>1. CASE p = q
      BY <1>1, <1>2, <2>1
    <2>2. CASE p # q
      BY <1>1, <2>2 DEF QueriesWhole, PullPageInv
    <2> QED
      BY <2>1, <2>2
  <1>5. RowsOrdered'
    <2>1. \A p \in RowsOnTheirWay' : query'[p].after = query[p].after \ {q} /\ p \in RowsOnTheirWay
      BY <1>1, <1>3 DEF RowsOnTheirWay
    <2>2. \A p \in RowsOnTheirWay' : query'[p].after \subseteq RowsOnTheirWay' \ {p}
      BY <1>3, <2>1 DEF RowsOrdered, PullPageInv
    <2>3. \A p, r \in RowsOnTheirWay' : p # r => (p \in query'[r].after <=> r \notin query'[p].after)
      BY <1>3, <2>1 DEF RowsOrdered, PullPageInv
    <2> QED
      BY <2>2, <2>3 DEF RowsOrdered
  <1> QED
    BY <1>1, <1>4, <1>5

\* Nothing changes that is on its way to the address, nor the copy.
LEMMA RowRightAsBefore ==
  ASSUME RowWillBeRight, NEW n \in Pulls, n = pullAt,
         RowsFor(n)' = RowsFor(n), \A p \in RowsFor(n) : query'[p] = query[p],
         UNCHANGED <<pullAt, pr, muddled>>, pull'[n] = pull[n],
         n \notin aside' => n \notin aside /\ (RowToBeRead(n) => RowToBeRead(n)'),
         pr = None /\ Queried = {} => Queried' = {} \/ RowToBeRead(n)'
  PROVE  RowWillBeRight'
  <1> SUFFICES RowRightFor(n)'
    BY DEF RowWillBeRight
  <1>0. RowRightFor(n)
    BY DEF RowWillBeRight
  <1>2. (LateRow(n) => LateRow(n)') /\ (StaleClick(n) => StaleClick(n)') /\ \A v : RowsLeave(RowsFor(n), v) => RowsLeave(RowsFor(n), v)'
    BY RowsAreKept
  <1>3. RowComesRight(n) => RowComesRight(n)'
    <2>1. PullCopy(n)' = PullCopy(n)
      BY DEF PullCopy
    <2>2. ASSUME NEW v \in PullCopies, RowsLeave(RowsFor(n), v), Visible(v) = Visible(PullCopy(n)) PROVE RowComesRight(n)'
      <3>1. v \in PullCopies'
        BY DEF PullCopies, PullRows
      <3>2. Visible(v) = Visible(PullCopy(n))'
        BY <2>1, <2>2 DEF Visible
      <3> QED
        BY <1>2, <2>2, <3>1, <3>2 DEF RowComesRight, Visible
    <2> QED
      BY <2>2 DEF RowComesRight
  <1> QED
    BY <1>0, <1>2, <1>3 DEF RowRightFor

\* What S leaves is one copy.
LEMMA RowsLeaveOne ==
  ASSUME RowsOrdered, NEW S, S \subseteq RowsOnTheirWay, NEW v, NEW w, RowsLeave(S, v), RowsLeave(S, w)
  PROVE  v = w
  BY DEF RowsLeave, LastRow, RowsOrdered, RowsOnTheirWay

\* What is written by hand depends on these only.
LEMMA SameByHand ==
  ASSUME NEW a, NEW b, a.with = b.with, a.pc = b.pc, a.what = b.what, a.answer = b.answer
  PROVE  ByHand(a) = ByHand(b)
  BY DEF ByHand

\* An answer has come: what the others leave, unless there is none.
LEMMA OtherRowsStay ==
  ASSUME PullPageInv, NEW q \in Requests, query' = Come(query, q, Silent), NEW S, S \subseteq RowsOnTheirWay \ {q}
  PROVE  /\ \A p \in S : /\ RowOf(p)' = RowOf(p) /\ query'[p].what = query[p].what /\ query'[p].to = query[p].to
                         /\ query'[p].with = query[p].with /\ query'[p].after = query[p].after \ {q}
                         /\ (query[p].late \/ p \in query[q].after => query'[p].late)
         /\ \A p \in S : LastRow(p, S)' <=> LastRow(p, S)
         /\ S # {} => \A v : RowsLeave(S, v)' <=> RowsLeave(S, v)
  <1>0. S \subseteq Requests \ {q}
    BY DEF RowsOnTheirWay
  <1>1. \A p \in S : /\ query'[p].pc = query[p].pc /\ query'[p].what = query[p].what /\ query'[p].to = query[p].to
                     /\ query'[p].with = query[p].with /\ query'[p].answer = query[p].answer /\ query'[p].after = query[p].after \ {q}
                     /\ query'[p].late = (query[p].late \/ p \in query[q].after)
    BY <1>0, QueryComes DEF PullPageInv
  <1>2. ASSUME NEW p \in S PROVE RowOf(p)' = RowOf(p)
    <2>1. query'[p].with = query[p].with /\ query'[p].pc = query[p].pc /\ query'[p].what = query[p].what
          /\ query'[p].answer = query[p].answer
      BY <1>1
    <2>2. ByHand(query'[p]) = ByHand(query[p])
      BY <2>1, SameByHand
    <2> QED
      BY <2>1, <2>2 DEF RowOf
  <1>3. ASSUME NEW p \in S PROVE LastRow(p, S)' <=> LastRow(p, S)
    BY <1>1 DEF LastRow
  <1>4. S # {} => \A v : RowsLeave(S, v)' <=> RowsLeave(S, v)
    BY <1>2, <1>3 DEF RowsLeave
  <1> QED
    BY <1>1, <1>2, <1>3, <1>4

\* An answer of another pull request, or none: what is on its way for n stays as it is.
LEMMA ForeignRowKeeps ==
  ASSUME PullPageInv, NEW q \in Requests, query' = Come(query, q, Silent), NEW n, q \notin RowsFor(n),
         pr' = pr \/ \E p \in RowsFor(n) : query[p].what \notin ByHandKinds
  PROVE  /\ LateRow(n) => LateRow(n)'
         /\ StaleClick(n) => StaleClick(n)'
         /\ \A v : RowsLeave(RowsFor(n), v) => RowsLeave(RowsFor(n), v)'
  <1> PICK F : F = RowsFor(n)
    OBVIOUS
  <1>1. RowsFor(n)' = F /\ F \subseteq RowsOnTheirWay \ {q}
    BY RowsLeftTheWay DEF PullPageInv, RowsFor
  <1>2. \A p \in F : /\ RowOf(p)' = RowOf(p) /\ query'[p].what = query[p].what /\ query'[p].to = query[p].to
                     /\ query'[p].with = query[p].with /\ query'[p].after = query[p].after \ {q}
                     /\ (query[p].late \/ p \in query[q].after => query'[p].late)
    BY <1>1, OtherRowsStay
  <1>3. LateRow(n) => LateRow(n)'
    BY <1>1, <1>2 DEF LateRow
  <1>4. ASSUME NEW v, RowsLeave(RowsFor(n), v) PROVE RowsLeave(RowsFor(n), v)'
    <2>1. CASE F # {}
      <3>1. RowsLeave(F, v)' <=> RowsLeave(F, v)
        BY <1>1, <2>1, OtherRowsStay
      <3> QED
        BY <1>1, <1>4, <3>1 DEF RowsLeave
    <2>2. CASE F = {}
      BY <1>1, <1>4, <2>2 DEF RowsLeave
    <2> QED
      BY <2>1, <2>2
  <1>5. StaleClick(n) => StaleClick(n)'
    <2> SUFFICES ASSUME NEW x \in RowsFor(n), query[x].what \in ByHandKinds, ~RowsLeave(RowsBefore(x), query[x].with), NoneReadAfter(x, n)
                 PROVE  StaleClick(n)'
      BY DEF StaleClick
    <2>1. x \in RowsFor(n)' /\ query'[x].what \in ByHandKinds /\ query[x].to = n /\ query'[x].to = n
          /\ query'[x].with = query[x].with /\ query'[x].after = query[x].after \ {q}
      BY <1>1, <1>2 DEF RowsFor
    <2> PICK S, v : S = RowsBefore(x) /\ v = query[x].with
      OBVIOUS
    <2>2. RowsBefore(x)' = S /\ S \subseteq RowsOnTheirWay \ {q}
      BY <1>1, <2>1 DEF RowsBefore
    <2>3. NoneReadAfter(x, n)'
      BY <1>1, <1>2, <2>1 DEF NoneReadAfter
    <2>4. ~RowsLeave(S, v)'
      <3>1. CASE S # {}
        <4>1. RowsLeave(S, v)' <=> RowsLeave(S, v)
          BY <2>2, <3>1, OtherRowsStay
        <4> QED
          BY <4>1
      <3>2. CASE S = {} /\ pr' = pr
        BY <3>2 DEF RowsLeave
      <3>3. CASE S = {} /\ \E p \in RowsFor(n) : query[p].what \notin ByHandKinds
        BY <3>3, <2>1 DEF NoneReadAfter, RowsBefore
      <3> QED
        BY <3>1, <3>2, <3>3
    <2>5. ~RowsLeave(RowsBefore(x), query[x].with)'
      BY <2>1, <2>2, <2>4 DEF RowsLeave
    <2> QED
      BY <2>1, <2>3, <2>5 DEF StaleClick
  <1> QED
    BY <1>3, <1>4, <1>5

\* An answer of n is taken that was not overtaken.
LEMMA OwnRowKeeps ==
  ASSUME PullPageInv, NEW q \in Requests, query' = Come(query, q, Silent), NEW n, q \in RowsFor(n),
         ~query[q].late, query[q].what \in ByHandKinds => query[q].with = pr, pr' = RowOf(q)
  PROVE  /\ LateRow(n) => LateRow(n)'
         /\ StaleClick(n) => LateRow(n)' \/ StaleClick(n)'
         /\ \A v : RowsLeave(RowsFor(n), v) => LateRow(n)' \/ RowsLeave(RowsFor(n), v)'
  <1> PICK F : F = RowsFor(n) \ {q}
    OBVIOUS
  <1>1. RowsFor(n)' = F /\ F \subseteq RowsOnTheirWay \ {q} /\ q \in RowsOnTheirWay
    BY RowsLeftTheWay DEF PullPageInv, RowsFor
  <1>2. \A p \in F : /\ RowOf(p)' = RowOf(p) /\ query'[p].what = query[p].what /\ query'[p].to = query[p].to
                     /\ query'[p].with = query[p].with /\ query'[p].after = query[p].after \ {q}
                     /\ (query[p].late \/ p \in query[q].after => query'[p].late)
    BY <1>1, OtherRowsStay
  <1>3. LateRow(n) => LateRow(n)'
    BY <1>1, <1>2 DEF LateRow
  <1>4. CASE \E p \in F : p \in query[q].after
    BY <1>1, <1>2, <1>3, <1>4 DEF LateRow
  <1>5. CASE \A p \in F : p \notin query[q].after
    <2>1. \A p \in F : q \in query[p].after
      BY <1>1, <1>5 DEF PullPageInv, RowsOrdered
    <2>2. ASSUME NEW v, RowsLeave(RowsFor(n), v) PROVE RowsLeave(RowsFor(n), v)'
      <3> PICK x \in RowsFor(n) : LastRow(x, RowsFor(n)) /\ v = RowOf(x)
        BY <2>2 DEF RowsLeave
      <3>1. CASE x = q
        BY <1>1, <1>5, <3>1 DEF LastRow, RowsLeave
      <3>2. CASE x # q
        <4>1. x \in F /\ LastRow(x, F)
          BY <3>2 DEF LastRow
        <4>2. LastRow(x, F)'
          BY <1>1, <4>1, OtherRowsStay
        <4> QED
          BY <1>1, <1>2, <4>1, <4>2 DEF RowsLeave, LastRow
      <3> QED
        BY <3>1, <3>2
    <2>3. StaleClick(n) => StaleClick(n)'
      <3> SUFFICES ASSUME NEW x \in RowsFor(n), query[x].what \in ByHandKinds, ~RowsLeave(RowsBefore(x), query[x].with), NoneReadAfter(x, n)
                   PROVE  StaleClick(n)'
        BY DEF StaleClick
      <3>1. x # q
        <4> SUFFICES ASSUME x = q PROVE FALSE
          OBVIOUS
        <4>1. q \notin query[q].after /\ query[q].to = n
          BY <1>1 DEF PullPageInv, RowsOrdered, RowsFor, RowsOnTheirWay
        <4>2. RowsBefore(q) = {}
          BY <1>5, <4>1 DEF RowsBefore
        <4> QED
          BY <4>2 DEF RowsLeave
      <3>2. x \in F /\ x \in RowsFor(n)' /\ query'[x].what \in ByHandKinds /\ query[x].to = n /\ query'[x].to = n
            /\ query'[x].with = query[x].with /\ query'[x].after = query[x].after \ {q}
        BY <1>1, <1>2, <3>1 DEF RowsFor
      <3> PICK S, v : S = RowsBefore(x) \ {q} /\ v = query[x].with
        OBVIOUS
      <3>3. RowsBefore(x)' = S /\ S \subseteq F
        BY <1>1, <3>2 DEF RowsBefore
      <3>4. NoneReadAfter(x, n)'
        BY <1>1, <1>2, <3>2 DEF NoneReadAfter
      <3>5. RowsBefore(x) = S \cup {q} /\ q \notin S
        BY <2>1, <3>2 DEF RowsBefore
      <3>6. ~RowsLeave(S, v)'
        <4> SUFFICES ASSUME RowsLeave(S, v)' PROVE RowsLeave(RowsBefore(x), v)
          OBVIOUS
        <4>1. CASE S = {}
          <5>1. v = RowOf(q)
            BY <4>1 DEF RowsLeave
          <5>2. LastRow(q, RowsBefore(x)) /\ q \in RowsBefore(x)
            BY <3>5, <4>1 DEF LastRow
          <5> QED
            BY <5>1, <5>2 DEF RowsLeave
        <4>2. CASE S # {}
          <5>1. RowsLeave(S, v)
            BY <1>1, <3>3, <4>2, OtherRowsStay
          <5> PICK p \in S : LastRow(p, S) /\ v = RowOf(p)
            BY <5>1, <4>2 DEF RowsLeave
          <5>2. LastRow(p, RowsBefore(x))
            BY <2>1, <3>3, <3>5 DEF LastRow
          <5> QED
            BY <3>5, <5>2 DEF RowsLeave
        <4> QED
          BY <4>1, <4>2
      <3>7. ~RowsLeave(RowsBefore(x), query[x].with)'
        BY <3>2, <3>3, <3>6 DEF RowsLeave
      <3> QED
        BY <3>2, <3>4, <3>7 DEF StaleClick
    <2> QED
      BY <1>3, <2>2, <2>3
  <1> QED
    BY <1>4, <1>5

\* What shows of two copies is the same if these are.
LEMMA VisiblyEqual ==
  ASSUME NEW c \in PullCopies, NEW d \in PullCopies
  PROVE  Visible(c) = Visible(d) <=>
           /\ c.of = d.of /\ c.row.state = d.row.state /\ c.row.draft = d.row.draft /\ c.row.head = d.row.head
           /\ c.row.state = "open" => c.row.armed = d.row.armed
  <1> DEFINE Shows(x) == [of |-> x.of, row |-> [state |-> x.row.state, draft |-> x.row.draft,
                          armed |-> IF x.row.state = "open" THEN x.row.armed ELSE FALSE, head |-> x.row.head]]
  <1>1. ASSUME NEW x \in PullCopies PROVE Visible(x) = Shows(x)
    <2> PICK row : row = x.row
      OBVIOUS
    <2>1. row \in PullRows
      BY DEF PullCopies
    <2>2. \A y : [x EXCEPT !.row = y] = [of |-> x.of, row |-> y]
      BY DEF PullCopies
    <2>3. CASE row.state = "open"
      <3>1. Visible(x) = x
        BY <2>3 DEF Visible
      <3>2. row = [state |-> row.state, draft |-> row.draft, armed |-> row.armed, head |-> row.head]
        BY <2>1 DEF PullRows
      <3>3. x = [of |-> x.of, row |-> row]
        BY DEF PullCopies
      <3> PICK full : full = [state |-> row.state, draft |-> row.draft, armed |-> row.armed, head |-> row.head]
        OBVIOUS
      <3>4. row = full
        BY <3>2
      <3>5. Shows(x) = [of |-> x.of, row |-> full]
        BY <2>3
      <3> QED
        BY <3>1, <3>3, <3>4, <3>5
    <2>4. CASE row.state # "open"
      <3> PICK plain : plain = [row EXCEPT !.armed = FALSE]
        OBVIOUS
      <3>1. Visible(x) = [x EXCEPT !.row = plain]
        BY <2>4 DEF Visible
      <3>2. plain = [state |-> row.state, draft |-> row.draft, armed |-> FALSE, head |-> row.head]
        BY <2>1 DEF PullRows
      <3>3. Visible(x) = [of |-> x.of, row |-> plain]
        BY <2>2, <3>1
      <3>4. Shows(x) = [of |-> x.of, row |-> plain]
        BY <2>4, <3>2
      <3> QED
        BY <3>3, <3>4
    <2> QED
      BY <2>3, <2>4
  <1>2. Visible(c) = Shows(c) /\ Visible(d) = Shows(d)
    BY <1>1
  <1>3. c.row \in PullRows /\ d.row \in PullRows
    BY DEF PullCopies
  <1>4. Shows(c) = Shows(d) <=>
          /\ c.of = d.of /\ c.row.state = d.row.state /\ c.row.draft = d.row.draft /\ c.row.head = d.row.head
          /\ c.row.state = "open" => c.row.armed = d.row.armed
    BY <1>3 DEF PullRows
  <1> QED
    BY <1>2, <1>4

\* What an action of a pull request makes of the row.
LEMMA RowsAfterTyped ==
  ASSUME NEW r \in PullRows, NEW what, Allowed(what, r), NEW s \in RowsAfter(what, r)
  PROVE  /\ s \in PullRows
         /\ what # "suggest" => s.head = r.head
         /\ what \notin ByHandKinds \cup {"suggest"} => s = r
  <1>1. r.head \in 0..MaxHead /\ (what = "suggest" => r.head + 1 \in 0..MaxHead)
    BY MovesBound DEF PullRows, Allowed
  <1>2. CASE what = "merge"
    BY <1>2 DEF RowsAfter, Merged, PullRows, ByHandKinds, Box
  <1>3. CASE what = "close"
    BY <1>3 DEF RowsAfter, PullRows, ByHandKinds, Box
  <1>4. CASE what = "ready"
    BY <1>4 DEF RowsAfter, PullRows, ByHandKinds, Box
  <1>5. CASE what = "arm"
    BY <1>5 DEF RowsAfter, Merged, PullRows, ByHandKinds, Box
  <1>6. CASE what = "disarm"
    BY <1>6 DEF RowsAfter, PullRows, ByHandKinds, Box
  <1>7. CASE what = "suggest"
    BY <1>1, <1>7 DEF RowsAfter, PullRows, ByHandKinds, Box
  <1>8. CASE what \notin {"merge", "close", "ready", "arm", "disarm", "suggest"}
    BY <1>8 DEF RowsAfter
  <1> QED
    BY <1>2, <1>3, <1>4, <1>5, <1>6, <1>7, <1>8

\* The page writes down what the server has done, if it had what the server had.
LEMMA ByHandIsRight ==
  ASSUME NEW a, NEW n \in Pulls, NEW r \in PullRows, NEW s \in RowsAfter(a.what, r), Allowed(a.what, r),
         a.what \in ByHandKinds, a.pc = "answered", a.with \in PullCopies, a.answer = [of |-> n, row |-> s],
         Visible(a.with) = Visible([of |-> n, row |-> r])
  PROVE  ByHand(a) \in PullCopies /\ Visible(ByHand(a)) = Visible([of |-> n, row |-> s])
  <1> PICK w, what : w = a.with.row /\ what = a.what
    OBVIOUS
  <1>1. w \in PullRows /\ a.with = [of |-> a.with.of, row |-> w] /\ a.with.of \in Pulls
    BY DEF PullCopies
  <1>2. [of |-> n, row |-> r] \in PullCopies
    BY DEF PullCopies
  <1>3. /\ a.with.of = n /\ w.state = r.state /\ w.draft = r.draft /\ w.head = r.head
        /\ w.state = "open" => w.armed = r.armed
    BY <1>1, <1>2, VisiblyEqual
  <1>4. s \in PullRows
    BY RowsAfterTyped
  <1> DEFINE new == CASE a.what = "merge" -> [a.with.row EXCEPT !.state = "merged"]
                      [] a.what = "close" -> [a.with.row EXCEPT !.state = "closed"]
                      [] a.what = "ready" -> [a.with.row EXCEPT !.draft = FALSE]
                      [] a.what = "arm" -> IF a.answer.row.state = "merged" THEN Merged(a.with.row) ELSE [a.with.row EXCEPT !.armed = TRUE]
                      [] a.what = "disarm" -> [a.with.row EXCEPT !.armed = FALSE]
  <1>5. ByHand(a) = [a.with EXCEPT !.row = new]
    BY DEF ByHand
  <1>6. /\ new \in PullRows /\ new.state = s.state /\ new.draft = s.draft /\ new.head = s.head
        /\ new.state = "open" => new.armed = s.armed
    <2>0. a.answer.row.state = s.state /\ a.pc # "refused"
      OBVIOUS
    <2>1. CASE what = "merge"
      BY <1>1, <1>3, <2>1 DEF RowsAfter, Merged, PullRows
    <2>2. CASE what = "close"
      BY <1>1, <1>3, <2>2 DEF RowsAfter, PullRows
    <2>3. CASE what = "ready"
      BY <1>1, <1>3, <2>3 DEF RowsAfter, PullRows, Allowed
    <2>4. CASE what = "arm"
      <3>1. r.state = "open"
        BY <2>4 DEF Allowed
      <3>2. s = [r EXCEPT !.armed = TRUE] \/ s = [r EXCEPT !.state = "merged", !.armed = FALSE]
        BY <2>4 DEF RowsAfter, Merged
      <3>3. new = IF s.state = "merged" THEN [w EXCEPT !.state = "merged", !.armed = FALSE] ELSE [w EXCEPT !.armed = TRUE]
        BY <2>0, <2>4 DEF Merged
      <3> HIDE DEF new
      <3>4. CASE s = [r EXCEPT !.armed = TRUE]
        <4>1. s.state = "open" /\ s.draft = r.draft /\ s.head = r.head /\ s.armed = TRUE
          BY <3>1, <3>4 DEF PullRows
        <4>2. new = [w EXCEPT !.armed = TRUE]
          BY <3>3, <4>1
        <4>3. w \in PullRows
          BY <1>1
        <4>4. new \in PullRows /\ new.state = w.state /\ new.draft = w.draft /\ new.head = w.head /\ new.armed = TRUE
          BY <4>2, <4>3 DEF PullRows
        <4> QED
          BY <1>3, <3>1, <4>1, <4>4
      <3>5. CASE s = [r EXCEPT !.state = "merged", !.armed = FALSE]
        <4>1. s.state = "merged" /\ s.draft = r.draft /\ s.head = r.head
          BY <3>5 DEF PullRows
        <4>2. new = [w EXCEPT !.state = "merged", !.armed = FALSE]
          BY <3>3, <4>1
        <4> QED
          BY <1>1, <1>3, <4>1, <4>2 DEF PullRows
      <3> QED
        BY <3>2, <3>4, <3>5
    <2>5. CASE what = "disarm"
      BY <1>1, <1>3, <2>5 DEF RowsAfter, PullRows
    <2> QED
      BY <2>1, <2>2, <2>3, <2>4, <2>5 DEF ByHandKinds, Box
  <1> HIDE DEF new
  <1> PICK row : row = new
    OBVIOUS
  <1>7. [of |-> n, row |-> row] \in PullCopies /\ [of |-> n, row |-> s] \in PullCopies
    BY <1>4, <1>6 DEF PullCopies
  <1>8. Visible([of |-> n, row |-> row]) = Visible([of |-> n, row |-> s])
    BY <1>6, <1>7, VisiblyEqual
  <1>9. \A y : [a.with EXCEPT !.row = y] = [of |-> n, row |-> y]
    BY <1>3 DEF PullCopies
  <1>10. ByHand(a) = [of |-> n, row |-> row]
    BY <1>5, <1>9
  <1> QED
    BY <1>7, <1>8, <1>10

\* A request is answered.
AnswersWith(q, w) == query' = [query EXCEPT ![q].pc = "answered", ![q].answer = w,
                                            ![q].after = AnsweredBefore(query, Overtaken(query[q].what))]

LEMMA QueryServed ==
  ASSUME PullPageInv, NEW q \in Requests, query[q].pc = "sent", NEW w \in PullCopies \cup {None},
         query[q].what \notin {"suggest", "review"} => w \in PullCopies,
         AnswersWith(q, w)
  PROVE  /\ query' \in [Requests -> QueryRecords] /\ QueriesWhole' /\ RowsOrdered'
         /\ Queried' = Queried /\ \A p \in Requests : query'[p].what = query[p].what /\ query'[p].to = query[p].to
         /\ \A p \in Requests \ {q} : query'[p] = query[p]
         /\ query'[q].pc = "answered" /\ query'[q].with = query[q].with /\ query'[q].answer = w
         /\ query[q].what \in RowKinds => query'[q].after = RowsOnTheirWay
         /\ RowsOnTheirWay' = IF query[q].what \in RowKinds THEN RowsOnTheirWay \cup {q} ELSE RowsOnTheirWay
  <1> PICK a, after : a = query[q] /\ after = AnsweredBefore(query, Overtaken(query[q].what))
    OBVIOUS
  <1>0. query \in [Requests -> QueryRecords] /\ a \in QueryRecords
    BY QueryTyped DEF PullPageInv
  <1>1. after \subseteq Requests /\ (a.what \in RowKinds => after = RowsOnTheirWay)
    <2>1. DOMAIN query = Requests
      BY <1>0
    <2>2. a.what \in RowKinds => Overtaken(a.what) = RowKinds
      BY DEF Overtaken, RowKinds, ByHandKinds, Box, PageLists
    <2> QED
      BY <2>1, <2>2 DEF AnsweredBefore, RowsOnTheirWay
  <1>4. query' = [query EXCEPT ![q].pc = "answered", ![q].answer = w, ![q].after = after]
    BY DEF AnswersWith
  <1>5. PICK b \in QueryRecords :
          /\ b.pc = "answered" /\ b.answer = w /\ b.after = after
          /\ b.what = a.what /\ b.to = a.to /\ b.with = a.with
          /\ b = [a EXCEPT !.pc = "answered", !.answer = w, !.after = after]
    BY <1>0, <1>1 DEF QueryRecords
  <1>6. query' = [query EXCEPT ![q] = b]
    BY <1>0, <1>4, <1>5
  <1>7. query' \in [Requests -> QueryRecords] /\ query'[q] = b /\ \A p \in Requests \ {q} : query'[p] = query[p]
    BY <1>0, <1>5, <1>6
  <1>8. \A p \in Requests : query'[p].what = query[p].what /\ query'[p].to = query[p].to /\ (p # q => query'[p].pc = query[p].pc)
    BY <1>5, <1>7
  <1>9. RowsOnTheirWay' = IF a.what \in RowKinds THEN RowsOnTheirWay \cup {q} ELSE RowsOnTheirWay
    <2>1. query'[q].pc = "answered" /\ query[q].pc = "sent" /\ query[q].what = a.what
      BY <1>5, <1>7
    <2> QED
      BY <1>8, <2>1 DEF RowsOnTheirWay
  <1>10. Queried' = Queried
    <2>1. query'[q].pc # "idle" /\ query[q].pc # "idle"
      BY <1>5, <1>7
    <2> QED
      BY <1>8, <2>1 DEF Queried
  <1>11. QueriesWhole'
    <2> SUFFICES ASSUME NEW p \in Requests
                 PROVE  /\ query'[p].pc # "idle" => query'[p].what \in QueryKinds /\ query'[p].to \in Pulls
                        /\ query'[p].pc # "idle" /\ query'[p].what \in ByHandKinds => query'[p].with \in PullCopies
                        /\ query'[p].pc = "answered" /\ query'[p].what \notin {"suggest", "review"} => query'[p].answer \in PullCopies
                        /\ query'[p].pc = "refused" => query'[p].what \notin {"load", "refresh"} \cup PageLists
      BY DEF QueriesWhole, PullCopies, PullRows, QueryKinds, RowKinds, ByHandKinds
    <2>1. CASE p = q
      <3>1. query'[p] = b /\ b.what = query[q].what /\ b.to = query[q].to /\ b.with = query[q].with
        BY <1>5, <1>7, <2>1
      <3>2. b.pc = "answered" /\ b.answer = w
        BY <1>5
      <3> QED
        BY <3>1, <3>2 DEF QueriesWhole, PullPageInv
    <2>2. CASE p # q
      BY <1>7, <2>2 DEF QueriesWhole, PullPageInv
    <2> QED
      BY <2>1, <2>2
  <1>12. RowsOrdered'
    <2>0. q \notin RowsOnTheirWay /\ RowsOnTheirWay \subseteq Requests
      BY DEF RowsOnTheirWay
    <2>1. \A p \in RowsOnTheirWay' : query'[p].after \subseteq RowsOnTheirWay' \ {p}
      <3>1. RowsOnTheirWay \subseteq RowsOnTheirWay' /\ (a.what \in RowKinds => query'[q].after = RowsOnTheirWay)
        BY <1>1, <1>5, <1>7, <1>9
      <3>2. \A p \in RowsOnTheirWay : query'[p].after \subseteq RowsOnTheirWay \ {p}
        BY <1>7, <2>0 DEF RowsOrdered, PullPageInv
      <3> QED
        BY <1>9, <2>0, <3>1, <3>2
    <2>2. ASSUME NEW p \in RowsOnTheirWay', NEW r \in RowsOnTheirWay', p # r
          PROVE  p \in query'[r].after <=> r \notin query'[p].after
      <3>1. CASE p = q
        BY <1>1, <1>5, <1>7, <1>9, <2>0, <2>2, <3>1 DEF RowsOrdered, PullPageInv
      <3>2. CASE r = q
        BY <1>1, <1>5, <1>7, <1>9, <2>0, <2>2, <3>2 DEF RowsOrdered, PullPageInv
      <3>3. CASE p # q /\ r # q
        BY <1>7, <1>9, <2>0, <2>2, <3>3 DEF RowsOrdered, PullPageInv
      <3> QED
        BY <3>1, <3>2, <3>3
    <2> QED
      BY <2>1, <2>2 DEF RowsOrdered
  <1> QED
    BY <1>1, <1>5, <1>7, <1>8, <1>9, <1>10, <1>11, <1>12

\* A request is refused.
LEMMA QueryRefused ==
  ASSUME PullPageInv, NEW q \in Requests, query[q].pc = "sent", query[q].what \notin {"load", "refresh"} \cup PageLists,
         query' = [query EXCEPT ![q].pc = "refused"]
  PROVE  /\ query' \in [Requests -> QueryRecords] /\ QueriesWhole' /\ RowsOrdered'
         /\ Queried' = Queried /\ \A p \in Requests : query'[p].what = query[p].what /\ query'[p].to = query[p].to
         /\ \A p \in Requests \ {q} : query'[p] = query[p]
         /\ query'[q].pc = "refused" /\ RowsOnTheirWay' = RowsOnTheirWay
  <1> PICK a : a = query[q]
    OBVIOUS
  <1>0. query \in [Requests -> QueryRecords] /\ a \in QueryRecords
    BY QueryTyped DEF PullPageInv
  <1>5. PICK b \in QueryRecords :
          /\ b.pc = "refused" /\ b.what = a.what /\ b.to = a.to /\ b.with = a.with
          /\ b = [a EXCEPT !.pc = "refused"]
    BY <1>0 DEF QueryRecords
  <1>6. query' = [query EXCEPT ![q] = b]
    BY <1>0, <1>5
  <1>7. query' \in [Requests -> QueryRecords] /\ query'[q] = b /\ \A p \in Requests \ {q} : query'[p] = query[p]
    BY <1>0, <1>5, <1>6
  <1>8. \A p \in Requests : query'[p].what = query[p].what /\ query'[p].to = query[p].to /\ (p # q => query'[p].pc = query[p].pc)
    BY <1>5, <1>7
  <1>9. RowsOnTheirWay' = RowsOnTheirWay /\ \A p \in RowsOnTheirWay : query'[p] = query[p]
    <2>1. query'[q].pc = "refused" /\ query[q].pc = "sent"
      BY <1>5, <1>7
    <2> QED
      BY <1>7, <1>8, <2>1 DEF RowsOnTheirWay
  <1>10. Queried' = Queried
    <2>1. query'[q].pc # "idle" /\ query[q].pc # "idle"
      BY <1>5, <1>7
    <2> QED
      BY <1>8, <2>1 DEF Queried
  <1>11. QueriesWhole'
    <2> SUFFICES ASSUME NEW p \in Requests
                 PROVE  /\ query'[p].pc # "idle" => query'[p].what \in QueryKinds /\ query'[p].to \in Pulls
                        /\ query'[p].pc # "idle" /\ query'[p].what \in ByHandKinds => query'[p].with \in PullCopies
                        /\ query'[p].pc = "answered" /\ query'[p].what \notin {"suggest", "review"} => query'[p].answer \in PullCopies
                        /\ query'[p].pc = "refused" => query'[p].what \notin {"load", "refresh"} \cup PageLists
      BY DEF QueriesWhole, PullCopies, PullRows, QueryKinds, RowKinds, ByHandKinds
    <2>1. CASE p = q
      <3>1. query'[p] = b /\ b.what = query[q].what /\ b.to = query[q].to /\ b.with = query[q].with /\ b.pc = "refused"
        BY <1>5, <1>7, <2>1
      <3> QED
        BY <3>1 DEF QueriesWhole, PullPageInv
    <2>2. CASE p # q
      BY <1>7, <2>2 DEF QueriesWhole, PullPageInv
    <2> QED
      BY <2>1, <2>2
  <1>12. RowsOrdered'
    BY <1>9 DEF RowsOrdered, PullPageInv
  <1> QED
    BY <1>5, <1>7, <1>8, <1>9, <1>10, <1>11, <1>12

\* One more change by hand is on its way: what was late or stale stays so.
LEMMA OneMoreByHand ==
  ASSUME RowsOrdered, NEW n, NEW q \in Requests, q \notin RowsOnTheirWay, RowsFor(n)' = RowsFor(n) \cup {q},
         \A p \in RowsFor(n) : query'[p] = query[p], pr' = pr, query'[q].what \in ByHandKinds
  PROVE  /\ LateRow(n) => LateRow(n)'
         /\ StaleClick(n) => StaleClick(n)'
         /\ \A S, v : S \subseteq RowsFor(n) => (RowsLeave(S, v)' <=> RowsLeave(S, v))
  <1>1. LateRow(n) => LateRow(n)'
    BY DEF LateRow
  <1> PICK F : F = RowsFor(n)
    OBVIOUS
  <1>0. F \subseteq RowsOnTheirWay /\ q \notin F
    BY DEF RowsFor
  <1>3. \A p \in F : query'[p] = query[p] /\ RowOf(p)' = RowOf(p)
    BY DEF RowOf
  <1>4. ASSUME NEW S, S \subseteq F, NEW v PROVE RowsLeave(S, v)' <=> RowsLeave(S, v)
    <2>1. ASSUME NEW p \in S PROVE LastRow(p, S)' <=> LastRow(p, S)
      BY <1>3, <1>4 DEF LastRow
    <2> QED
      BY <1>3, <1>4, <2>1 DEF RowsLeave
  <1>5. StaleClick(n) => StaleClick(n)'
    <2> SUFFICES ASSUME NEW x \in RowsFor(n), query[x].what \in ByHandKinds, ~RowsLeave(RowsBefore(x), query[x].with), NoneReadAfter(x, n)
                 PROVE  StaleClick(n)'
      BY DEF StaleClick
    <2>1. query'[x] = query[x] /\ query[x].to = n /\ x \in RowsFor(n)' /\ q \notin query[x].after
      BY <1>0, <1>3 DEF RowsFor, RowsOrdered
    <2>2. RowsBefore(x)' = RowsBefore(x) /\ RowsBefore(x) \subseteq F
      BY <2>1 DEF RowsBefore
    <2>3. NoneReadAfter(x, n)'
      BY <1>3, <2>1 DEF NoneReadAfter
    <2> PICK S, v : S = RowsBefore(x) /\ v = query[x].with
      OBVIOUS
    <2>4. ~RowsLeave(S, v)'
      BY <1>4, <2>2
    <2>5. ~RowsLeave(RowsBefore(x), query[x].with)'
      BY <2>1, <2>2, <2>4 DEF RowsLeave
    <2> QED
      BY <2>1, <2>3, <2>5 DEF StaleClick
  <1> QED
    BY <1>1, <1>4, <1>5

\* The server gives the last answer there is: the row as it is then, or a change by hand of a right copy.
LEMMA ServingKeepsRow ==
  ASSUME PullPageInv, NEW q \in Requests, query[q].pc = "sent", NEW m \in Pulls, m = query[q].to,
         NEW what, what = query[q].what, NEW r \in RowsAfter(what, pull[m]), Allowed(what, pull[m]),
         pull' = [pull EXCEPT ![m] = r],
         NEW w, w = IF what \in {"suggest", "review"} THEN None ELSE [of |-> m, row |-> r],
         AnswersWith(q, w),
         aside' = IF what \in {"load", "refresh"} THEN aside \ {m} ELSE aside,
         UNCHANGED <<pullAt, pr, muddled>>
  PROVE  RowWillBeRight'
  <1> PICK n : n = pullAt
    OBVIOUS
  <1>0. /\ n \in Pulls /\ pull \in [Pulls -> PullRows] /\ what \in QueryKinds /\ RowsOrdered /\ RowWillBeRight /\ RowRightFor(n)
        /\ pr \in PullCopies \cup {None}
    BY DEF PullPageInv, PullPageTypeOK, QueriesWhole, RowWillBeRight
  <1>1. r \in PullRows /\ (what \notin ByHandKinds \cup {"suggest"} => r = pull[m])
    BY <1>0, RowsAfterTyped
  <1>2. w \in PullCopies \cup {None} /\ (what \notin {"suggest", "review"} => w \in PullCopies)
    BY <1>1 DEF PullCopies
  <1>3. /\ Queried' = Queried /\ \A p \in Requests : query'[p].what = query[p].what /\ query'[p].to = query[p].to
        /\ \A p \in Requests \ {q} : query'[p] = query[p]
        /\ query'[q].pc = "answered" /\ query'[q].with = query[q].with /\ query'[q].answer = w
        /\ what \in RowKinds => query'[q].after = RowsOnTheirWay
        /\ RowsOnTheirWay' = IF what \in RowKinds THEN RowsOnTheirWay \cup {q} ELSE RowsOnTheirWay
    BY <1>2, QueryServed
  <1>4. q \notin RowsOnTheirWay /\ q \notin RowsFor(n) /\ RowsFor(n) \subseteq RowsOnTheirWay /\ RowsOnTheirWay \subseteq Requests /\ q \in Queried
    BY DEF RowsOnTheirWay, RowsFor, Queried
  <1>5. \A p \in RowsFor(n) : query'[p] = query[p]
    BY <1>3, <1>4
  <1>6. CASE m # n \/ what \in PageLists
    <2>1. RowsFor(n)' = RowsFor(n)
      <3>1. what \in PageLists => what \notin RowKinds
        BY DEF PageLists, RowKinds, ByHandKinds, Box
      <3> QED
        BY <1>3, <1>4, <1>6, <3>1 DEF RowsFor
    <2>2. pull'[n] = pull[n]
      <3>1. what \in PageLists => what \notin ByHandKinds \cup {"suggest"}
        BY DEF PageLists, ByHandKinds, Box
      <3> QED
        BY <1>0, <1>1, <1>6, <3>1
    <2>3. RowToBeRead(n) => RowToBeRead(n)'
      <3> SUFFICES ASSUME NEW x \in Requests, query[x].to = n,
                          \/ query[x].pc = "sent" /\ query[x].what \in {"load", "refresh"}
                          \/ query[x].pc = "answered" /\ query[x].what \in {"suggest", "review"}
                   PROVE  RowToBeRead(n)'
        BY DEF RowToBeRead
      <3>1. x # q
        BY <1>6 DEF PageLists
      <3> QED
        BY <1>3, <3>1 DEF RowToBeRead
    <2>4. n \notin aside' => n \notin aside
      BY <1>6 DEF PageLists
    <2> QED
      BY <1>0, <1>4, <1>5, <2>1, <2>2, <2>3, <2>4, RowRightAsBefore
  <1>7. CASE m = n /\ what \in {"suggest", "review"}
    <2>1. RowToBeRead(n)'
      BY <1>3, <1>7 DEF RowToBeRead
    <2> QED
      BY <2>1 DEF RowRightFor, RowWillBeRight
  <1> SUFFICES ASSUME m = n, what \in RowKinds PROVE RowWillBeRight'
    BY <1>0, <1>6, <1>7 DEF QueryKinds
  <1>8. RowsFor(n)' = RowsFor(n) \cup {q} /\ LastRow(q, RowsFor(n))'
    <2>1. RowsFor(n)' = RowsFor(n) \cup {q}
      BY <1>3, <1>4 DEF RowsFor
    <2> QED
      BY <1>3, <1>4, <2>1 DEF LastRow
  <1>9. PullCopy(n)' = [of |-> n, row |-> r] /\ w = [of |-> n, row |-> r] /\ w \in PullCopies
    <2>1. pull'[n] = r
      BY <1>0
    <2>2. what \notin {"suggest", "review"}
      BY DEF RowKinds, ByHandKinds, Box
    <2> QED
      BY <1>2, <2>1, <2>2 DEF PullCopy
  <1>10. \A v : v \in PullCopies => v \in PullCopies'
    BY DEF PullCopies, PullRows
  <1>11. ASSUME NEW v \in PullCopies, RowOf(q)' = v, Visible(v) = Visible(w) PROVE RowComesRight(n)'
    <2>1. RowsLeave(RowsFor(n), v)'
      BY <1>8, <1>11 DEF RowsLeave
    <2>2. (Visible(v) = Visible(PullCopy(n)))'
      BY <1>9, <1>11 DEF Visible
    <2> QED
      BY <1>10, <2>1, <2>2 DEF RowComesRight
  <1>12. CASE what \notin ByHandKinds
    <2>1. RowOf(q)' = w
      BY <1>3, <1>12 DEF RowOf
    <2>2. RowComesRight(n)'
      BY <1>9, <1>11, <2>1
    <2> QED
      BY <2>2 DEF RowRightFor, RowWillBeRight
  <1>13. CASE what \in ByHandKinds
    <2>0. what \notin {"load", "refresh", "suggest", "review"}
      BY <1>13 DEF ByHandKinds, Box
    <2>1. RowToBeRead(n) => RowToBeRead(n)'
      <3> SUFFICES ASSUME NEW x \in Requests, query[x].to = n,
                          \/ query[x].pc = "sent" /\ query[x].what \in {"load", "refresh"}
                          \/ query[x].pc = "answered" /\ query[x].what \in {"suggest", "review"}
                   PROVE  RowToBeRead(n)'
        BY DEF RowToBeRead
      <3>1. x # q
        BY <2>0
      <3> QED
        BY <1>3, <3>1 DEF RowToBeRead
    <2>2. /\ LateRow(n) => LateRow(n)'
          /\ StaleClick(n) => StaleClick(n)'
          /\ \A S, v : S \subseteq RowsFor(n) => (RowsLeave(S, v)' <=> RowsLeave(S, v))
      BY <1>0, <1>3, <1>4, <1>5, <1>8, <1>13, OneMoreByHand
    <2>3. RowComesRight(n) => StaleClick(n)' \/ RowComesRight(n)'
      <3> SUFFICES ASSUME NEW u \in PullCopies, RowsLeave(RowsFor(n), u), Visible(u) = Visible(PullCopy(n))
                   PROVE  StaleClick(n)' \/ RowComesRight(n)'
        BY DEF RowComesRight
      <3> PICK F, with : F = RowsFor(n) /\ with = query[q].with
        OBVIOUS
      <3>1. CASE RowsLeave(F, with)
        <4>1. with = u
          BY <1>0, <1>4, <3>1, RowsLeaveOne
        <4> PICK b : b = query'[q]
          OBVIOUS
        <4>2. b.what = what /\ b.pc = "answered" /\ b.with = with /\ b.answer = [of |-> n, row |-> r]
          BY <1>3, <1>9
        <4>3. Visible(b.with) = Visible([of |-> n, row |-> pull[n]])
          BY <4>1, <4>2 DEF PullCopy
        <4>4. ByHand(b) \in PullCopies /\ Visible(ByHand(b)) = Visible([of |-> n, row |-> r])
          <5>1. pull[n] \in PullRows /\ r \in RowsAfter(b.what, pull[n]) /\ Allowed(b.what, pull[n]) /\ b.what \in ByHandKinds
                /\ b.with \in PullCopies
            BY <1>0, <1>13, <4>1, <4>2
          <5> PICK old : old = pull[n]
            OBVIOUS
          <5>2. Visible(b.with) = Visible([of |-> n, row |-> old]) /\ b.pc = "answered" /\ b.answer = [of |-> n, row |-> r]
            BY <4>2, <4>3
          <5>3. n \in Pulls /\ old \in PullRows /\ r \in RowsAfter(b.what, old) /\ Allowed(b.what, old) /\ b.what \in ByHandKinds
                /\ b.with \in PullCopies
            BY <1>0, <5>1
          <5> QED
            BY <5>2, <5>3, ByHandIsRight
        <4>5. RowOf(q)' = ByHand(b)
          <5>1. query'[q].what \in ByHandKinds
            BY <1>3, <1>13
          <5> QED
            BY <5>1 DEF RowOf
        <4>6. Visible(ByHand(b)) = Visible(w)
          BY <1>9, <4>4
        <4> QED
          BY <1>11, <4>4, <4>5, <4>6
      <3>2. CASE ~RowsLeave(F, with)
        <4>1. ~RowsLeave(F, with)'
          BY <2>2, <3>2
        <4>2. RowsBefore(q)' = F
          <5>1. query'[q].to = n /\ query'[q].after = RowsOnTheirWay /\ F \subseteq RowsOnTheirWay /\ q \notin RowsOnTheirWay
            BY <1>3, <1>4
          <5>2. RowsFor(n)' = F \cup {q}
            BY <1>8
          <5> QED
            BY <5>1, <5>2 DEF RowsBefore
        <4>3. ~RowsLeave(RowsBefore(q), query[q].with)'
          BY <1>3, <4>1, <4>2 DEF RowsLeave
        <4>4. NoneReadAfter(q, n)'
          BY <1>3, <1>4, <1>8, <1>13 DEF NoneReadAfter
        <4> QED
          BY <1>3, <1>8, <1>13, <4>3, <4>4 DEF StaleClick
      <3> QED
        BY <3>1, <3>2
    <2>4. n \notin aside' => n \notin aside
      BY <2>0
    <2>5. ~(pr = None /\ Queried = {})
      BY <1>4
    <2> QED
      BY <1>0, <2>1, <2>2, <2>3, <2>4, <2>5 DEF RowRightFor, RowWillBeRight
  <1> QED
    BY <1>12, <1>13

LEMMA ByHandTyped ==
  ASSUME NEW a, a.what \in ByHandKinds, a.with \in PullCopies
  PROVE  ByHand(a) \in PullCopies
  <1> DEFINE new == CASE a.what = "merge" -> [a.with.row EXCEPT !.state = "merged"]
                      [] a.what = "close" -> [a.with.row EXCEPT !.state = "closed"]
                      [] a.what = "ready" -> [a.with.row EXCEPT !.draft = FALSE]
                      [] a.what = "arm" -> IF a.answer.row.state = "merged" THEN Merged(a.with.row) ELSE [a.with.row EXCEPT !.armed = TRUE]
                      [] a.what = "disarm" -> [a.with.row EXCEPT !.armed = FALSE]
  <1>1. ByHand(a) = IF a.pc = "refused" THEN a.with ELSE [a.with EXCEPT !.row = new]
    BY DEF ByHand
  <1> PICK w : w = a.with.row
    OBVIOUS
  <1>2. w \in PullRows
    BY DEF PullCopies
  <1>3. new \in PullRows
    <2>1. a.what \in {"merge", "close", "ready", "arm", "disarm"}
      BY DEF ByHandKinds, Box
    <2>2. \A b \in {"merged", "closed"} : [w EXCEPT !.state = b] \in PullRows
      BY <1>2 DEF PullRows
    <2>3. \A b \in BOOLEAN : [w EXCEPT !.draft = b] \in PullRows /\ [w EXCEPT !.armed = b] \in PullRows
      BY <1>2 DEF PullRows
    <2>4. Merged(w) \in PullRows
      BY <1>2 DEF PullRows, Merged
    <2> QED
      BY <2>1, <2>2, <2>3, <2>4
  <1> HIDE DEF new
  <1> QED
    BY <1>1, <1>3 DEF PullCopies

\* The copy comes right if nothing happens to its row but what the rows on their way foresee.
LEMMA RowStaysRight ==
  ASSUME RowWillBeRight, NEW n \in Pulls, n = pullAt, pullAt' = pullAt, pull'[n] = pull[n],
         ~muddled' /\ n \notin aside' =>
           /\ ~muddled /\ n \notin aside /\ ~(pr = None /\ Queried = {})
           /\ RowToBeRead(n) => RowToBeRead(n)'
           /\ \/ RowToBeRead(n)'
              \/ /\ LateRow(n) => LateRow(n)'
                 /\ StaleClick(n) => LateRow(n)' \/ StaleClick(n)'
                 /\ \A v : RowsLeave(RowsFor(n), v) => LateRow(n)' \/ RowsLeave(RowsFor(n), v)'
  PROVE  RowWillBeRight'
  <1> SUFFICES ASSUME ~muddled', n \notin aside' PROVE RowToBeRead(n)' \/ LateRow(n)' \/ StaleClick(n)' \/ RowComesRight(n)'
    BY DEF RowWillBeRight, RowRightFor
  <1>1. RowToBeRead(n) \/ LateRow(n) \/ StaleClick(n) \/ RowComesRight(n)
    BY DEF RowWillBeRight, RowRightFor
  <1>2. RowComesRight(n) => RowToBeRead(n)' \/ LateRow(n)' \/ RowComesRight(n)'
    <2>1. PullCopy(n)' = PullCopy(n)
      BY DEF PullCopy
    <2>2. ASSUME NEW v \in PullCopies, RowsLeave(RowsFor(n), v), Visible(v) = Visible(PullCopy(n))
          PROVE  RowToBeRead(n)' \/ LateRow(n)' \/ RowComesRight(n)'
      <3>1. v \in PullCopies'
        BY DEF PullCopies, PullRows
      <3>2. (Visible(v) = Visible(PullCopy(n)))'
        BY <2>1, <2>2 DEF Visible
      <3> QED
        BY <2>2, <3>1, <3>2 DEF RowComesRight
    <2> QED
      BY <2>2 DEF RowComesRight
  <1> QED
    BY <1>1, <1>2

\* A load that is on its way to the address: the row will be read.
LEMMA LoadIsThere ==
  ASSUME PullPageInv, NEW n, n = pullAt, NEW a, a.to # n, a.what \notin PageLists, ~Astray(a)
  PROVE  \E p \in Requests : query[p].what = "load" /\ query[p].to = n /\ query[p].pc \in {"sent", "answered"}
  <1>1. PICK p \in Queried : query[p].to = n /\ query[p].what = "load"
    BY DEF Astray
  <1>2. p \in Requests /\ query[p].pc # "idle" /\ query[p] \in QueryRecords
    BY QueryTyped DEF Queried, PullPageInv
  <1>3. query[p].pc # "refused"
    BY <1>1, <1>2 DEF QueriesWhole, PullPageInv
  <1> QED
    BY <1>1, <1>2, <1>3 DEF QueryRecords

\* An answer or a loss: what the others on their way foresee.
LEMMA ComingKeepsRow ==
  ASSUME PullPageInv, NEW q \in Requests, query[q].pc # "idle", query' = Come(query, q, Silent),
         UNCHANGED <<pull, pullAt>>, muddled => muddled', aside \subseteq aside',
         \/ /\ q \in RowsOnTheirWay /\ pr' = RowOf(q)
            /\ ~muddled' => ~query[q].late /\ (query[q].what \in ByHandKinds => query[q].with = pr) /\ ~Astray(query[q])
         \/ /\ pr' = pr
            /\ pullAt \notin aside' /\ query[q].to = pullAt =>
                 /\ q \notin RowsFor(pullAt)
                 /\ query[q].pc = "sent" => query[q].what # "refresh" /\ (query[q].what = "load" => muddled')
                 /\ query[q].pc = "answered" => query[q].what \notin {"suggest", "review"}
  PROVE  RowWillBeRight'
  <1> PICK n : n = pullAt
    OBVIOUS
  <1>0. n \in Pulls /\ RowWillBeRight /\ pull'[n] = pull[n] /\ q \in Queried /\ muddled \in BOOLEAN /\ muddled' = muddled'
    BY DEF PullPageInv, PullPageTypeOK, Queried
  <1> SUFFICES ASSUME ~muddled', n \notin aside'
               PROVE  /\ RowToBeRead(n) => RowToBeRead(n)'
                      /\ \/ RowToBeRead(n)'
                         \/ /\ LateRow(n) => LateRow(n)'
                            /\ StaleClick(n) => LateRow(n)' \/ StaleClick(n)'
                            /\ \A v : RowsLeave(RowsFor(n), v) => LateRow(n)' \/ RowsLeave(RowsFor(n), v)'
    BY <1>0, RowStaysRight
  <1>1. \A p \in Requests \ {q} : query'[p].pc = query[p].pc /\ query'[p].what = query[p].what /\ query'[p].to = query[p].to
    BY QueryComes DEF PullPageInv
  <1>2. ASSUME NEW x \in Requests \ {q}, query[x].to = n,
               \/ query[x].pc = "sent" /\ query[x].what \in {"load", "refresh"}
               \/ query[x].pc = "answered" /\ query[x].what \in {"suggest", "review"}
        PROVE  RowToBeRead(n)'
    BY <1>1, <1>2 DEF RowToBeRead
  <1>3. CASE q \in RowsOnTheirWay /\ pr' = RowOf(q) /\ ~query[q].late /\ (query[q].what \in ByHandKinds => query[q].with = pr)
             /\ ~Astray(query[q])
    <2>1. query[q].pc = "answered" /\ query[q].what \in RowKinds /\ query[q].what \notin {"suggest", "review"} \cup PageLists
      BY <1>3 DEF RowsOnTheirWay, RowKinds, ByHandKinds, Box, PageLists
    <2>2. RowToBeRead(n) => RowToBeRead(n)'
      BY <1>2, <2>1 DEF RowToBeRead
    <2>3. CASE query[q].to = n
      <3>1. q \in RowsFor(n)
        BY <1>3, <2>3 DEF RowsFor
      <3> QED
        BY <1>3, <2>2, <3>1, OwnRowKeeps
    <2>4. CASE query[q].to # n
      <3> PICK a : a = query[q]
        OBVIOUS
      <3>1. PICK p \in Requests : query[p].what = "load" /\ query[p].to = n /\ query[p].pc \in {"sent", "answered"}
        <4>1. a.to # n /\ a.what \notin PageLists /\ ~Astray(a)
          BY <1>3, <2>1, <2>4
        <4> QED
          BY <4>1, LoadIsThere
      <3>2. p # q /\ q \notin RowsFor(n)
        BY <2>4, <3>1 DEF RowsFor
      <3>3. CASE query[p].pc = "sent"
        BY <1>2, <2>2, <3>1, <3>2, <3>3
      <3>4. CASE query[p].pc = "answered"
        <4>1. p \in RowsFor(n) /\ query[p].what \notin ByHandKinds
          BY <3>1, <3>4 DEF RowsFor, RowsOnTheirWay, RowKinds, ByHandKinds, Box
        <4> QED
          BY <2>2, <3>2, <4>1, ForeignRowKeeps
      <3> QED
        BY <3>1, <3>3, <3>4
    <2> QED
      BY <2>3, <2>4
  <1>4. CASE /\ pr' = pr
             /\ query[q].to = n =>
                  /\ q \notin RowsFor(n)
                  /\ query[q].pc = "sent" => query[q].what \notin {"load", "refresh"}
                  /\ query[q].pc = "answered" => query[q].what \notin {"suggest", "review"}
    <2>1. q \notin RowsFor(n)
      BY <1>4 DEF RowsFor
    <2>2. RowToBeRead(n) => RowToBeRead(n)'
      BY <1>2, <1>4 DEF RowToBeRead
    <2> QED
      BY <1>4, <2>1, <2>2, ForeignRowKeeps
  <1> QED
    BY <1>3, <1>4

\* The parts of what is known of the lists.
AnswersOfHead(l) == \A q \in Requests :
  query[q].pc = "answered" /\ query[q].what = l /\ query[q].to = pullAt => query[q].answer.row.head = pull[pullAt].head
ListKnown(l) == AnswersOfHead(l) /\ (ListComes(l) \/ ListInPlace(l))

LEMMA ListsAreKnown == ListsWillBeRight <=> \A l \in PageLists \ outdated : ListKnown(l)
  BY DEF ListsWillBeRight, ListKnown, AnswersOfHead, Queried

\* What leaves a list as well known as it was.
LEMMA ListStaysKnown ==
  ASSUME NEW l, ListKnown(l), pullAt' = pullAt, pull'[pullAt].head = pull[pullAt].head,
         \A p \in Requests : query'[p].pc = "answered" /\ query'[p].what = l /\ query'[p].to = pullAt =>
            \/ query[p].pc = "answered" /\ query[p].what = l /\ query[p].to = pullAt /\ query'[p].answer = query[p].answer
            \/ query'[p].answer.row.head = pull[pullAt].head,
         \/ l \in owed'
         \/ \E p \in Queried' : query'[p].what = l /\ query'[p].to = pullAt
         \/ /\ list'[l] = list[l] /\ (l \in owed => l \in owed') /\ (pr = None => pr' = None)
            /\ \A p \in Queried : query[p].what = l /\ query[p].to = pullAt =>
                 \E r \in Queried' : query'[r].what = l /\ query'[r].to = pullAt
  PROVE  ListKnown(l)'
  <1>1. AnswersOfHead(l)'
    BY DEF ListKnown, AnswersOfHead
  <1>2. ListComes(l)' \/ ListInPlace(l)'
    <2>1. CASE l \in owed' \/ \E p \in Queried' : query'[p].what = l /\ query'[p].to = pullAt
      BY <2>1 DEF ListComes
    <2>2. CASE /\ list'[l] = list[l] /\ (l \in owed => l \in owed') /\ (pr = None => pr' = None)
               /\ \A p \in Queried : query[p].what = l /\ query[p].to = pullAt =>
                    \E r \in Queried' : query'[r].what = l /\ query'[r].to = pullAt
      <3>1. CASE ListInPlace(l)
        BY <2>2, <3>1 DEF ListInPlace
      <3>2. CASE ListComes(l)
        BY <2>2, <3>2 DEF ListComes
      <3> QED
        BY <3>1, <3>2 DEF ListKnown
    <2> QED
      BY <2>1, <2>2
  <1> QED
    BY <1>1, <1>2 DEF ListKnown

\* Something is done to a row, and a push puts the lists of the old head out of date.
LEMMA RowsMove ==
  ASSUME PullPageInv, NEW m \in Pulls, NEW r \in PullRows, pull' = [pull EXCEPT ![m] = r], pullAt' = pullAt,
         outdated' = (IF r.head # pull[m].head THEN outdated \cup Outdating(m) ELSE outdated),
         list' = list, owed' = owed, pr' = pr,
         Queried' = Queried, \A p \in Requests : query'[p].what = query[p].what /\ query'[p].to = query[p].to,
         \A p \in Requests : query'[p] = query[p] \/
           (query[p].what \in PageLists /\ query[p].to = pullAt =>
              query'[p].answer.row.head = pull'[pullAt].head /\ r.head = pull[m].head)
  PROVE  ListsWillBeRight' /\ outdated' \subseteq PageLists
  <1>0. pull \in [Pulls -> PullRows] /\ pullAt \in Pulls /\ outdated \subseteq PageLists /\ Queried \subseteq Requests
    BY DEF PullPageInv, PullPageTypeOK, Queried
  <1>1. outdated' \subseteq PageLists
    BY <1>0 DEF Outdating
  <1> SUFFICES ASSUME NEW l \in PageLists \ outdated' PROVE ListKnown(l)'
    BY <1>1 DEF ListsWillBeRight, ListKnown, AnswersOfHead, Queried
  <1>2. l \notin outdated /\ ListKnown(l)
    <2>1. l \notin outdated
      OBVIOUS
    <2> QED
      BY <2>1, ListsAreKnown DEF PullPageInv
  <1>3. pull'[pullAt] = IF m = pullAt THEN r ELSE pull[pullAt]
    BY <1>0
  <1>4. CASE pull'[pullAt].head = pull[pullAt].head
    <2>1. ASSUME NEW p \in Requests, query'[p].pc = "answered", query'[p].what = l, query'[p].to = pullAt
          PROVE  \/ query[p].pc = "answered" /\ query[p].what = l /\ query[p].to = pullAt /\ query'[p].answer = query[p].answer
                 \/ query'[p].answer.row.head = pull[pullAt].head
      <3>1. CASE query'[p] # query[p]
        BY <1>4, <2>1, <3>1
      <3>2. CASE query'[p] = query[p]
        BY <2>1, <3>2
      <3> QED
        BY <3>1, <3>2
    <2>2. \A p \in Queried : query[p].what = l /\ query[p].to = pullAt =>
            \E x \in Queried' : query'[x].what = l /\ query'[x].to = pullAt
      BY <1>0
    <2> QED
      BY <1>2, <1>4, <2>1, <2>2, ListStaysKnown
  <1>5. CASE pull'[pullAt].head # pull[pullAt].head
    <2>1. m = pullAt /\ r.head # pull[m].head
      BY <1>3, <1>5
    <2>2. list[l] = None /\ ~OnTheWay(l)
      BY <2>1 DEF Outdating
    <2>3. AnswersOfHead(l)'
      <3> SUFFICES ASSUME NEW p \in Requests, query'[p].pc = "answered", query'[p].what = l, query'[p].to = pullAt
                   PROVE  FALSE
        BY DEF AnswersOfHead
      <3>1. query'[p] = query[p]
        BY <2>1
      <3> QED
        BY <2>2, <3>1 DEF OnTheWay, Queried
    <2>4. ListComes(l)
      <3>1. [of |-> pullAt, head |-> pull[pullAt].head] \in [of: Pulls, head: 0..MaxHead]
        BY <1>0 DEF PullRows
      <3>2. ~ListInPlace(l)
        BY <2>2, <3>1, NoneIsNoCopy DEF ListInPlace
      <3> QED
        BY <1>2, <3>2 DEF ListKnown
    <2>5. ListComes(l)'
      BY <1>0, <2>4 DEF ListComes
    <2> QED
      BY <2>3, <2>5 DEF ListKnown
  <1> QED
    BY <1>4, <1>5

LEMMA PullPageInvParts ==
  ASSUME RestTyped', BoxWaits', query' \in [Requests -> QueryRecords],
         QueriesWhole', NothingReadYet', RowsOrdered', RowWillBeRight', ListsWillBeRight'
  PROVE  PullPageInv'
  <1>1. QueryKinds \cup {None} = Box \cup PageLists \cup {None, "load", "refresh", "ready", "suggest", "review"}
    BY DEF QueryKinds, RowKinds, ByHandKinds
  <1>2. (box \subseteq {q \in Queried : query[q].what \in Box \cup {"ready"}})'
    BY DEF BoxWaits, Queried, ByHandKinds
  <1>3. (box # {} => tab = "conversation" /\ ~prLoading)'
    BY DEF BoxWaits
  <1>4. PullPageTypeOK'
    BY <1>1, <1>2, <1>3 DEF PullPageTypeOK, RestTyped, QueryRecords, PullCopies, PullRows
  <1> QED
    BY <1>4 DEF PullPageInv

LEMMA PullParts ==
  ASSUME PullPageInv
  PROVE  /\ PullPageTypeOK /\ RestTyped /\ BoxWaits /\ query \in [Requests -> QueryRecords]
         /\ QueriesWhole /\ NothingReadYet /\ RowsOrdered /\ RowWillBeRight /\ ListsWillBeRight
         /\ \A l \in PageLists \ outdated : ListKnown(l)
  BY PullTypes, ListsAreKnown DEF PullPageInv

LEMMA SendsHere ==
  ASSUME PullPageInv, NEW q \in Requests, query[q].pc = "idle", NEW what \in QueryKinds,
         query' = [query EXCEPT ![q] = Query(what)], what \in ByHandKinds => pr \in PullCopies
  PROVE  /\ query' \in [Requests -> QueryRecords] /\ QueriesWhole' /\ RowsOrdered'
         /\ RowsOnTheirWay' = RowsOnTheirWay
         /\ query'[q].pc = "sent" /\ query'[q].what = what /\ query'[q].to = pullAt
         /\ Queried' = Queried \cup {q}
         /\ \A p \in Requests \ {q} : query'[p] = query[p]
  <1>1. query' = [query EXCEPT ![q] = QueryOf(what, pullAt)]
    BY QueryHere
  <1>2. pullAt \in Pulls /\ q \notin RowsOnTheirWay
    BY DEF PullPageInv, PullPageTypeOK, RowsOnTheirWay
  <1> PICK n : n = pullAt
    OBVIOUS
  <1>3. query' = [query EXCEPT ![q] = QueryOf(what, n)] /\ n \in Pulls
    BY <1>1, <1>2
  <1> QED
    BY <1>2, <1>3, SendsQuery

\* The page sends a request to its address.
LEMMA SendingStep ==
  ASSUME PullPageInv, NEW q \in Requests, query[q].pc = "idle", NEW what \in QueryKinds,
         query' = [query EXCEPT ![q] = Query(what)],
         UNCHANGED <<pull, pullAt, tab, pr, prLoading, list, moves, aside, muddled, outdated>>,
         pr # None \/ (Queried = {} /\ what = "load"),
         owed' = owed \/ (what \in PageLists /\ owed' = owed \ {what}),
         box' = box \/ (box' = box \cup {q} /\ what \in ByHandKinds /\ tab = "conversation" /\ ~prLoading)
  PROVE  PullPageInv'
  <1> PICK n : n = pullAt
    OBVIOUS
  <1>0. /\ RestTyped /\ BoxWaits /\ n \in Pulls /\ q \notin Queried /\ q \notin RowsOnTheirWay /\ NothingReadYet /\ RowWillBeRight
        /\ Queried \subseteq Requests /\ RowsFor(n) \subseteq RowsOnTheirWay /\ RowsOnTheirWay \subseteq Requests \ {q}
        /\ \A l \in PageLists \ outdated : ListKnown(l)
    BY PullParts DEF Queried, RowsOnTheirWay, RowsFor, RestTyped
  <1>2. what \in ByHandKinds => pr \in PullCopies
    BY <1>0 DEF RestTyped, ByHandKinds, Box
  <1>3. /\ query' \in [Requests -> QueryRecords] /\ QueriesWhole' /\ RowsOrdered'
        /\ RowsOnTheirWay' = RowsOnTheirWay
        /\ query'[q].pc = "sent" /\ query'[q].what = what /\ query'[q].to = n
        /\ Queried' = Queried \cup {q}
        /\ \A p \in Requests \ {q} : query'[p] = query[p]
    BY <1>0, <1>2, SendsHere
  <1>4. RestTyped'
    BY <1>0 DEF RestTyped, PullCopies, PullRows
  <1>5. BoxWaits'
    <2>1. q \notin box
      BY <1>0 DEF BoxWaits
    <2>2. \A p \in box : p \in Requests /\ query'[p].pc # "idle" /\ query'[p].what \in ByHandKinds
      BY <1>0, <1>3, <2>1 DEF BoxWaits
    <2>3. tab' = tab /\ prLoading' = prLoading
      OBVIOUS
    <2>4. CASE box' = box
      BY <1>0, <2>2, <2>3, <2>4 DEF BoxWaits
    <2>5. CASE box' = box \cup {q} /\ what \in ByHandKinds /\ tab = "conversation" /\ ~prLoading
      BY <1>3, <2>2, <2>3, <2>5 DEF BoxWaits
    <2> QED
      BY <2>4, <2>5
  <1>6. NothingReadYet'
    BY <1>0, <1>3 DEF NothingReadYet, PageLists
  <1>7. RowWillBeRight'
    <2>1. RowsFor(n)' = RowsFor(n) /\ \A p \in RowsFor(n) : query'[p] = query[p]
      BY <1>0, <1>3 DEF RowsFor
    <2>2. RowToBeRead(n) => RowToBeRead(n)'
      <3> SUFFICES ASSUME NEW x \in Requests, query[x].to = n,
                          \/ query[x].pc = "sent" /\ query[x].what \in {"load", "refresh"}
                          \/ query[x].pc = "answered" /\ query[x].what \in {"suggest", "review"}
                   PROVE  RowToBeRead(n)'
        BY DEF RowToBeRead
      <3>1. x # q
        OBVIOUS
      <3> QED
        BY <1>3, <3>1 DEF RowToBeRead
    <2>3. pr = None => RowToBeRead(n)'
      BY <1>3 DEF RowToBeRead
    <2> QED
      BY <1>0, <2>1, <2>2, <2>3, RowRightAsBefore
  <1>8. ListsWillBeRight'
    <2>1. ASSUME NEW l \in PageLists \ outdated PROVE ListKnown(l)'
      <3>1. \A p \in Requests : query'[p].pc = "answered" => query[p] = query'[p]
        BY <1>3
      <3>2. \A p \in Queried : query[p].what = l /\ query[p].to = pullAt =>
              \E r \in Queried' : query'[r].what = l /\ query'[r].to = pullAt
        BY <1>0, <1>3
      <3>3. owed' = owed \/ l \notin owed \/ l \in owed' \/ (\E p \in Queried' : query'[p].what = l /\ query'[p].to = pullAt)
        BY <1>3
      <3> QED
        BY <1>0, <3>1, <3>2, <3>3, ListStaysKnown
    <2> QED
      BY <2>1 DEF ListsWillBeRight, ListKnown, AnswersOfHead, Queried
  <1> QED
    BY <1>3, <1>4, <1>5, <1>6, <1>7, <1>8, PullPageInvParts

LEMMA PullIsOpened ==
  ASSUME PullPageInv, NEW q \in Requests, OpenPull(q)
  PROVE  PullPageInv'
  <1>1. query[q].pc = "idle" /\ "load" \in QueryKinds
    BY DEF OpenPull, Queried, QueryKinds, RowKinds
  <1> QED
    BY <1>1, SendingStep DEF OpenPull

LEMMA PullIsPressed ==
  ASSUME PullPageInv, NEW q \in Requests,
         \/ \E what \in Box \cup {"ready"} : PressBox(q, what)
         \/ \E what \in {"suggest", "review"} : Review(q, what)
         \/ \E l \in PageLists : Effect(q, l)
  PROVE  PullPageInv'
  <1>1. ASSUME NEW what \in Box \cup {"ready"}, PressBox(q, what) PROVE PullPageInv'
    <2>1. /\ query[q].pc = "idle" /\ pr # None /\ query' = [query EXCEPT ![q] = Query(what)] /\ tab = "conversation" /\ ~prLoading
          /\ UNCHANGED <<pull, pullAt, tab, pr, prLoading, list, owed, moves, aside, muddled, outdated>>
          /\ box' = box \cup {q} /\ owed' = owed
      BY <1>1 DEF PressBox, Press
    <2>2. what \in ByHandKinds /\ what \in QueryKinds
      BY DEF ByHandKinds, QueryKinds, RowKinds
    <2> QED
      BY <2>1, <2>2, SendingStep
  <1>2. ASSUME NEW what \in {"suggest", "review"}, Review(q, what) PROVE PullPageInv'
    <2>1. /\ query[q].pc = "idle" /\ pr # None /\ query' = [query EXCEPT ![q] = Query(what)]
          /\ UNCHANGED <<pull, pullAt, tab, pr, prLoading, list, owed, moves, aside, muddled, outdated>>
          /\ box' = box /\ owed' = owed
      BY <1>2 DEF Review, Press
    <2>2. what \in QueryKinds
      BY DEF QueryKinds
    <2> QED
      BY <2>1, <2>2, SendingStep
  <1>3. ASSUME NEW l \in PageLists, Effect(q, l) PROVE PullPageInv'
    <2>1. /\ query[q].pc = "idle" /\ query' = [query EXCEPT ![q] = Query(l)] /\ l \in owed
          /\ UNCHANGED <<pull, pullAt, tab, pr, prLoading, list, moves, aside, muddled, outdated>>
          /\ box' = box /\ owed' = owed \ {l}
      BY <1>3 DEF Effect
    <2>2. pr # None /\ l \in QueryKinds
      BY <2>1 DEF PullPageInv, NothingReadYet, QueryKinds
    <2> QED
      BY <2>1, <2>2, SendingStep
  <1> QED
    BY <1>1, <1>2, <1>3

LEMMA PullIsLeft ==
  ASSUME PullPageInv, NEW q \in Requests, NEW n \in Pulls, GoToPull(q, n)
  PROVE  PullPageInv'
  <1>0. /\ RestTyped /\ BoxWaits /\ NothingReadYet /\ Queried \subseteq Requests /\ q \notin RowsOnTheirWay /\ "load" \in QueryKinds
        /\ "load" \notin ByHandKinds /\ pullAt \in Pulls
    BY PullParts DEF Queried, RowsOnTheirWay, RestTyped, GoToPull, QueryKinds, RowKinds, ByHandKinds, Box
  <1>1. /\ pullAt' = n /\ prLoading' = TRUE /\ box' = {} /\ owed' = Owes(list, pr)
        /\ muddled' = (muddled /\ Queried # {})
        /\ outdated' = {l \in PageLists : list[l] # None \/ LeftBehind(l, n)}
        /\ pull' = pull /\ tab' = tab /\ pr' = pr /\ list' = list /\ moves' = moves /\ aside' = aside
    BY DEF GoToPull
  <1>2. query' = [query EXCEPT ![q] = QueryOf("load", n)]
    BY DEF GoToPull, QueryOf
  <1>3. /\ query' \in [Requests -> QueryRecords] /\ QueriesWhole' /\ RowsOrdered'
        /\ query'[q].pc = "sent" /\ query'[q].what = "load" /\ query'[q].to = n
        /\ Queried' = Queried \cup {q}
        /\ \A p \in Requests \ {q} : query'[p] = query[p]
    BY <1>0, <1>2, SendsQuery
  <1>4. RestTyped'
    <2>1. owed' \subseteq PageLists /\ outdated' \subseteq PageLists /\ muddled' \in BOOLEAN
      BY <1>1 DEF Owes
    <2> QED
      BY <1>0, <1>1, <2>1 DEF RestTyped, PullCopies, PullRows
  <1>5. BoxWaits'
    BY <1>1 DEF BoxWaits
  <1>6. NothingReadYet'
    <2>1. pr = None => owed' = {}
      BY <1>1 DEF Owes
    <2> QED
      BY <1>0, <1>1, <1>3, <2>1 DEF NothingReadYet
  <1>7. RowWillBeRight'
    BY <1>1, <1>3 DEF RowWillBeRight, RowRightFor, RowToBeRead
  <1>8. ListsWillBeRight'
    <2>1. ASSUME NEW l \in PageLists \ outdated' PROVE ListKnown(l)'
      <3>1. list[l] = None /\ ~LeftBehind(l, n)
        BY <1>1, <2>1
      <3>2. AnswersOfHead(l)'
        <4> SUFFICES ASSUME NEW p \in Requests, query'[p].pc = "answered", query'[p].what = l, query'[p].to = n
                     PROVE  query'[p].answer.row.head = pull[n].head
          BY <1>1 DEF AnswersOfHead
        <4>1. p # q
          BY <1>3
        <4>2. p \in Queried /\ query'[p] = query[p]
          BY <1>3, <4>1 DEF Queried
        <4> QED
          BY <3>1, <4>2 DEF LeftBehind
      <3>3. ListComes(l)'
        BY <1>1, <3>1 DEF ListComes, Owes
      <3> QED
        BY <3>2, <3>3 DEF ListKnown
    <2> QED
      BY <2>1 DEF ListsWillBeRight, ListKnown, AnswersOfHead, Queried
  <1> QED
    BY <1>3, <1>4, <1>5, <1>6, <1>7, <1>8, PullPageInvParts

\* Nothing is done to a query, or one is refused.
LEMMA RefusingStep ==
  ASSUME PullPageInv, NEW q \in Requests, query[q].pc = "sent", query[q].what \notin {"load", "refresh"} \cup PageLists,
         query' = [query EXCEPT ![q].pc = "refused"], moves' \in 0..MaxMoves,
         UNCHANGED <<pull, pullAt, tab, pr, prLoading, list, owed, box, aside, muddled, outdated>>
  PROVE  PullPageInv'
  <1> PICK n : n = pullAt
    OBVIOUS
  <1>0. /\ RestTyped /\ BoxWaits /\ n \in Pulls /\ q \in Queried /\ q \notin RowsOnTheirWay /\ NothingReadYet /\ RowWillBeRight
        /\ Queried \subseteq Requests /\ RowsFor(n) \subseteq RowsOnTheirWay /\ RowsOnTheirWay \subseteq Requests \ {q}
        /\ \A l \in PageLists \ outdated : ListKnown(l)
    BY PullParts DEF Queried, RowsOnTheirWay, RowsFor, RestTyped
  <1>3. /\ query' \in [Requests -> QueryRecords] /\ QueriesWhole' /\ RowsOrdered'
        /\ Queried' = Queried /\ \A p \in Requests : query'[p].what = query[p].what /\ query'[p].to = query[p].to
        /\ \A p \in Requests \ {q} : query'[p] = query[p]
        /\ query'[q].pc = "refused" /\ RowsOnTheirWay' = RowsOnTheirWay
    BY QueryRefused
  <1>4. RestTyped'
    BY <1>0 DEF RestTyped, PullCopies, PullRows
  <1>5. BoxWaits'
    <2>1. \A p \in box : p \in Requests /\ query'[p].pc # "idle" /\ query'[p].what \in ByHandKinds
      BY <1>0, <1>3 DEF BoxWaits
    <2>2. tab' = tab /\ prLoading' = prLoading /\ box' = box
      OBVIOUS
    <2> QED
      BY <1>0, <2>1, <2>2 DEF BoxWaits
  <1>6. NothingReadYet'
    BY <1>0, <1>3 DEF NothingReadYet, PageLists
  <1>7. RowWillBeRight'
    <2>1. RowsFor(n)' = RowsFor(n) /\ \A p \in RowsFor(n) : query'[p] = query[p]
      BY <1>0, <1>3 DEF RowsFor
    <2>2. RowToBeRead(n) => RowToBeRead(n)'
      <3> SUFFICES ASSUME NEW x \in Requests, query[x].to = n,
                          \/ query[x].pc = "sent" /\ query[x].what \in {"load", "refresh"}
                          \/ query[x].pc = "answered" /\ query[x].what \in {"suggest", "review"}
                   PROVE  RowToBeRead(n)'
        BY DEF RowToBeRead
      <3>1. x # q
        OBVIOUS
      <3> QED
        BY <1>3, <3>1 DEF RowToBeRead
    <2> QED
      BY <1>0, <2>1, <2>2, RowRightAsBefore
  <1>8. ListsWillBeRight'
    <2>1. ASSUME NEW l \in PageLists \ outdated PROVE ListKnown(l)'
      <3>1. \A p \in Requests : query'[p].pc = "answered" => query[p] = query'[p]
        BY <1>3
      <3>2. \A p \in Queried : query[p].what = l /\ query[p].to = pullAt =>
              \E r \in Queried' : query'[r].what = l /\ query'[r].to = pullAt
        BY <1>0, <1>3
      <3> QED
        BY <1>0, <3>1, <3>2, ListStaysKnown
    <2> QED
      BY <2>1 DEF ListsWillBeRight, ListKnown, AnswersOfHead, Queried
  <1> QED
    BY <1>3, <1>4, <1>5, <1>6, <1>7, <1>8, PullPageInvParts

LEMMA TabIsSwitched ==
  ASSUME PullPageInv, SwitchTab
  PROVE  PullPageInv'
  <1> PICK n : n = pullAt
    OBVIOUS
  <1>0. /\ RestTyped /\ n \in Pulls /\ RowWillBeRight /\ NothingReadYet /\ QueriesWhole /\ RowsOrdered
        /\ query \in [Requests -> QueryRecords] /\ ListsWillBeRight
    BY PullParts DEF RestTyped
  <1>1. /\ tab' \in {"conversation", "files"} /\ box' = {} /\ pr # None
        /\ UNCHANGED <<pull, pullAt, pr, prLoading, list, owed, query, moves, aside, muddled, outdated>>
    BY DEF SwitchTab
  <1>2. RestTyped'
    BY <1>0, <1>1 DEF RestTyped, PullCopies, PullRows
  <1>3. BoxWaits' /\ NothingReadYet'
    BY <1>1 DEF BoxWaits, NothingReadYet
  <1>4. QueriesWhole' /\ query' \in [Requests -> QueryRecords]
    BY <1>0, <1>1 DEF QueriesWhole, PullCopies, PullRows
  <1>5. RowsOrdered'
    BY <1>0, <1>1 DEF RowsOrdered, RowsOnTheirWay
  <1>6. RowWillBeRight'
    <2>1. RowsFor(n)' = RowsFor(n) /\ (RowToBeRead(n) => RowToBeRead(n)')
      BY <1>1 DEF RowsFor, RowsOnTheirWay, RowToBeRead
    <2> QED
      BY <1>0, <1>1, <2>1, RowRightAsBefore
  <1>7. ListsWillBeRight'
    BY <1>0, <1>1 DEF ListsWillBeRight, ListComes, ListInPlace, Queried
  <1> QED
    BY <1>2, <1>3, <1>4, <1>5, <1>6, <1>7, PullPageInvParts

\* The server answers.
LEMMA AnsweringStep ==
  ASSUME PullPageInv, NEW q \in Requests, query[q].pc = "sent", NEW m \in Pulls, m = query[q].to,
         NEW what, what = query[q].what, NEW r \in RowsAfter(what, pull[m]), Allowed(what, pull[m]),
         pull' = [pull EXCEPT ![m] = r],
         NEW w, w = IF what \in {"suggest", "review"} THEN None ELSE [of |-> m, row |-> r],
         AnswersWith(q, w),
         aside' = IF what \in {"load", "refresh"} THEN aside \ {m} ELSE aside,
         outdated' = (IF r.head # pull[m].head THEN outdated \cup Outdating(m) ELSE outdated),
         UNCHANGED <<pullAt, tab, pr, prLoading, list, owed, box, moves, muddled>>
  PROVE  PullPageInv'
  <1>0. /\ RestTyped /\ BoxWaits /\ NothingReadYet /\ pull \in [Pulls -> PullRows] /\ what \in QueryKinds
    BY PullParts DEF RestTyped, QueriesWhole
  <1>1. r \in PullRows /\ (what \notin ByHandKinds \cup {"suggest"} => r = pull[m]) /\ (what # "suggest" => r.head = pull[m].head)
    BY <1>0, RowsAfterTyped
  <1>2. w \in PullCopies \cup {None} /\ (what \notin {"suggest", "review"} => w \in PullCopies)
    BY <1>1 DEF PullCopies
  <1>3. /\ query' \in [Requests -> QueryRecords] /\ QueriesWhole' /\ RowsOrdered'
        /\ Queried' = Queried /\ \A p \in Requests : query'[p].what = query[p].what /\ query'[p].to = query[p].to
        /\ \A p \in Requests \ {q} : query'[p] = query[p]
        /\ query'[q].pc = "answered" /\ query'[q].answer = w
    BY <1>2, QueryServed
  <1>4. pull'[m] = r /\ pull' \in [Pulls -> PullRows]
    BY <1>0, <1>1
  <1>5. ListsWillBeRight' /\ outdated' \subseteq PageLists
    <2>1. query[q].what \in PageLists /\ query[q].to = pullAt =>
            query'[q].answer.row.head = pull'[pullAt].head /\ r.head = pull[m].head
      <3> SUFFICES ASSUME what \in PageLists, m = pullAt
                   PROVE  query'[q].answer.row.head = pull'[pullAt].head /\ r.head = pull[m].head
        OBVIOUS
      <3>1. what \notin ByHandKinds \cup {"suggest", "review"}
        BY DEF PageLists, ByHandKinds, Box
      <3>2. w = [of |-> m, row |-> r]
        BY <3>1
      <3>3. w.row = r
        BY <3>2
      <3> QED
        BY <1>1, <1>3, <1>4, <3>1, <3>3
    <2>2. pullAt' = pullAt /\ list' = list /\ owed' = owed /\ pr' = pr
      OBVIOUS
    <2>3. ASSUME NEW p \in Requests
          PROVE  query'[p] = query[p] \/
                   (query[p].what \in PageLists /\ query[p].to = pullAt =>
                      query'[p].answer.row.head = pull'[pullAt].head /\ r.head = pull[m].head)
      <3>1. CASE p = q
        BY <2>1, <3>1
      <3>2. CASE p # q
        BY <1>3, <3>2
      <3> QED
        BY <3>1, <3>2
    <2> QED
      BY <1>1, <1>3, <2>2, <2>3, RowsMove
  <1>6. RestTyped'
    <2>1. aside' \subseteq Pulls
      BY <1>0 DEF RestTyped
    <2> QED
      BY <1>0, <1>4, <1>5, <2>1 DEF RestTyped, PullCopies, PullRows
  <1>7. BoxWaits'
    <2>0. q \in Requests /\ query'[q].pc # "idle"
      BY <1>3
    <2>1. \A p \in box : p \in Requests /\ query'[p].pc # "idle" /\ query'[p].what \in ByHandKinds
      BY <1>0, <1>3, <2>0 DEF BoxWaits
    <2>2. tab' = tab /\ prLoading' = prLoading /\ box' = box
      OBVIOUS
    <2> QED
      BY <1>0, <2>1, <2>2 DEF BoxWaits
  <1>8. NothingReadYet'
    <2>1. Queried \subseteq Requests
      BY DEF Queried
    <2> QED
      BY <1>0, <1>3, <2>1 DEF NothingReadYet
  <1>9. RowWillBeRight'
    BY ServingKeepsRow
  <1> QED
    BY <1>3, <1>5, <1>6, <1>7, <1>8, <1>9, PullPageInvParts

LEMMA PullIsServed ==
  ASSUME PullPageInv, NEW q \in Requests, ServePull(q) \/ Refuse(q)
  PROVE  PullPageInv'
  <1>0. RestTyped /\ QueriesWhole /\ moves \in 0..MaxMoves /\ MaxMoves \in Nat
    BY PullParts, MovesBound DEF RestTyped
  <1>1. CASE Refuse(q)
    <2>1. query[q].what \notin {"load", "refresh"} \cup PageLists
      BY <1>1 DEF Refuse, Box, PageLists
    <2>2. moves' \in 0..MaxMoves
      BY <1>0, <1>1 DEF Refuse
    <2> QED
      BY <1>1, <2>1, <2>2, RefusingStep DEF Refuse
  <1>2. CASE ServePull(q)
    <2> PICK m, what : m = query[q].to /\ what = query[q].what
      OBVIOUS
    <2>1. query[q].pc = "sent" /\ m \in Pulls
      BY <1>0, <1>2 DEF ServePull, QueriesWhole
    <2>2. /\ aside' = IF what \in {"load", "refresh"} THEN aside \ {m} ELSE aside
          /\ UNCHANGED <<pullAt, tab, pr, prLoading, list, owed, box, moves, muddled>>
      BY <1>2 DEF ServePull
    <2>3. CASE ~Allowed(what, pull[m])
      <3>1. query[q].what \notin {"load", "refresh"} \cup PageLists
        BY <2>3 DEF Allowed, PageLists
      <3>2. query' = [query EXCEPT ![q].pc = "refused"] /\ pull' = pull /\ outdated' = outdated
        BY <1>2, <2>3 DEF ServePull
      <3>3. aside' = aside
        BY <2>2, <3>1
      <3> QED
        BY <1>0, <2>1, <2>2, <3>1, <3>2, <3>3, RefusingStep
    <2>4. CASE Allowed(what, pull[m])
      <3>1. PICK r \in RowsAfter(what, pull[m]) :
              /\ pull' = [pull EXCEPT ![m] = r]
              /\ query' = [query EXCEPT
                   ![q].pc = "answered",
                   ![q].answer = IF what \in {"suggest", "review"} THEN None ELSE [of |-> m, row |-> r],
                   ![q].after = AnsweredBefore(query, Overtaken(what))]
              /\ outdated' = IF r.head # pull[m].head THEN outdated \cup Outdating(m) ELSE outdated
        BY <1>2, <2>4 DEF ServePull
      <3> PICK w : w = IF what \in {"suggest", "review"} THEN None ELSE [of |-> m, row |-> r]
        OBVIOUS
      <3>2. AnswersWith(q, w)
        BY <3>1 DEF AnswersWith
      <3>3. pull' = [pull EXCEPT ![m] = r]
        BY <3>1
      <3>4. outdated' = IF r.head # pull[m].head THEN outdated \cup Outdating(m) ELSE outdated
        BY <3>1
      <3> QED
        BY <2>1, <2>2, <2>4, <3>2, <3>3, <3>4, AnsweringStep
    <2> QED
      BY <2>3, <2>4
  <1> QED
    BY <1>1, <1>2

LEMMA PullIsMoved ==
  ASSUME PullPageInv, NEW m \in Pulls, NEW what, Moved(m, what)
  PROVE  PullPageInv'
  <1> PICK n : n = pullAt
    OBVIOUS
  <1>0. /\ RestTyped /\ BoxWaits /\ NothingReadYet /\ pull \in [Pulls -> PullRows] /\ QueriesWhole /\ RowsOrdered
        /\ query \in [Requests -> QueryRecords] /\ RowWillBeRight /\ n \in Pulls /\ moves \in 0..MaxMoves /\ MaxMoves \in Nat
    BY PullParts, MovesBound DEF RestTyped
  <1>1. PICK r \in RowsAfter(what, pull[m]) :
          /\ moves < MaxMoves /\ Allowed(what, pull[m])
          /\ pull' = [pull EXCEPT ![m] = r]
          /\ moves' = moves + 1 /\ aside' = aside \cup {m}
          /\ outdated' = IF r.head # pull[m].head THEN outdated \cup Outdating(m) ELSE outdated
          /\ UNCHANGED <<pullAt, tab, pr, prLoading, list, owed, query, box, muddled>>
    BY DEF Moved
  <1>2. r \in PullRows
    BY <1>0, <1>1, RowsAfterTyped
  <1>3. pull' \in [Pulls -> PullRows] /\ (m # n => pull'[n] = pull[n])
    BY <1>0, <1>1, <1>2
  <1>4. Queried' = Queried /\ RowsOnTheirWay' = RowsOnTheirWay
    BY <1>1 DEF Queried, RowsOnTheirWay
  <1>5. ListsWillBeRight' /\ outdated' \subseteq PageLists
    <2>1. /\ pull' = [pull EXCEPT ![m] = r] /\ pullAt' = pullAt
          /\ list' = list /\ owed' = owed /\ pr' = pr /\ query' = query
          /\ outdated' = (IF r.head # pull[m].head THEN outdated \cup Outdating(m) ELSE outdated)
      BY <1>1
    <2> QED
      BY <1>2, <1>4, <2>1, RowsMove
  <1>6. RestTyped'
    BY <1>0, <1>1, <1>3, <1>5 DEF RestTyped, PullCopies, PullRows
  <1>7. BoxWaits' /\ NothingReadYet'
    BY <1>0, <1>1, <1>4 DEF BoxWaits, NothingReadYet
  <1>8. QueriesWhole' /\ query' \in [Requests -> QueryRecords]
    BY <1>0, <1>1 DEF QueriesWhole, PullCopies, PullRows
  <1>9. RowsOrdered'
    BY <1>0, <1>1, <1>4 DEF RowsOrdered
  <1>10. RowWillBeRight'
    <2>1. CASE m = n
      BY <1>1, <2>1 DEF RowWillBeRight, RowRightFor
    <2>2. CASE m # n
      <3>1. RowsFor(n)' = RowsFor(n) /\ (RowToBeRead(n) => RowToBeRead(n)')
        BY <1>1, <1>4 DEF RowsFor, RowToBeRead
      <3> QED
        BY <1>0, <1>1, <1>3, <1>4, <2>2, <3>1, RowRightAsBefore
    <2> QED
      BY <2>1, <2>2
  <1> QED
    BY <1>5, <1>6, <1>7, <1>8, <1>9, <1>10, PullPageInvParts

\* An answer comes, or none, and nothing happens to list l.
LEMMA ListOutlasts ==
  ASSUME PullPageInv, NEW q \in Requests, query' = Come(query, q, Silent), NEW l \in PageLists \ outdated,
         pull' = pull, pullAt' = pullAt, query[q].what # l,
         l \in owed' \/ (list'[l] = list[l] /\ (l \in owed => l \in owed') /\ (pr = None => pr' = None))
  PROVE  ListKnown(l)'
  <1>0. ListKnown(l) /\ Queried \subseteq Requests
    BY PullParts DEF Queried
  <1>1. /\ query'[q] = Silent /\ Queried' = Queried \ {q}
        /\ \A p \in Requests \ {q} :
              /\ query'[p].pc = query[p].pc /\ query'[p].what = query[p].what /\ query'[p].to = query[p].to
              /\ query'[p].answer = query[p].answer
    BY QueryComes, RowsLeftTheWay, PullParts
  <1>2. ASSUME NEW p \in Requests, query'[p].pc = "answered", query'[p].what = l, query'[p].to = pullAt
        PROVE  query[p].pc = "answered" /\ query[p].what = l /\ query[p].to = pullAt /\ query'[p].answer = query[p].answer
    <2>1. p # q
      BY <1>1, <1>2 DEF Silent
    <2> QED
      BY <1>1, <1>2, <2>1
  <1>3. \A p \in Queried : query[p].what = l /\ query[p].to = pullAt =>
          \E x \in Queried' : query'[x].what = l /\ query'[x].to = pullAt
    BY <1>0, <1>1
  <1> QED
    BY <1>0, <1>2, <1>3, ListStaysKnown

\* A request is over.
LEMMA EndingStep ==
  ASSUME PullPageInv, NEW q \in Requests, query' = Come(query, q, Silent),
         tab' = tab, prLoading' => prLoading, prLoading' \in BOOLEAN, box' = box \ {q},
         RestTyped', NothingReadYet', RowWillBeRight', \A l \in PageLists \ outdated' : ListKnown(l)'
  PROVE  PullPageInv'
  <1>1. query' \in [Requests -> QueryRecords] /\ QueriesWhole' /\ RowsOrdered'
    BY QueryEnds
  <1>2. BoxWaits'
    <2>1. BoxWaits /\ prLoading \in BOOLEAN
      BY PullParts DEF RestTyped
    <2>2. \A p \in Requests \ {q} : query'[p].pc = query[p].pc /\ query'[p].what = query[p].what
      BY QueryComes, PullParts
    <2> QED
      BY <2>1, <2>2 DEF BoxWaits
  <1>3. ListsWillBeRight'
    BY DEF ListsWillBeRight, ListKnown, AnswersOfHead, Queried
  <1> QED
    BY <1>1, <1>2, <1>3, PullPageInvParts

LEMMA ActionComes ==
  ASSUME PullPageInv, NEW q \in Requests, DeliverAction(q)
  PROVE  PullPageInv'
  <1> PICK a : a = query[q]
    OBVIOUS
  <1>0. RestTyped /\ BoxWaits /\ NothingReadYet /\ QueriesWhole
    BY PullParts
  <1>1. /\ query[q].what \in ByHandKinds /\ query[q].pc \in {"answered", "refused"}
        /\ pr' = ByHand(query[q]) /\ query' = Come(query, q, Silent)
        /\ box' = box \ {q} /\ owed' = owed \cup Owes(list, pr')
        /\ muddled' = (muddled \/ query[q].late \/ query[q].with # pr \/ Astray(query[q]))
        /\ UNCHANGED <<pull, pullAt, tab, prLoading, list, moves, aside, outdated>>
    BY DEF DeliverAction, ByHandKinds
  <1>2. pr' \in PullCopies /\ pr # None /\ pr' # None
    <2>1. a.what \in ByHandKinds /\ a.with \in PullCopies /\ pr' = ByHand(a)
      BY <1>0, <1>1 DEF QueriesWhole
    <2>2. pr' \in PullCopies
      BY <2>1, ByHandTyped
    <2>3. query[q].what # "load" /\ q \in Queried
      BY <1>1 DEF ByHandKinds, Box, Queried
    <2> QED
      BY <1>0, <2>2, <2>3, NoneIsNoCopy DEF NothingReadYet
  <1>3. RestTyped'
    <2>1. query[q] \in QueryRecords
      BY PullParts
    <2>2. muddled' \in BOOLEAN /\ owed' \subseteq PageLists
      BY <1>0, <1>1, <2>1 DEF RestTyped, QueryRecords, Owes, Astray
    <2> QED
      BY <1>0, <1>1, <1>2, <2>2 DEF RestTyped, PullCopies, PullRows
  <1>4. NothingReadYet'
    BY <1>2 DEF NothingReadYet
  <1>5. RowWillBeRight'
    <2>1. (muddled => muddled') /\ aside' = aside
      BY <1>1
    <2>2. CASE query[q].pc = "answered"
      <3>1. q \in RowsOnTheirWay /\ pr' = RowOf(q)
        BY <1>1, <2>2 DEF RowsOnTheirWay, RowKinds, RowOf
      <3>2. ~muddled' => ~query[q].late /\ (query[q].what \in ByHandKinds => query[q].with = pr) /\ ~Astray(query[q])
        BY <1>1
      <3> QED
        BY <1>1, <2>1, <3>1, <3>2, ComingKeepsRow
    <2>3. CASE query[q].pc = "refused"
      <3>1. q \notin RowsFor(pullAt)
        BY <2>3 DEF RowsFor, RowsOnTheirWay
      <3>2. ~muddled' => pr' = pr
        BY <1>1, <2>3 DEF ByHand
      <3>3. CASE pr' = pr
        BY <1>1, <2>1, <2>3, <3>1, <3>3, ComingKeepsRow
      <3>4. CASE muddled'
        BY <3>4 DEF RowWillBeRight, RowRightFor
      <3> QED
        BY <3>2, <3>3, <3>4
    <2> QED
      BY <1>1, <2>2, <2>3
  <1>6. \A l \in PageLists \ outdated' : ListKnown(l)'
    <2> SUFFICES ASSUME NEW l \in PageLists \ outdated PROVE ListKnown(l)'
      BY <1>1
    <2>1. query[q].what # l
      BY <1>1 DEF ByHandKinds, Box, PageLists
    <2> QED
      BY <1>1, <1>2, <2>1, ListOutlasts
  <1> QED
    BY <1>0, <1>1, <1>3, <1>4, <1>5, <1>6, EndingStep DEF RestTyped

LEMMA RowIsDelivered ==
  ASSUME PullPageInv, NEW q \in Requests, DeliverRow(q)
  PROVE  PullPageInv'
  <1>0. RestTyped /\ BoxWaits /\ NothingReadYet /\ QueriesWhole
    BY PullParts
  <1>1. /\ query[q].what \in {"load", "refresh"} /\ query[q].pc = "answered"
        /\ pr' = query[q].answer /\ query' = Come(query, q, Silent)
        /\ prLoading' = (prLoading /\ query[q].what # "load")
        /\ box' = box /\ owed' = owed \cup Owes(list, pr')
        /\ muddled' = (muddled \/ query[q].late \/ Astray(query[q]))
        /\ UNCHANGED <<pull, pullAt, tab, list, box, moves, aside, outdated>>
    BY DEF DeliverRow
  <1>2. pr' \in PullCopies /\ pr' # None
    BY <1>0, <1>1, NoneIsNoCopy DEF QueriesWhole
  <1>3. RestTyped'
    <2>1. query[q] \in QueryRecords
      BY PullParts
    <2>2. muddled' \in BOOLEAN /\ owed' \subseteq PageLists /\ prLoading' \in BOOLEAN
      BY <1>0, <1>1, <2>1 DEF RestTyped, QueryRecords, Owes, Astray
    <2> QED
      BY <1>0, <1>1, <1>2, <2>2 DEF RestTyped, PullCopies, PullRows
  <1>4. NothingReadYet'
    BY <1>2 DEF NothingReadYet
  <1>5. RowWillBeRight'
    <2>1. (muddled => muddled') /\ aside' = aside
      BY <1>1
    <2>2. query[q].what \notin ByHandKinds
      BY <1>1 DEF ByHandKinds, Box
    <2>3. q \in RowsOnTheirWay /\ pr' = RowOf(q)
      BY <1>1, <2>2 DEF RowsOnTheirWay, RowKinds, RowOf
    <2>4. ~muddled' => ~query[q].late /\ (query[q].what \in ByHandKinds => query[q].with = pr) /\ ~Astray(query[q])
      BY <1>1, <2>2
    <2> QED
      BY <1>1, <2>1, <2>3, <2>4, ComingKeepsRow
  <1>6. \A l \in PageLists \ outdated' : ListKnown(l)'
    <2> SUFFICES ASSUME NEW l \in PageLists \ outdated PROVE ListKnown(l)'
      BY <1>1
    <2>1. query[q].what # l
      BY <1>1 DEF PageLists
    <2>2. CASE pr # None
      BY <1>1, <2>1, <2>2, ListOutlasts
    <2>3. CASE pr = None
      <3>1. l \in owed'
        BY <1>0, <1>1, <1>2, <2>3 DEF NothingReadYet, Owes
      <3> QED
        BY <1>1, <2>1, <3>1, ListOutlasts
    <2> QED
      BY <2>2, <2>3
  <1>7. box' = box \ {q}
    BY <1>0, <1>1 DEF BoxWaits, ByHandKinds, Box
  <1> QED
    BY <1>0, <1>1, <1>3, <1>4, <1>5, <1>6, <1>7, EndingStep DEF RestTyped

LEMMA ListIsDelivered ==
  ASSUME PullPageInv, NEW q \in Requests, DeliverList(q)
  PROVE  PullPageInv'
  <1> PICK m, what, head : m = query[q].to /\ what = query[q].what /\ head = query[q].answer.row.head
    OBVIOUS
  <1>0. RestTyped /\ BoxWaits /\ NothingReadYet /\ QueriesWhole
    BY PullParts
  <1>1. /\ what \in PageLists /\ query[q].pc = "answered"
        /\ list' = [list EXCEPT ![what] = [of |-> m, head |-> head]]
        /\ query' = Come(query, q, Silent)
        /\ outdated' = (IF query[q].late \/ Astray(query[q]) THEN outdated \cup {what} ELSE outdated)
        /\ owed' = owed \ {what}
        /\ UNCHANGED <<pull, pullAt, tab, pr, prLoading, box, moves, aside, muddled>>
    BY DEF DeliverList
  <1>2. m \in Pulls /\ head \in 0..MaxHead /\ pr # None
    <2>1. m \in Pulls /\ query[q].answer \in PullCopies /\ what # "load"
      BY <1>0, <1>1 DEF QueriesWhole, PageLists
    <2>2. q \in Queried
      BY <1>1 DEF Queried
    <2> QED
      BY <1>0, <2>1, <2>2 DEF NothingReadYet, PullCopies, PullRows
  <1>3. RestTyped'
    <2>1. list' \in [PageLists -> [of: Pulls, head: (0..MaxHead) \cup {None}] \cup {None}]
      <3> PICK rec : rec = [of |-> m, head |-> head]
        OBVIOUS
      <3>1. rec \in [of: Pulls, head: (0..MaxHead) \cup {None}]
        BY <1>2
      <3>2. list' = [list EXCEPT ![what] = rec]
        BY <1>1
      <3> QED
        BY <1>0, <3>1, <3>2 DEF RestTyped
    <2>2. outdated' \subseteq PageLists /\ owed' \subseteq PageLists
      BY <1>0, <1>1 DEF RestTyped
    <2> QED
      BY <1>0, <1>1, <2>1, <2>2 DEF RestTyped, PullCopies, PullRows
  <1>4. NothingReadYet'
    BY <1>1, <1>2 DEF NothingReadYet
  <1>5. RowWillBeRight'
    <2>1. q \notin RowsFor(pullAt) /\ what \notin {"load", "refresh", "suggest", "review"}
      BY <1>1 DEF RowsFor, RowsOnTheirWay, RowKinds, ByHandKinds, Box, PageLists
    <2>2. query[q].pc # "idle" /\ (muddled => muddled') /\ aside \subseteq aside' /\ pr' = pr /\ UNCHANGED <<pull, pullAt>>
          /\ query' = Come(query, q, Silent)
      BY <1>1
    <2> QED
      BY <2>1, <2>2, ComingKeepsRow
  <1>6. \A l \in PageLists \ outdated' : ListKnown(l)'
    <2> SUFFICES ASSUME NEW l \in PageLists \ outdated' PROVE ListKnown(l)'
      OBVIOUS
    <2>0. l \in PageLists \ outdated
      BY <1>1
    <2>1. CASE l # what
      <3>1. list'[l] = list[l] /\ (l \in owed => l \in owed') /\ query[q].what # l
        BY <1>0, <1>1, <2>1 DEF RestTyped
      <3> QED
        BY <1>1, <2>0, <3>1, ListOutlasts
    <2>2. CASE l = what
      <3>1. ~query[q].late /\ ~Astray(query[q]) /\ ListKnown(l)
        BY <1>1, <2>0, <2>2, PullParts
      <3>2. /\ query'[q] = Silent /\ Queried' = Queried \ {q}
            /\ \A p \in Requests \ {q} :
                  /\ query'[p].pc = query[p].pc /\ query'[p].what = query[p].what /\ query'[p].to = query[p].to
                  /\ query'[p].answer = query[p].answer
        BY <1>1, QueryComes, RowsLeftTheWay, PullParts
      <3>3. AnswersOfHead(l)'
        <4> SUFFICES ASSUME NEW p \in Requests, query'[p].pc = "answered", query'[p].what = l, query'[p].to = pullAt
                     PROVE  query'[p].answer.row.head = pull[pullAt].head
          BY <1>1 DEF AnswersOfHead
        <4>1. p # q
          BY <3>2 DEF Silent
        <4> QED
          BY <3>1, <3>2, <4>1 DEF ListKnown, AnswersOfHead
      <3>4. CASE m = pullAt
        <4>1. head = pull[pullAt].head
          BY <1>1, <2>2, <3>1, <3>4 DEF ListKnown, AnswersOfHead
        <4>2. list'[l] = [of |-> m, head |-> head]
          BY <1>0, <1>1, <2>2 DEF RestTyped
        <4>3. ListInPlace(l)'
          BY <1>1, <3>4, <4>1, <4>2 DEF ListInPlace
        <4> QED
          BY <3>3, <4>3 DEF ListKnown
      <3>5. CASE m # pullAt
        <4> PICK a : a = query[q]
          OBVIOUS
        <4>1. ~Astray(a) /\ a.to # pullAt /\ a.what = l
          BY <2>2, <3>1, <3>5
        <4>2. PICK p \in Queried : query[p].to = pullAt /\ query[p].what = l
          BY <4>1 DEF Astray
        <4>3. p \in Queried' /\ query'[p].to = pullAt' /\ query'[p].what = l
          <5>1. p # q /\ p \in Requests
            BY <3>5, <4>2 DEF Queried
          <5> QED
            BY <1>1, <3>2, <4>2, <5>1
        <4>4. ListComes(l)'
          BY <4>3 DEF ListComes
        <4> QED
          BY <3>3, <4>4 DEF ListKnown
      <3> QED
        BY <3>4, <3>5
    <2> QED
      BY <2>1, <2>2
  <1>7. box' = box \ {q}
    BY <1>0, <1>1 DEF BoxWaits, ByHandKinds, Box, PageLists
  <1> QED
    BY <1>0, <1>1, <1>3, <1>4, <1>5, <1>6, <1>7, EndingStep DEF RestTyped

LEMMA ReviewIsDelivered ==
  ASSUME PullPageInv, NEW q \in Requests, DeliverReview(q)
  PROVE  PullPageInv'
  <1> PICK n, m, what : n = pullAt /\ m = query[q].to /\ what = query[q].what
    OBVIOUS
  <1>0. /\ RestTyped /\ BoxWaits /\ NothingReadYet /\ QueriesWhole /\ RowWillBeRight /\ n \in Pulls
        /\ Queried \subseteq Requests /\ RowsFor(n) \subseteq RowsOnTheirWay /\ RowsOnTheirWay \subseteq Requests
        /\ \A l \in PageLists \ outdated : ListKnown(l)
    BY PullParts DEF RestTyped, Queried, RowsFor, RowsOnTheirWay
  <1>1. /\ what \in {"suggest", "review"} /\ query[q].pc = "answered"
        /\ UNCHANGED <<pull, pullAt, tab, pr, prLoading, box, moves, aside, muddled>>
    BY DEF DeliverReview
  <1>2. m \in Pulls /\ pr # None /\ q \in Queried /\ q \notin RowsOnTheirWay /\ "refresh" \in QueryKinds /\ "refresh" \notin ByHandKinds
    <2>1. m \in Pulls /\ q \in Queried /\ what # "load"
      BY <1>0, <1>1 DEF QueriesWhole, Queried
    <2>2. q \notin RowsOnTheirWay /\ "refresh" \in QueryKinds /\ "refresh" \notin ByHandKinds
      BY <1>1 DEF RowsOnTheirWay, QueryKinds, RowKinds, ByHandKinds, Box
    <2> QED
      BY <1>0, <2>1, <2>2 DEF NothingReadYet
  <1>3. query' = [query EXCEPT ![q] = QueryOf("refresh", m)]
    BY DEF DeliverReview, QueryOf
  <1>4. /\ query' \in [Requests -> QueryRecords] /\ QueriesWhole' /\ RowsOrdered'
        /\ RowsOnTheirWay' = RowsOnTheirWay
        /\ query'[q].pc = "sent" /\ query'[q].what = "refresh" /\ query'[q].to = m
        /\ Queried' = Queried \cup {q}
        /\ \A p \in Requests \ {q} : query'[p] = query[p]
    BY <1>2, <1>3, SendsQuery
  <1>5. BoxWaits'
    <2>1. q \notin box
      BY <1>0, <1>1 DEF BoxWaits, ByHandKinds, Box
    <2>2. \A p \in box : p \in Requests /\ query'[p].pc # "idle" /\ query'[p].what \in ByHandKinds
      BY <1>0, <1>4, <2>1 DEF BoxWaits
    <2> QED
      BY <1>0, <1>1, <2>2 DEF BoxWaits
  <1>6. NothingReadYet'
    BY <1>1, <1>2 DEF NothingReadYet
  <1>7. RowWillBeRight'
    <2>1. RowsFor(n)' = RowsFor(n) /\ \A p \in RowsFor(n) : query'[p] = query[p]
      BY <1>0, <1>2, <1>4 DEF RowsFor
    <2>2. RowToBeRead(n) => RowToBeRead(n)'
      <3> SUFFICES ASSUME NEW x \in Requests, query[x].to = n,
                          \/ query[x].pc = "sent" /\ query[x].what \in {"load", "refresh"}
                          \/ query[x].pc = "answered" /\ query[x].what \in {"suggest", "review"}
                   PROVE  RowToBeRead(n)'
        BY DEF RowToBeRead
      <3>1. CASE x = q
        BY <1>4, <3>1 DEF RowToBeRead
      <3>2. CASE x # q
        BY <1>4, <3>2 DEF RowToBeRead
      <3> QED
        BY <3>1, <3>2
    <2> QED
      BY <1>0, <1>1, <1>2, <2>1, <2>2, RowRightAsBefore
  <1>8. ASSUME NEW l \in PageLists \ outdated,
               l \in owed' \/ (list'[l] = list[l] /\ (l \in owed => l \in owed'))
        PROVE  ListKnown(l)'
    <2>1. \A p \in Requests : query'[p].pc = "answered" => query[p] = query'[p]
      BY <1>4
    <2>2. \A p \in Queried : query[p].what = l /\ query[p].to = pullAt =>
            \E r \in Queried' : query'[r].what = l /\ query'[r].to = pullAt
      <3>1. l \notin {"suggest", "review"}
        BY DEF PageLists
      <3> QED
        BY <1>0, <1>1, <1>4, <3>1
    <2> QED
      BY <1>0, <1>1, <1>8, <2>1, <2>2, ListStaysKnown
  <1>9. CASE what = "review"
    <2>1. list' = list /\ owed' = owed /\ outdated' = outdated
      BY <1>9 DEF DeliverReview
    <2>2. RestTyped'
      BY <1>0, <1>1, <2>1 DEF RestTyped, PullCopies, PullRows
    <2>3. ListsWillBeRight'
      BY <1>8, <2>1 DEF ListsWillBeRight, ListKnown, AnswersOfHead, Queried
    <2> QED
      BY <1>4, <1>5, <1>6, <1>7, <2>2, <2>3, PullPageInvParts
  <1>10. CASE what = "suggest"
    <2>1. /\ list' = [list EXCEPT !["files"] = None]
          /\ owed' = owed \cup Owes(list', pr)
          /\ outdated' = IF OnTheWay("files") THEN outdated ELSE outdated \ {"files"}
      BY <1>10 DEF DeliverReview
    <2>2. "files" \in PageLists /\ list'["files"] = None /\ \A l \in PageLists \ {"files"} : list'[l] = list[l]
      BY <1>0, <2>1 DEF RestTyped, PageLists
    <2>3. "files" \in owed' /\ owed \subseteq owed' /\ owed' \subseteq PageLists
      BY <1>0, <1>2, <2>1, <2>2 DEF Owes, RestTyped
    <2>4. RestTyped'
      <3>1. list' \in [PageLists -> [of: Pulls, head: (0..MaxHead) \cup {None}] \cup {None}]
        BY <1>0, <2>1 DEF RestTyped
      <3>2. outdated' \subseteq PageLists
        BY <1>0, <2>1 DEF RestTyped
      <3> QED
        BY <1>0, <1>1, <2>3, <3>1, <3>2 DEF RestTyped, PullCopies, PullRows
    <2>5. ASSUME NEW l \in PageLists \ outdated' PROVE ListKnown(l)'
      <3>1. CASE l \notin outdated
        <4>1. l \in owed' \/ (list'[l] = list[l] /\ (l \in owed => l \in owed'))
          BY <2>2, <2>3
        <4> QED
          BY <1>8, <3>1, <4>1
      <3>2. CASE l \in outdated
        <4>1. l = "files" /\ ~OnTheWay("files")
          BY <2>1, <2>5, <3>2
        <4>2. AnswersOfHead(l)'
          <5> SUFFICES ASSUME NEW p \in Requests, query'[p].pc = "answered", query'[p].what = l
                       PROVE  FALSE
            BY DEF AnswersOfHead
          <5>1. p # q
            BY <1>4
          <5> QED
            BY <1>4, <4>1, <5>1 DEF OnTheWay, Queried
        <4>3. ListComes(l)'
          BY <2>3, <4>1 DEF ListComes
        <4> QED
          BY <4>2, <4>3 DEF ListKnown
      <3> QED
        BY <3>1, <3>2
    <2>6. ListsWillBeRight'
      BY <2>5 DEF ListsWillBeRight, ListKnown, AnswersOfHead, Queried
    <2> QED
      BY <1>4, <1>5, <1>6, <1>7, <2>4, <2>6, PullPageInvParts
  <1> QED
    BY <1>1, <1>9, <1>10

LEMMA RefusalComes ==
  ASSUME PullPageInv, NEW q \in Requests, DeliverRefusal(q)
  PROVE  PullPageInv'
  <1>0. RestTyped /\ BoxWaits /\ NothingReadYet /\ QueriesWhole
    BY PullParts
  <1>1. /\ query[q].pc = "refused" /\ query' = Come(query, q, Silent) /\ box' = box \ {q}
        /\ UNCHANGED <<pull, pullAt, tab, pr, prLoading, list, owed, moves, aside, muddled, outdated>>
    BY DEF DeliverRefusal
  <1>2. query[q].what \notin {"load", "refresh"} \cup PageLists
    BY <1>0, <1>1 DEF QueriesWhole
  <1>3. pr # None
    BY <1>0, <1>1, <1>2 DEF NothingReadYet, Queried
  <1>4. RestTyped'
    BY <1>0, <1>1 DEF RestTyped, PullCopies, PullRows
  <1>5. NothingReadYet'
    BY <1>1, <1>3 DEF NothingReadYet
  <1>6. RowWillBeRight'
    <2>1. q \notin RowsFor(pullAt)
      BY <1>1 DEF RowsFor, RowsOnTheirWay
    <2>2. query[q].pc # "idle" /\ (muddled => muddled') /\ aside \subseteq aside' /\ pr' = pr /\ UNCHANGED <<pull, pullAt>>
      BY <1>1
    <2> QED
      BY <1>1, <2>1, <2>2, ComingKeepsRow
  <1>7. \A l \in PageLists \ outdated' : ListKnown(l)'
    BY <1>1, <1>2, ListOutlasts
  <1> QED
    BY <1>0, <1>1, <1>4, <1>5, <1>6, <1>7, EndingStep DEF RestTyped

LEMMA QueryIsLost ==
  ASSUME PullPageInv, NEW q \in Requests, Lost(q)
  PROVE  PullPageInv'
  <1> PICK m, what : m = query[q].to /\ what = query[q].what
    OBVIOUS
  <1>0. RestTyped /\ BoxWaits /\ NothingReadYet /\ QueriesWhole /\ MaxMoves \in Nat
    BY PullParts, MovesBound
  <1>1. /\ query[q].pc \in {"sent", "answered"} /\ moves < MaxMoves /\ moves' = moves + 1
        /\ query' = Come(query, q, Silent) /\ box' = box \ {q}
        /\ prLoading' = (prLoading /\ what # "load")
        /\ muddled' = (muddled \/ what = "load")
        /\ aside' = (IF query[q].pc = "answered" \/ what = "refresh" THEN aside \cup {m} ELSE aside)
        /\ UNCHANGED <<pull, pullAt, tab, pr>>
    BY DEF Lost
  <1>2. /\ what \in PageLists => /\ list' = [list EXCEPT ![what] = [of |-> m, head |-> None]]
                                /\ outdated' = outdated \cup {what} /\ owed' = owed \ {what}
        /\ what \notin PageLists => list' = list /\ outdated' = outdated /\ owed' = owed
    BY DEF Lost
  <1>3. m \in Pulls /\ q \in Queried
    BY <1>0, <1>1 DEF QueriesWhole, Queried
  <1>4. RestTyped'
    <2>1. list' \in [PageLists -> [of: Pulls, head: (0..MaxHead) \cup {None}] \cup {None}]
      <3> PICK rec : rec = [of |-> m, head |-> None]
        OBVIOUS
      <3>1. rec \in [of: Pulls, head: (0..MaxHead) \cup {None}]
        BY <1>3
      <3>2. list' = list \/ list' = [list EXCEPT ![what] = rec]
        BY <1>2
      <3> QED
        BY <1>0, <3>1, <3>2 DEF RestTyped
    <2>2. outdated' \subseteq PageLists /\ owed' \subseteq PageLists
      BY <1>0, <1>2 DEF RestTyped
    <2>3. aside' \subseteq Pulls /\ moves' \in 0..MaxMoves
      BY <1>0, <1>1, <1>3 DEF RestTyped
    <2>4. muddled' \in BOOLEAN /\ prLoading' \in BOOLEAN
      BY <1>0, <1>1 DEF RestTyped
    <2> QED
      BY <1>0, <1>1, <2>1, <2>2, <2>3, <2>4 DEF RestTyped, PullCopies, PullRows
  <1>5. NothingReadYet'
    <2> SUFFICES ASSUME pr = None PROVE NothingReadYet'
      BY <1>1 DEF NothingReadYet
    <2>1. what = "load"
      BY <1>0, <1>3 DEF NothingReadYet
    <2>2. owed' = owed /\ list' = list
      BY <1>2, <2>1 DEF PageLists
    <2>3. \A p \in Queried' : p \in Queried /\ query'[p].what = query[p].what
      <3>1. Queried' = Queried \ {q} /\ Queried \subseteq Requests
        BY <1>1, RowsLeftTheWay, PullParts DEF Queried
      <3>2. \A p \in Requests \ {q} : query'[p].what = query[p].what
        BY <1>1, QueryComes, PullParts
      <3> QED
        BY <3>1, <3>2
    <2> QED
      BY <1>0, <1>1, <2>2, <2>3 DEF NothingReadYet
  <1>6. RowWillBeRight'
    <2>1. q \in RowsFor(pullAt) => m = pullAt /\ query[q].pc = "answered"
      BY DEF RowsFor, RowsOnTheirWay
    <2>2. pullAt \notin aside' /\ query[q].to = pullAt =>
            /\ q \notin RowsFor(pullAt)
            /\ query[q].pc = "sent" => query[q].what # "refresh" /\ (query[q].what = "load" => muddled')
            /\ query[q].pc = "answered" => query[q].what \notin {"suggest", "review"}
      BY <1>1, <2>1
    <2>3. query[q].pc # "idle" /\ (muddled => muddled') /\ aside \subseteq aside' /\ pr' = pr /\ UNCHANGED <<pull, pullAt>>
      BY <1>1
    <2> QED
      BY <1>1, <2>2, <2>3, ComingKeepsRow
  <1>7. \A l \in PageLists \ outdated' : ListKnown(l)'
    <2> SUFFICES ASSUME NEW l \in PageLists \ outdated' PROVE ListKnown(l)'
      OBVIOUS
    <2>1. l \in PageLists \ outdated /\ what # l
      BY <1>2
    <2>2. list'[l] = list[l] /\ (l \in owed => l \in owed')
      BY <1>0, <1>2, <2>1 DEF RestTyped
    <2> QED
      BY <1>1, <2>1, <2>2, ListOutlasts
  <1> QED
    BY <1>0, <1>1, <1>4, <1>5, <1>6, <1>7, EndingStep DEF RestTyped

LEMMA PullPageNextInv == PullPageInv /\ [PullPageNext]_pullPageVars => PullPageInv'
  <1> SUFFICES ASSUME PullPageInv, [PullPageNext]_pullPageVars PROVE PullPageInv'
    OBVIOUS
  <1>1. CASE UNCHANGED pullPageVars
    <2>1. UNCHANGED <<pull, pullAt, tab, pr, prLoading, list, owed, query, box, moves, aside, muddled, outdated>>
      BY <1>1 DEF pullPageVars
    <2>2. RestTyped' /\ BoxWaits' /\ query' \in [Requests -> QueryRecords]
      BY <2>1, PullParts DEF RestTyped, BoxWaits, PullCopies, PullRows
    <2>3. QueriesWhole' /\ NothingReadYet' /\ RowsOrdered'
      BY <2>1 DEF PullPageInv, QueriesWhole, NothingReadYet, RowsOrdered, RowsOnTheirWay, Queried, PullCopies, PullRows
    <2>4. RowWillBeRight'
      <3> PICK n : n = pullAt
        OBVIOUS
      <3>1. RowsFor(n)' = RowsFor(n) /\ (RowToBeRead(n) => RowToBeRead(n)') /\ Queried' = Queried
        BY <2>1 DEF RowsFor, RowsOnTheirWay, RowToBeRead, Queried
      <3>2. n \in Pulls /\ RowWillBeRight
        BY PullParts DEF RestTyped
      <3> QED
        BY <2>1, <3>1, <3>2, RowRightAsBefore
    <2>5. ListsWillBeRight'
      BY <2>1 DEF PullPageInv, ListsWillBeRight, ListComes, ListInPlace, Queried
    <2> QED
      BY <2>2, <2>3, <2>4, <2>5, PullPageInvParts
  <1>2. CASE PullPageNext
    <2>1. CASE SwitchTab
      BY <2>1, TabIsSwitched
    <2>2. ASSUME NEW n \in Pulls, NEW what \in {"merge", "close", "suggest"}, Moved(n, what) PROVE PullPageInv'
      BY <2>2, PullIsMoved
    <2>3. ASSUME NEW q \in Requests, OpenPull(q) PROVE PullPageInv'
      BY <2>3, PullIsOpened
    <2>4. ASSUME NEW q \in Requests, NEW n \in Pulls, GoToPull(q, n) PROVE PullPageInv'
      BY <2>4, PullIsLeft
    <2>5. ASSUME NEW q \in Requests,
                 \/ \E what \in Box \cup {"ready"} : PressBox(q, what)
                 \/ \E what \in {"suggest", "review"} : Review(q, what)
                 \/ \E l \in PageLists : Effect(q, l)
          PROVE  PullPageInv'
      BY <2>5, PullIsPressed
    <2>6. ASSUME NEW q \in Requests, ServePull(q) \/ Refuse(q) PROVE PullPageInv'
      BY <2>6, PullIsServed
    <2>7. ASSUME NEW q \in Requests, DeliverAction(q) PROVE PullPageInv'
      BY <2>7, ActionComes
    <2>8. ASSUME NEW q \in Requests, DeliverRow(q) PROVE PullPageInv'
      BY <2>8, RowIsDelivered
    <2>9. ASSUME NEW q \in Requests, DeliverList(q) PROVE PullPageInv'
      BY <2>9, ListIsDelivered
    <2>10. ASSUME NEW q \in Requests, DeliverReview(q) PROVE PullPageInv'
      BY <2>10, ReviewIsDelivered
    <2>11. ASSUME NEW q \in Requests, DeliverRefusal(q) PROVE PullPageInv'
      BY <2>11, RefusalComes
    <2>12. ASSUME NEW q \in Requests, Lost(q) PROVE PullPageInv'
      BY <2>12, QueryIsLost
    <2> QED
      BY <1>2, <2>1, <2>2, <2>3, <2>4, <2>5, <2>6, <2>7, <2>8, <2>9, <2>10, <2>11, <2>12 DEF PullPageNext
  <1> QED
    BY <1>1, <1>2

LEMMA PullPageInvHolds == PullPageSpec => []PullPageInv
  <1>1. PullPageInit => PullPageInv
    BY PullPageInitInv
  <1>2. PullPageInv /\ [PullPageNext]_pullPageVars => PullPageInv'
    BY PullPageNextInv
  <1> QED
    BY <1>1, <1>2, PTL DEF PullPageSpec

\* The page of a pull request shows it as it is, and its lists, once nothing is under way.
THEOREM PullIsShown == PullPageSpec => []PullPageShows
  <1>1. PullPageInv => PullPageShows
    <2> SUFFICES ASSUME PullPageInv, Queried = {}, owed = {}, pr # None
                 PROVE  /\ ~muddled /\ pullAt \notin aside => Visible(pr) = Visible(PullCopy(pullAt))
                        /\ \A l \in PageLists \ outdated : list[l] = [of |-> pullAt, head |-> pull[pullAt].head]
      BY DEF PullPageShows
    <2>1. \A q \in Requests : query[q].pc = "idle"
      BY DEF Queried
    <2>2. ASSUME ~muddled, pullAt \notin aside PROVE Visible(pr) = Visible(PullCopy(pullAt))
      <3> PICK n : n = pullAt
        OBVIOUS
      <3>1. n \in Pulls /\ RowsFor(n) = {}
        BY <2>1, PullParts DEF RestTyped, RowsFor, RowsOnTheirWay
      <3>2. RowRightFor(n)
        BY <3>1, PullParts DEF RowWillBeRight
      <3>3. ~RowToBeRead(n) /\ ~LateRow(n) /\ ~StaleClick(n)
        BY <2>1, <3>1 DEF RowToBeRead, LateRow, StaleClick
      <3>4. PICK v \in PullCopies : RowsLeave(RowsFor(n), v) /\ Visible(v) = Visible(PullCopy(n))
        BY <2>2, <3>2, <3>3 DEF RowRightFor, RowComesRight
      <3>5. v = pr
        BY <3>1, <3>4 DEF RowsLeave
      <3> QED
        BY <3>4, <3>5
    <2>3. ASSUME NEW l \in PageLists \ outdated PROVE list[l] = [of |-> pullAt, head |-> pull[pullAt].head]
      BY <2>3, PullParts DEF ListKnown, ListComes, ListInPlace
    <2> QED
      BY <2>2, <2>3
  <1> QED
    BY <1>1, PullPageInvHolds, PTL

-----------------------------------------------------------------------------
(***************************************************************************)
(* The board (routes/projects.ts).  Every transaction numbers the lists it *)
(* touches anew, as they are when it runs; what it relies on of an earlier *)
(* reading is the column a card was in, and that an order names columns    *)
(* once each.                                                              *)
(***************************************************************************)
Cards == [subject: Subjects, col: Columns, position: Nat]
Pages == [order: Seq(Columns), cards: [Columns -> Seq(Items)]]
Wishes == [op: {"move", "remove", "add", "addColumn", "deleteColumn", "reorder", None}, row: Items \cup {None},
           to: Columns \cup {None}, index: Nat, order: Seq(Columns)]
Changes == [pc: {"new", "look", "write", "answer", "done"}, ours: BOOLEAN, wish: Wishes,
            from: Columns \cup {None}, prev: Pages \cup {None}, ok: BOOLEAN]

\* The rows of the board: a card is of a column that exists, and the only one of its subject.
RowsOfBoard ==
  /\ place \in [Columns -> {None} \cup 0..(Cardinality(Columns) - 1)] /\ dropped \subseteq Columns \ Live
  /\ item \in [Items -> Cards \cup {None}]
  /\ \A r \in Items : item[r] # None => item[r].col \in Live
  /\ \A r, s \in Items : item[r] # None /\ item[s] # None /\ item[r].subject = item[s].subject => r = s
PageOfBoard == page \in Pages /\ losses \in 0..MaxFaults /\ ragged \subseteq Columns \cup {"columns"}
  /\ drift \subseteq {"others", "overlap", "lost", "ties"}

\* What a request asks for; and what its handler and its page know of it at their awaits.
AsksFor(w) ==
  /\ w.op \in {"move", "remove"} => w.row \in Items
  /\ w.op = "add" => w.row \in Subjects
  /\ w.op \in {"move", "add", "deleteColumn"} => w.to \in Columns
Known(x) ==
  /\ x.pc \in {"look", "write", "answer"} => AsksFor(x.wish)
  /\ x.pc = "write" /\ x.wish.op \in {"move", "remove"} => x.from \in Columns
  /\ x.pc = "write" /\ x.wish.op = "reorder" => IsInjective(x.wish.order)
  /\ x.pc = "answer" => x.ours
  /\ x.pc = "answer" /\ x.ok /\ x.wish.op = "addColumn" => x.wish.to \in Columns
  /\ x.pc # "answer" => ~x.ok
  /\ x.ours => x.prev \in Pages
ChangesKnown == change \in [Edits -> Changes] /\ \A q \in Edits : Known(change[q])
NotYetAdded == \A q \in Edits : change[q].pc \in {"new", "look", "write"} => item[q] = None

ColumnsDense == "columns" \notin ragged => {place[c] : c \in Live} = 0..(Cardinality(Live) - 1)
DenseIn(rows, c) == {rows[r].position : r \in InColumn(rows, c)} = 0..(Cardinality(InColumn(rows, c)) - 1)
CardsDense == \A c \in Live \ ragged : DenseIn(item, c)

BoardInv == RowsOfBoard /\ PageOfBoard /\ ChangesKnown /\ NotYetAdded /\ ColumnsDense /\ CardsDense

(***************************************************************************)
(* Lists in the order of a position: the enumerations of a finite set.     *)
(***************************************************************************)
LEMMA ItemsAreFinite ==
  /\ IsFiniteSet(Items) /\ IsFiniteSet(Columns) /\ IsFiniteSet(Live)
  /\ \A rows, c : IsFiniteSet(InColumn(rows, c)) /\ Cardinality(InColumn(rows, c)) \in Nat
  /\ Cardinality(Live) \in Nat /\ Cardinality(Columns) \in Nat
  <1>1. IsFiniteSet(Items)
    BY BoardIsFinite, FS_Union DEF Items
  <1>2. ASSUME NEW rows, NEW c PROVE IsFiniteSet(InColumn(rows, c))
    BY <1>1, FS_Subset, InColumn(rows, c) \subseteq Items DEF InColumn
  <1>3. IsFiniteSet(Live)
    BY BoardIsFinite, FS_Subset, Live \subseteq Columns DEF Live
  <1> QED
    BY <1>1, <1>2, <1>3, BoardIsFinite, FS_CardinalityType

\* A sequence without duplicates enumerates its set, each element at one place.
Enumerates(s, S) == s \in Seq(S) /\ Len(s) = Cardinality(S) /\ IsInjective(s) /\ ToSet(s) = S

LEMMA Enumerations ==
  ASSUME NEW S, IsFiniteSet(S), NEW s \in SetToSeqs(S)
  PROVE  Enumerates(s, S)
  <1> DEFINE n == Cardinality(S)
  <1>1. n \in Nat
    BY FS_CardinalityType
  <1>2. s \in [1..n -> S] /\ IsInjective(s)
    BY DEF SetToSeqs, IsInjective
  <1>3. s \in Injection(1..n, S)
    BY <1>2 DEF Injection
  <1>4. Cardinality(1..n) = n
    BY <1>1, FS_Interval
  <1>5. s \in Surjection(1..n, S)
    BY <1>3, <1>4, FS_Injection
  <1>6. ToSet(s) = S
    BY <1>2, <1>5 DEF ToSet, Surjection
  <1>7. s \in Seq(S) /\ Len(s) = n
    BY <1>1, <1>2
  <1> QED
    BY <1>2, <1>6, <1>7 DEF Enumerates

LEMMA EnumerationsAreAll ==
  ASSUME NEW S, IsFiniteSet(S), NEW s \in Seq(S), IsInjective(s), ToSet(s) = S
  PROVE  Enumerates(s, S) /\ s \in SetToSeqs(S)
  <1>1. s \in [1..Len(s) -> S] /\ Len(s) \in Nat
    OBVIOUS
  <1>2. s \in Injection(1..Len(s), S) /\ s \in Surjection(1..Len(s), S)
    BY <1>1 DEF Injection, Surjection, ToSet, IsInjective
  <1>3. Cardinality(1..Len(s)) = Len(s)
    <2>1. PICK n \in Nat : n = Len(s)
      BY <1>1
    <2>2. Cardinality(1..n) = n
      BY FS_Interval
    <2> QED
      BY <2>1, <2>2
  <1>4. Len(s) = Cardinality(S)
    BY <1>2, <1>3, FS_Injection
  <1> QED
    BY <1>1, <1>4 DEF Enumerates, SetToSeqs, IsInjective

LEMMA PlacesInList ==
  ASSUME NEW S, NEW s, Enumerates(s, S), Cardinality(S) \in Nat
  PROVE  /\ \A x \in S : At(s, x) \in 1..Cardinality(S) /\ s[At(s, x)] = x
         /\ {At(s, x) - 1 : x \in S} = 0..(Cardinality(S) - 1)
  <1> DEFINE n == Cardinality(S)
  <1>1. DOMAIN s = 1..n /\ \A i \in 1..n : s[i] \in S
    BY DEF Enumerates
  <1>2. ASSUME NEW x \in S PROVE At(s, x) \in 1..n /\ s[At(s, x)] = x
    <2>1. \E i \in DOMAIN s : s[i] = x
      BY DEF Enumerates, ToSet
    <2> QED
      BY <2>1, <1>1 DEF At
  <1>3. ASSUME NEW i \in 1..n PROVE At(s, s[i]) = i
    <2>1. At(s, s[i]) \in 1..n /\ s[At(s, s[i])] = s[i]
      BY <1>1, <1>2
    <2> QED
      BY <2>1, <1>1 DEF Enumerates, IsInjective
  <1>4. ASSUME NEW x \in S PROVE At(s, x) - 1 \in 0..(n - 1)
    BY <1>2
  <1>5. ASSUME NEW k \in 0..(n - 1) PROVE k \in {At(s, x) - 1 : x \in S}
    <2>1. k + 1 \in 1..n
      OBVIOUS
    <2>2. At(s, s[k + 1]) = k + 1 /\ s[k + 1] \in S
      BY <2>1, <1>1, <1>3
    <2>3. At(s, s[k + 1]) - 1 = k
      BY <2>2
    <2> QED
      BY <2>2, <2>3
  <1> QED
    BY <1>2, <1>4, <1>5

\* What is where when one sequence is put after another.
LEMMA Joined ==
  ASSUME NEW T, NEW a \in Seq(T), NEW b \in Seq(T)
  PROVE  /\ a \o b \in Seq(T) /\ Len(a \o b) = Len(a) + Len(b)
         /\ \A i \in 1..Len(a) : (a \o b)[i] = a[i]
         /\ \A i \in 1..Len(b) : (a \o b)[Len(a) + i] = b[i]
  OBVIOUS

\* A card put in at an index, and the list that is left when one is taken out.
LEMMA Inserted ==
  ASSUME NEW S, NEW s, Enumerates(s, S), Cardinality(S) \in Nat, IsFiniteSet(S), NEW x, x \notin S, NEW index \in Nat
  PROVE  Enumerates(Insert(s, index, x), S \cup {x})
  <1> DEFINE n == Cardinality(S)
             k == IF index < n THEN index ELSE n
             t == Insert(s, index, x)
  <1>1. s \in Seq(S) /\ Len(s) = n /\ IsInjective(s) /\ ToSet(s) = S /\ DOMAIN s = 1..n
    BY DEF Enumerates
  <1>2. k \in 0..n
    OBVIOUS
  <1>3. t = SubSeq(s, 1, k) \o <<x>> \o SubSeq(s, k + 1, n)
    <2>1. (k + 1) - 1 = k
      BY <1>2
    <2> QED
      BY <1>1, <2>1 DEF Insert, InsertAt
  <1>4. /\ t \in Seq(S \cup {x}) /\ Len(t) = n + 1
        /\ \A i \in 1..k : t[i] = s[i]
        /\ t[k + 1] = x
        /\ \A i \in (k + 2)..(n + 1) : t[i] = s[i - 1]
    <2> DEFINE a == SubSeq(s, 1, k)
               b == SubSeq(s, k + 1, n)
    <2>1. a \in Seq(S) /\ Len(a) = k /\ \A i \in 1..k : a[i] = s[i]
      BY <1>1, <1>2
    <2>2. b \in Seq(S) /\ Len(b) = n - k /\ \A i \in 1..(n - k) : b[i] = s[k + i]
      BY <1>1, <1>2
    <2> HIDE DEF a, b, k
    <2>3. <<x>> \in Seq(S \cup {x}) /\ a \in Seq(S \cup {x}) /\ b \in Seq(S \cup {x})
      BY <2>1, <2>2
    <2>4. a \o <<x>> \in Seq(S \cup {x}) /\ Len(a \o <<x>>) = k + 1
          /\ (\A i \in 1..k : (a \o <<x>>)[i] = a[i]) /\ (a \o <<x>>)[k + 1] = x
      BY <2>1, <2>3, <1>2
    <2> DEFINE ax == a \o <<x>>
    <2> HIDE DEF ax
    <2>5. ax \o b \in Seq(S \cup {x}) /\ Len(ax \o b) = (k + 1) + (n - k)
          /\ (\A i \in 1..(k + 1) : (ax \o b)[i] = ax[i])
          /\ (\A i \in (k + 2)..(n + 1) : (ax \o b)[i] = b[i - (k + 1)])
      <3>1. ax \in Seq(S \cup {x}) /\ Len(ax) = k + 1
        BY <2>4 DEF ax
      <3>2. k \in Nat /\ n \in Nat /\ n - k \in Nat /\ k + 1 \in Nat
        BY <1>2
      <3>3. ax \o b \in Seq(S \cup {x}) /\ Len(ax \o b) = (k + 1) + (n - k)
        <4>1. ax \o b \in Seq(S \cup {x}) /\ Len(ax \o b) = Len(ax) + Len(b)
          BY <3>1, <2>3, Joined
        <4>2. Len(ax) = k + 1 /\ Len(b) = n - k
          BY <3>1, <2>2
        <4> QED
          BY <4>1, <4>2
      <3>4. \A i \in 1..(k + 1) : (ax \o b)[i] = ax[i]
        BY <3>1, <2>3, Joined
      <3>5. \A i \in (k + 2)..(n + 1) : (ax \o b)[i] = b[i - (k + 1)]
        <4> SUFFICES ASSUME NEW i \in (k + 2)..(n + 1) PROVE (ax \o b)[i] = b[i - (k + 1)]
          OBVIOUS
        <4>1. i - (k + 1) \in 1..(n - k) /\ (k + 1) + (i - (k + 1)) = i
          BY <3>2
        <4>2. (ax \o b)[(k + 1) + (i - (k + 1))] = b[i - (k + 1)]
          BY <3>1, <2>2, <2>3, <4>1, Joined
        <4> QED
          BY <4>1, <4>2
      <3> QED
        BY <3>3, <3>4, <3>5
    <2>6. t = ax \o b
      BY <1>3 DEF ax, a, b
    <2>7. \A i \in (k + 2)..(n + 1) : b[i - (k + 1)] = s[i - 1]
      <3> SUFFICES ASSUME NEW i \in (k + 2)..(n + 1) PROVE b[i - (k + 1)] = s[i - 1]
        OBVIOUS
      <3>1. i - (k + 1) \in 1..(n - k) /\ k + (i - (k + 1)) = i - 1
        BY <1>2
      <3> QED
        BY <3>1, <2>2
    <2> HIDE DEF t
    <2> QED
      BY <2>1, <2>4, <2>5, <2>6, <2>7, <1>2 DEF ax
  <1> HIDE DEF t, k
  <1>5. DOMAIN t = 1..(n + 1)
    BY <1>4
  <1>6. ASSUME NEW i \in 1..(n + 1)
        PROVE  \/ i = k + 1 /\ t[i] = x
               \/ i <= k /\ i \in 1..n /\ t[i] = s[i]
               \/ i > k + 1 /\ i - 1 \in 1..n /\ t[i] = s[i - 1]
    BY <1>2, <1>4
  <1>7. IsInjective(t)
    <2> SUFFICES ASSUME NEW i \in 1..(n + 1), NEW j \in 1..(n + 1), t[i] = t[j] PROVE i = j
      BY <1>5 DEF IsInjective
    <2>1. \A m \in 1..n : s[m] \in S
      BY <1>1
    <2>2. \A l, m \in 1..n : s[l] = s[m] => l = m
      BY <1>1 DEF IsInjective
    <2> QED
      BY <1>2, <1>6, <2>1, <2>2
  <1>8. ToSet(t) = S \cup {x}
    <2>1. ASSUME NEW y \in S PROVE \E i \in 1..(n + 1) : t[i] = y
      <3>1. PICK m \in 1..n : s[m] = y
        BY <1>1 DEF ToSet
      <3>2. CASE m <= k
        <4>1. m \in 1..k /\ m \in 1..(n + 1)
          BY <3>2, <1>2
        <4> QED
          BY <4>1, <3>1, <1>4
      <3>3. CASE m > k
        <4>1. m + 1 \in (k + 2)..(n + 1) /\ m + 1 \in 1..(n + 1) /\ (m + 1) - 1 = m
          BY <3>3, <1>2
        <4> QED
          BY <4>1, <3>1, <1>4
      <3> QED
        BY <3>2, <3>3, <1>2
    <2>2. \E i \in 1..(n + 1) : t[i] = x
      BY <1>2, <1>4
    <2>3. ToSet(t) \subseteq S \cup {x}
      BY <1>4 DEF ToSet
    <2> QED
      BY <2>1, <2>2, <2>3, <1>5 DEF ToSet
  <1> QED
    <2>1. IsFiniteSet(S \cup {x})
      BY FS_AddElement
    <2> QED
      BY <1>4, <1>7, <1>8, <2>1, EnumerationsAreAll DEF t

\* Every finite set has an enumeration in the order of a position.
LEMMA LeastPosition ==
  ASSUME NEW T, T \subseteq Nat, T # {}
  PROVE  \E x \in T : \A y \in T : x <= y
  <1> DEFINE R == {pair \in Nat \X Nat : pair[1] < pair[2]}
  <1>1. IsWellFoundedOn(R, Nat)
    BY NatLessThanWellFounded DEF OpToRel
  <1>2. PICK x \in T : \A y \in T : <<y, x>> \notin R
    <2> HIDE DEF R
    <2> QED
      BY <1>1, WFMin
  <1>3. \A y \in T : ~(y < x) /\ x \in Nat /\ y \in Nat
    BY <1>2
  <1> QED
    BY <1>3

LEMMA SortedListsExist ==
  ASSUME NEW S, IsFiniteSet(S), NEW pos, \A x \in S : pos[x] \in Nat
  PROVE  \E s \in Sorted(S, pos) : TRUE
  <1> DEFINE Unsorted == {T \in SUBSET S : Sorted(T, pos) = {}}
             Sizes == {Cardinality(T) : T \in Unsorted}
  <1> SUFFICES ASSUME Sorted(S, pos) = {} PROVE FALSE
    OBVIOUS
  <1>1. \A T \in SUBSET S : IsFiniteSet(T) /\ Cardinality(T) \in Nat
    BY FS_Subset, FS_CardinalityType
  <1>2. PICK T \in Unsorted : \A U \in Unsorted : Cardinality(T) <= Cardinality(U)
    <2>1. Sizes \subseteq Nat /\ Sizes # {}
      BY <1>1
    <2> HIDE DEF Unsorted
    <2>2. PICK size \in Sizes : \A other \in Sizes : size <= other
      <3> HIDE DEF Sizes
      <3> QED
        BY <2>1, LeastPosition
    <2> QED
      BY <2>2
  <1>3. T \subseteq S /\ Sorted(T, pos) = {} /\ IsFiniteSet(T) /\ Cardinality(T) \in Nat
    BY <1>1, <1>2
  <1>4. T # {}
    <2> SUFFICES ASSUME T = {} PROVE FALSE
      OBVIOUS
    <2>1. <<>> \in Seq(T) /\ IsInjective(<<>>) /\ ToSet(<<>>) = T
      BY DEF IsInjective, ToSet
    <2>2. <<>> \in SetToSeqs(T)
      BY <2>1, <1>3, EnumerationsAreAll
    <2>3. <<>> \in Sorted(T, pos)
      BY <2>2 DEF Sorted
    <2> QED
      BY <2>3, <1>3
  <1>5. PICK x \in T : \A y \in T : pos[x] <= pos[y]
    <2> DEFINE P == {pos[y] : y \in T}
    <2>1. P \subseteq Nat /\ P # {}
      BY <1>3, <1>4
    <2>2. PICK p \in P : \A q \in P : p <= q
      <3> HIDE DEF P
      <3> QED
        BY <2>1, LeastPosition
    <2> QED
      BY <2>2
  <1>6. PICK s \in Sorted(T \ {x}, pos) : TRUE
    <2>1. T \ {x} \in SUBSET S /\ Cardinality(T \ {x}) < Cardinality(T)
      <3>1. Cardinality(T \ {x}) = Cardinality(T) - 1
        BY <1>3, FS_RemoveElement
      <3> QED
        BY <1>3, <3>1
    <2>2. T \ {x} \notin Unsorted
      <3>1. Cardinality(T \ {x}) \in Nat
        BY <2>1, <1>1
      <3> QED
        BY <2>1, <3>1, <1>2, <1>3
    <2> QED
      BY <2>1, <2>2
  <1> HIDE DEF Unsorted, Sizes
  <1>7. Enumerates(s, T \ {x}) /\ IsFiniteSet(T \ {x}) /\ Cardinality(T \ {x}) \in Nat
    <2>1. IsFiniteSet(T \ {x}) /\ s \in SetToSeqs(T \ {x})
      BY <1>3, <1>6, FS_RemoveElement DEF Sorted
    <2> QED
      BY <2>1, Enumerations, FS_CardinalityType
  <1> DEFINE t == <<x>> \o s
  <1>8. s \in Seq(T \ {x}) /\ IsInjective(s) /\ ToSet(s) = T \ {x} /\ Len(s) \in Nat
    BY <1>7 DEF Enumerates
  <1>9. /\ t \in Seq(T) /\ Len(t) = Len(s) + 1 /\ t[1] = x
        /\ \A i \in 2..(Len(s) + 1) : t[i] = s[i - 1] /\ i - 1 \in 1..Len(s)
    <2>1. <<x>> \in Seq(T) /\ s \in Seq(T) /\ Len(<<x>>) = 1 /\ <<x>>[1] = x
      BY <1>8
    <2> QED
      BY <2>1, <1>8
  <1> HIDE DEF t
  <1>10. \A i \in 2..(Len(s) + 1) : t[i] \in T /\ t[i] # x
    BY <1>8, <1>9
  <1>11. IsInjective(t)
    <2> SUFFICES ASSUME NEW i \in 1..(Len(s) + 1), NEW j \in 1..(Len(s) + 1), t[i] = t[j] PROVE i = j
      BY <1>9 DEF IsInjective
    <2>1. \A l, m \in 1..Len(s) : s[l] = s[m] => l = m
      BY <1>8 DEF IsInjective
    <2>2. \A l \in 1..(Len(s) + 1) : l = 1 \/ l \in 2..(Len(s) + 1)
      BY <1>8
    <2>3. CASE i = 1 \/ j = 1
      BY <2>2, <2>3, <1>9, <1>10
    <2>4. CASE i # 1 /\ j # 1
      <3>1. i - 1 \in 1..Len(s) /\ j - 1 \in 1..Len(s) /\ s[i - 1] = s[j - 1]
        BY <2>2, <2>4, <1>9
      <3>2. i - 1 = j - 1
        BY <3>1, <2>1
      <3> QED
        BY <3>2
    <2> QED
      BY <2>3, <2>4
  <1>12. ToSet(t) = T
    <2>1. ASSUME NEW y \in T, y # x PROVE \E i \in 1..(Len(s) + 1) : t[i] = y
      <3>1. PICK m \in 1..Len(s) : s[m] = y
        BY <1>8, <2>1 DEF ToSet
      <3>2. m + 1 \in 2..(Len(s) + 1) /\ m + 1 \in 1..(Len(s) + 1) /\ (m + 1) - 1 = m
        BY <1>8
      <3> QED
        BY <3>1, <3>2, <1>9
    <2>2. 1 \in 1..(Len(s) + 1)
      BY <1>8
    <2>3. ToSet(t) \subseteq T
      BY <1>9 DEF ToSet
    <2> QED
      BY <2>1, <2>2, <2>3, <1>9 DEF ToSet
  <1>13. t \in SetToSeqs(T)
    BY <1>3, <1>9, <1>11, <1>12, EnumerationsAreAll
  <1>14. \A i, j \in DOMAIN t : i < j => pos[t[i]] <= pos[t[j]]
    <2> SUFFICES ASSUME NEW i \in 1..(Len(s) + 1), NEW j \in 1..(Len(s) + 1), i < j
                 PROVE  pos[t[i]] <= pos[t[j]]
      BY <1>9
    <2>1. j \in 2..(Len(s) + 1)
      BY <1>8
    <2>2. CASE i = 1
      BY <2>1, <2>2, <1>5, <1>9, <1>10
    <2>3. CASE i # 1
      <3>1. i \in 2..(Len(s) + 1) /\ i - 1 < j - 1
        BY <2>3, <1>8
      <3>2. \A l, m \in 1..Len(s) : l < m => pos[s[l]] <= pos[s[m]]
        BY <1>6, <1>8 DEF Sorted
      <3> QED
        BY <2>1, <3>1, <3>2, <1>9
    <2> QED
      BY <2>2, <2>3
  <1>15. t \in Sorted(T, pos)
    BY <1>13, <1>14 DEF Sorted
  <1> QED
    BY <1>15, <1>3

\* Lists of cards and of columns are enumerations, and there are some.
LEMMA ListsAreEnumerations ==
  /\ \A rows, c : \A s \in Lists(rows, c) : Enumerates(s, InColumn(rows, c))
  /\ \A places : \A s \in ColumnLists(places) : Enumerates(s, {c \in Columns : places[c] # None})
  <1>1. ASSUME NEW rows, NEW c, NEW s \in Lists(rows, c) PROVE Enumerates(s, InColumn(rows, c))
    BY ItemsAreFinite, Enumerations DEF Lists, Sorted
  <1>2. ASSUME NEW places, NEW s \in ColumnLists(places)
        PROVE  Enumerates(s, {c \in Columns : places[c] # None})
    <2>1. IsFiniteSet({c \in Columns : places[c] # None})
      BY BoardIsFinite, FS_Subset, {c \in Columns : places[c] # None} \subseteq Columns
    <2>2. s \in SetToSeqs({c \in Columns : places[c] # None})
      BY DEF ColumnLists, Sorted
    <2> QED
      BY <2>1, <2>2, Enumerations
  <1> QED
    BY <1>1, <1>2

LEMMA LoadedIsPage ==
  ASSUME RowsOfBoard
  PROVE  /\ AsLoaded \in Pages
         /\ AsLoaded.order \in ColumnLists(place) /\ \A c \in Columns : AsLoaded.cards[c] \in Lists(item, c)
  <1>1. PICK l : l \in ColumnLists(place)
    <2>1. IsFiniteSet(Live) /\ \A c \in Live : place[c] \in Nat
      <3>1. \A c \in Live : place[c] \in 0..(Cardinality(Columns) - 1)
        BY DEF RowsOfBoard, Live, Exists
      <3> QED
        BY <3>1, ItemsAreFinite
    <2>2. \E s \in Sorted(Live, place) : TRUE
      BY <2>1, SortedListsExist
    <2>3. Live = {c \in Columns : place[c] # None}
      BY DEF Live, Exists
    <2> QED
      BY <2>2, <2>3 DEF ColumnLists
  <1>2. ASSUME NEW c \in Columns PROVE \E s : s \in Lists(item, c)
    <2> DEFINE pos == [r \in InColumn(item, c) |-> item[r].position]
    <2>1. \A r \in InColumn(item, c) : pos[r] \in Nat
      BY DEF RowsOfBoard, InColumn, Cards
    <2> HIDE DEF pos
    <2>2. \E s \in Sorted(InColumn(item, c), pos) : TRUE
      BY <2>1, SortedListsExist, ItemsAreFinite
    <2> QED
      BY <2>2 DEF Lists, pos
  <1>3. /\ AsLoaded.order \in ColumnLists(place)
        /\ \A c \in Columns : AsLoaded.cards[c] \in Lists(item, c)
    BY <1>1, <1>2 DEF AsLoaded
  <1>4. AsLoaded.order \in Seq(Columns)
    <2>1. Enumerates(AsLoaded.order, {c \in Columns : place[c] # None})
      BY <1>3, ListsAreEnumerations
    <2> QED
      BY <2>1 DEF Enumerates
  <1>5. ASSUME NEW c \in Columns PROVE AsLoaded.cards[c] \in Seq(Items)
    <2>1. Enumerates(AsLoaded.cards[c], InColumn(item, c))
      BY <1>3, ListsAreEnumerations
    <2>2. InColumn(item, c) \subseteq Items
      BY DEF InColumn
    <2> QED
      BY <2>1, <2>2 DEF Enumerates
  <1>6. AsLoaded.cards \in [Columns -> Seq(Items)]
    BY <1>5 DEF AsLoaded
  <1> QED
    <2>1. AsLoaded = [order |-> AsLoaded.order, cards |-> AsLoaded.cards]
      BY DEF AsLoaded
    <2> QED
      BY <1>3, <1>4, <1>6, <2>1 DEF Pages

(***************************************************************************)
(* Numbering a list anew leaves its column dense, and every other as it    *)
(* was but for what came from there.                                       *)
(***************************************************************************)
Table == [Items -> Cards \cup {None}]

LEMMA NoneIsApart == None \notin Cards /\ None \notin Nat
  BY NoneIsNoCard DEF Cards

Renumbered(card, c, i) == [card EXCEPT !.col = c, !.position = i]

LEMMA CardRenumbered ==
  ASSUME NEW card \in Cards, NEW c \in Columns, NEW i \in Nat, NEW to, to = Renumbered(card, c, i)
  PROVE  to \in Cards /\ to.col = c /\ to.position = i /\ to.subject = card.subject /\ to # None
  BY NoneIsApart DEF Cards, Renumbered

LEMMA NumberedIsDense ==
  ASSUME NEW rows \in Table, NEW c \in Columns, NEW s, NEW S, Enumerates(s, S), S \subseteq Items,
         InColumn(rows, c) \subseteq S, \A r \in S : rows[r] # None
  PROVE  LET new == Numbered(rows, c, s) IN
         /\ new \in Table
         /\ \A r \in Items : (new[r] = None) = (rows[r] = None)
         /\ \A r \in Items : rows[r] # None => new[r].subject = rows[r].subject
         /\ \A r \in Items \ S : new[r] = rows[r]
         /\ \A r \in S : new[r].col = c /\ new[r].position = At(s, r) - 1
         /\ InColumn(new, c) = S
         /\ DenseIn(new, c)
         /\ \A d \in Columns \ {c} : InColumn(new, d) = InColumn(rows, d) \ S
  <1> DEFINE new == Numbered(rows, c, s)
  <1>1. ToSet(s) = S
    BY DEF Enumerates
  <1>2. IsFiniteSet(S) /\ Cardinality(S) \in Nat
    <2>1. IsFiniteSet(S)
      BY ItemsAreFinite, FS_Subset
    <2> QED
      BY <2>1, FS_CardinalityType
  <1>3. /\ \A r \in S : At(s, r) \in 1..Cardinality(S)
        /\ {At(s, r) - 1 : r \in S} = 0..(Cardinality(S) - 1)
    BY <1>2, PlacesInList
  <1>4. \A r \in Items : new[r] = IF r \in S THEN Renumbered(rows[r], c, At(s, r) - 1) ELSE rows[r]
    BY <1>1 DEF Numbered, Renumbered
  <1> HIDE DEF new
  <1>5. ASSUME NEW r \in S
        PROVE  /\ new[r] \in Cards /\ new[r].col = c /\ new[r].position = At(s, r) - 1
               /\ new[r].subject = rows[r].subject /\ new[r] # None
    <2>1. rows[r] \in Cards /\ At(s, r) - 1 \in Nat /\ r \in Items
      BY <1>3 DEF Table
    <2>2. new[r] = Renumbered(rows[r], c, At(s, r) - 1)
      BY <2>1, <1>4
    <2> QED
      BY <2>1, <2>2, CardRenumbered
  <1>6. new \in Table
    <2>1. \A r \in Items : new[r] \in Cards \cup {None}
      BY <1>4, <1>5 DEF Table
    <2>2. DOMAIN new = Items /\ new = [r \in Items |-> new[r]]
      BY DEF Numbered, new
    <2> QED
      BY <2>1, <2>2 DEF Table
  <1>7. InColumn(new, c) = S
    BY <1>4, <1>5 DEF InColumn
  <1>8. DenseIn(new, c)
    <2>1. {new[r].position : r \in S} = {At(s, r) - 1 : r \in S}
      BY <1>5
    <2> QED
      BY <2>1, <1>3, <1>7 DEF DenseIn
  <1>9. \A d \in Columns \ {c} : InColumn(new, d) = InColumn(rows, d) \ S
    BY <1>4, <1>5 DEF InColumn
  <1> QED
    BY <1>4, <1>5, <1>6, <1>7, <1>8, <1>9 DEF new

\* The same for the columns.
LEMMA ColumnsNumbered ==
  ASSUME NEW s, NEW S, Enumerates(s, S), S \subseteq Columns, NEW rest,
         NEW new, \A c \in Columns : new[c] = IF c \in ToSet(s) THEN At(s, c) - 1 ELSE rest[c]
  PROVE  /\ \A c \in S : new[c] \in 0..(Cardinality(Columns) - 1) /\ new[c] # None
         /\ \A c \in Columns \ S : new[c] = rest[c]
         /\ {new[c] : c \in S} = 0..(Cardinality(S) - 1)
  <1>1. ToSet(s) = S
    BY DEF Enumerates
  <1>2. IsFiniteSet(S) /\ Cardinality(S) \in Nat /\ Cardinality(S) <= Cardinality(Columns)
    <2>1. IsFiniteSet(S) /\ Cardinality(S) <= Cardinality(Columns)
      BY BoardIsFinite, FS_Subset
    <2> QED
      BY <2>1, FS_CardinalityType
  <1>3. /\ \A c \in S : At(s, c) \in 1..Cardinality(S)
        /\ {At(s, c) - 1 : c \in S} = 0..(Cardinality(S) - 1)
    BY <1>2, PlacesInList
  <1>4. \A c \in S : new[c] = At(s, c) - 1
    BY <1>1
  <1>5. ASSUME NEW c \in S PROVE new[c] \in 0..(Cardinality(Columns) - 1) /\ new[c] # None
    <2>1. At(s, c) - 1 \in 0..(Cardinality(Columns) - 1) /\ At(s, c) - 1 \in Nat
      BY <1>2, <1>3, ItemsAreFinite
    <2> QED
      BY <2>1, <1>4, NoneIsApart
  <1>6. {new[c] : c \in S} = {At(s, c) - 1 : c \in S}
    BY <1>4
  <1> QED
    BY <1>1, <1>3, <1>5, <1>6

(***************************************************************************)
(* What a step does to the page and to the request that takes it.          *)
(***************************************************************************)
LEMMA TakenOut ==
  ASSUME NEW T, NEW s \in Seq(T), NEW x
  PROVE  TakeOut(s, x) \in Seq(T) /\ Len(TakeOut(s, x)) \in Nat
  <1>1. CASE x \in ToSet(s)
    <2>1. \E i \in DOMAIN s : s[i] = x
      BY <1>1 DEF ToSet
    <2>2. PICK i \in 1..Len(s) : i = At(s, x)
      BY <2>1 DEF At
    <2>3. SubSeq(s, 1, i - 1) \in Seq(T) /\ SubSeq(s, i + 1, Len(s)) \in Seq(T)
      <3>1. i - 1 \in Nat /\ i + 1 \in Nat /\ i - 1 <= Len(s) /\ i + 1 > 0 /\ Len(s) \in Nat
        OBVIOUS
      <3> QED
        BY <3>1
    <2>4. TakeOut(s, x) = SubSeq(s, 1, i - 1) \o SubSeq(s, i + 1, Len(s))
      BY <1>1, <2>2 DEF TakeOut, RemoveAt
    <2>5. PICK a \in Seq(T), b \in Seq(T) : a = SubSeq(s, 1, i - 1) /\ b = SubSeq(s, i + 1, Len(s))
      BY <2>3
    <2>6. TakeOut(s, x) = a \o b
      BY <2>4, <2>5
    <2> QED
      BY <2>6
  <1>2. CASE x \notin ToSet(s)
    BY <1>2 DEF TakeOut
  <1> QED
    BY <1>1, <1>2

LEMMA PutIn ==
  ASSUME NEW T, NEW s \in Seq(T), NEW x \in T, NEW index \in Nat
  PROVE  Insert(s, index, x) \in Seq(T)
  <1>1. PICK k \in 0..Len(s) : k = IF index < Len(s) THEN index ELSE Len(s)
    OBVIOUS
  <1>2. Insert(s, index, x) = SubSeq(s, 1, (k + 1) - 1) \o <<x>> \o SubSeq(s, k + 1, Len(s))
    BY <1>1 DEF Insert, InsertAt
  <1>3. (k + 1) - 1 = k
    OBVIOUS
  <1>4. SubSeq(s, 1, k) \in Seq(T) /\ <<x>> \in Seq(T) /\ SubSeq(s, k + 1, Len(s)) \in Seq(T)
    OBVIOUS
  <1> QED
    BY <1>2, <1>3, <1>4

LEMMA CardsPut ==
  ASSUME NEW p \in Pages, NEW c \in Columns, NEW laid \in Seq(Items)
  PROVE  [p EXCEPT !.cards[c] = laid] \in Pages
  <1>1. PICK cards \in [Columns -> Seq(Items)] : cards = [p.cards EXCEPT ![c] = laid]
    BY DEF Pages
  <1>2. [p EXCEPT !.cards[c] = laid] = [p EXCEPT !.cards = cards]
    BY <1>1
  <1> QED
    BY <1>1, <1>2 DEF Pages

LEMMA PagesChange ==
  ASSUME NEW p \in Pages, NEW r \in Items
  PROVE  /\ Without(p, r) \in Pages
         /\ \A to \in Columns, index \in Nat : ApplyMove(p, r, to, index) \in Pages
         /\ \A order \in Seq(Columns) : [p EXCEPT !.order = order] \in Pages
         /\ \A to \in Columns : [p EXCEPT !.cards[to] = Append(@, r)] \in Pages
  <1>1. p.order \in Seq(Columns) /\ p.cards \in [Columns -> Seq(Items)]
    BY DEF Pages
  <1>2. Without(p, r) \in Pages
    <2>1. PICK cards \in [Columns -> Seq(Items)] : cards = [c \in Columns |-> TakeOut(p.cards[c], r)]
      BY <1>1, TakenOut
    <2>2. Without(p, r) = [p EXCEPT !.cards = cards]
      BY <2>1 DEF Without
    <2> QED
      BY <2>1, <2>2 DEF Pages
  <1>3. ASSUME NEW to \in Columns, NEW index \in Nat PROVE ApplyMove(p, r, to, index) \in Pages
    <2>1. PICK w \in Pages : w = Without(p, r)
      BY <1>2
    <2>2. PICK laid \in Seq(Items) : laid = Insert(w.cards[to], index, r)
      <3>1. w.cards[to] \in Seq(Items)
        BY DEF Pages
      <3> QED
        BY <3>1, PutIn
    <2>3. ApplyMove(p, r, to, index) = [w EXCEPT !.cards[to] = laid]
      BY <2>1, <2>2 DEF ApplyMove
    <2> QED
      BY <2>3, CardsPut
  <1>4. ASSUME NEW order \in Seq(Columns) PROVE [p EXCEPT !.order = order] \in Pages
    BY DEF Pages
  <1>5. ASSUME NEW to \in Columns PROVE [p EXCEPT !.cards[to] = Append(@, r)] \in Pages
    <2>0. PICK old \in Seq(Items) : old = p.cards[to]
      BY <1>1
    <2>1. PICK laid \in Seq(Items) : laid = Append(p.cards[to], r)
      <3>1. Append(old, r) \in Seq(Items)
        OBVIOUS
      <3> QED
        BY <2>0, <3>1
    <2>2. [p EXCEPT !.cards[to] = Append(@, r)] = [p EXCEPT !.cards[to] = laid]
      BY <2>1
    <2> QED
      BY <2>2, CardsPut
  <1> QED
    BY <1>2, <1>3, <1>4, <1>5

LEMMA ChangeMoves ==
  ASSUME ChangesKnown, NEW q \in Edits, NEW x \in Changes, Known(x), change' = [change EXCEPT ![q] = x]
  PROVE  /\ ChangesKnown'
         /\ change'[q] = x /\ \A p \in Edits \ {q} : change'[p] = change[p]
  BY DEF ChangesKnown

\* A step that leaves the rows alone, as most do.
LEMMA BoardRowsStay ==
  ASSUME BoardInv, UNCHANGED <<place, dropped, item, ragged>>, PageOfBoard', ChangesKnown', NotYetAdded'
  PROVE  BoardInv'
  <1>1. RowsOfBoard'
    BY DEF BoardInv, RowsOfBoard, Live, Exists
  <1>2. ColumnsDense' /\ CardsDense'
    BY DEF BoardInv, ColumnsDense, CardsDense, DenseIn, Live, Exists, InColumn
  <1> QED
    BY <1>1, <1>2 DEF BoardInv

LEMMA SettledIsKnown == Idle \in Changes /\ Known(Idle) /\ Settled \in Changes /\ Known(Settled)
  <1>1. NoWish \in Wishes
    BY DEF NoWish, Wish, Wishes
  <1>2. Idle \in Changes /\ Idle.pc = "new" /\ ~Idle.ours /\ ~Idle.ok
    BY <1>1 DEF Idle, Changes
  <1>3. PICK x \in Changes : x = Idle
    BY <1>2
  <1>4. [x EXCEPT !.pc = "done"] \in Changes
        /\ [x EXCEPT !.pc = "done"].pc = "done" /\ [x EXCEPT !.pc = "done"].ours = x.ours
        /\ [x EXCEPT !.pc = "done"].ok = x.ok
    BY DEF Changes
  <1>5. Settled \in Changes /\ Settled.pc = "done" /\ ~Settled.ours /\ ~Settled.ok
    BY <1>2, <1>3, <1>4 DEF Settled
  <1> QED
    BY <1>2, <1>5 DEF Known

LEMMA SendStep ==
  ASSUME BoardInv, NEW q \in Edits, NEW w \in Wishes, AsksFor(w), NEW shown \in Pages, Send(q, w, shown)
  PROVE  BoardInv'
  <1>1. change[q] \in Changes /\ Known(change[q]) /\ change[q].pc = "new" /\ page \in Pages
    BY DEF BoardInv, ChangesKnown, Send, PageOfBoard
  <1>2. PICK x \in Changes : x = change[q]
    BY <1>1
  <1>3. PICK p \in Pages : p = page
    BY <1>1
  <1>4. PICK y : y = [x EXCEPT !.pc = "look", !.ours = TRUE, !.wish = w, !.prev = p]
    OBVIOUS
  <1>5. y \in Changes /\ y.pc = "look" /\ y.ours /\ y.wish = w /\ y.prev = p /\ y.ok = x.ok
    BY <1>4 DEF Changes
  <1>6. change' = [change EXCEPT ![q] = y]
    BY <1>2, <1>3, <1>4 DEF Send
  <1>7. Known(y)
    BY <1>1, <1>2, <1>5 DEF Known
  <1>8. ChangesKnown' /\ change'[q] = y /\ \A e \in Edits \ {q} : change'[e] = change[e]
    BY <1>5, <1>6, <1>7, ChangeMoves DEF BoardInv
  <1>9. PageOfBoard'
    BY DEF Send, BoardInv, PageOfBoard
  <1>10. NotYetAdded'
    BY <1>1, <1>8 DEF Send, BoardInv, NotYetAdded
  <1> QED
    BY <1>8, <1>9, <1>10, BoardRowsStay DEF Send

LEMMA WishesMade ==
  ASSUME NEW op, op \in {"move", "remove", "add", "addColumn", "deleteColumn", "reorder"},
         NEW r \in Items \cup {None}, NEW to \in Columns \cup {None}, NEW index \in Nat, NEW order \in Seq(Columns),
         op \in {"move", "remove"} => r \in Items, op = "add" => r \in Subjects,
         op \in {"move", "add", "deleteColumn"} => to \in Columns
  PROVE  Wish(op, r, to, index, order) \in Wishes /\ AsksFor(Wish(op, r, to, index, order))
  BY DEF Wish, Wishes, AsksFor

LEMMA SendsStep ==
  ASSUME BoardInv, NEW q \in Edits,
         \/ MoveItem(q) \/ RemoveItem(q) \/ AddItem(q) \/ AddColumn(q) \/ DeleteColumn(q) \/ ReorderColumns(q)
  PROVE  BoardInv'
  <1>1. page \in Pages /\ page.order \in Seq(Columns) /\ page.cards \in [Columns -> Seq(Items)]
    BY DEF BoardInv, PageOfBoard, Pages
  <1>2. ToSet(page.order) \subseteq Columns /\ OnPage \subseteq Items /\ Subjects \subseteq Items
    BY <1>1 DEF ToSet, OnPage, Items
  <1>3. <<>> \in Seq(Columns) /\ 0 \in Nat
    OBVIOUS
  <1>4. CASE MoveItem(q)
    <2>1. PICK r \in Items, to \in Columns, index \in Nat :
            Send(q, Wish("move", r, to, index, <<>>), ApplyMove(page, r, to, index))
      <3>1. PICK r \in OnPage, to \in ToSet(page.order) : \E index \in 0..Len(TakeOut(page.cards[to], r)) :
              Send(q, Wish("move", r, to, index, <<>>), ApplyMove(page, r, to, index))
        BY <1>4 DEF MoveItem
      <3>2. r \in Items /\ to \in Columns /\ page.cards[to] \in Seq(Items)
        BY <1>1, <1>2
      <3>3. Len(TakeOut(page.cards[to], r)) \in Nat
        BY <3>2, TakenOut
      <3> QED
        BY <3>1, <3>2, <3>3
    <2>2. Wish("move", r, to, index, <<>>) \in Wishes /\ AsksFor(Wish("move", r, to, index, <<>>))
      BY <1>3, WishesMade
    <2>3. ApplyMove(page, r, to, index) \in Pages
      BY <1>1, PagesChange
    <2> QED
      BY <2>1, <2>2, <2>3, SendStep
  <1>5. CASE RemoveItem(q)
    <2>1. PICK r \in Items : Send(q, Wish("remove", r, None, 0, <<>>), Without(page, r))
      BY <1>2, <1>5 DEF RemoveItem
    <2>2. Wish("remove", r, None, 0, <<>>) \in Wishes /\ AsksFor(Wish("remove", r, None, 0, <<>>))
      BY <1>3, WishesMade
    <2>3. Without(page, r) \in Pages
      BY <1>1, PagesChange
    <2> QED
      BY <2>1, <2>2, <2>3, SendStep
  <1>6. CASE AddItem(q)
    <2>1. PICK s \in Subjects, to \in Columns : Send(q, Wish("add", s, to, 0, <<>>), page)
      BY <1>2, <1>6 DEF AddItem
    <2>2. Wish("add", s, to, 0, <<>>) \in Wishes /\ AsksFor(Wish("add", s, to, 0, <<>>))
      BY <1>2, <1>3, WishesMade
    <2> QED
      BY <1>1, <2>1, <2>2, SendStep
  <1>7. CASE AddColumn(q)
    <2>1. Wish("addColumn", None, None, 0, <<>>) \in Wishes /\ AsksFor(Wish("addColumn", None, None, 0, <<>>))
      BY <1>3, WishesMade
    <2> QED
      BY <1>1, <1>7, <2>1, SendStep DEF AddColumn
  <1>8. CASE DeleteColumn(q)
    <2>1. PICK c \in Columns :
            Send(q, Wish("deleteColumn", None, c, 0, <<>>), [page EXCEPT !.order = TakeOut(page.order, c)])
      BY <1>2, <1>8 DEF DeleteColumn
    <2>2. Wish("deleteColumn", None, c, 0, <<>>) \in Wishes /\ AsksFor(Wish("deleteColumn", None, c, 0, <<>>))
      BY <1>3, WishesMade
    <2>3. PICK order \in Seq(Columns) : order = TakeOut(page.order, c)
      BY <1>1, TakenOut
    <2>4. PICK shown \in Pages : shown = [page EXCEPT !.order = TakeOut(page.order, c)]
      <3>1. PICK p \in Pages : p = page
        BY <1>1
      <3>2. [p EXCEPT !.order = order] \in Pages
        BY DEF Pages
      <3> QED
        BY <2>3, <3>1, <3>2
    <2>5. Send(q, Wish("deleteColumn", None, c, 0, <<>>), shown)
      BY <2>1, <2>4
    <2> QED
      BY <2>2, <2>5, SendStep
  <1>9. CASE ReorderColumns(q)
    <2> DEFINE Swapped(i) == [page.order EXCEPT ![i] = page.order[i + 1], ![i + 1] = page.order[i]]
    <2>1. PICK i \in 1..(Len(page.order) - 1) :
            Send(q, Wish("reorder", None, None, 0, Swapped(i)), [page EXCEPT !.order = Swapped(i)])
      BY <1>9 DEF ReorderColumns
    <2>2. Swapped(i) \in Seq(Columns)
      <3>1. PICK o \in Seq(Columns) : o = page.order
        BY <1>1
      <3>2. PICK l \in Nat : l = Len(o)
        OBVIOUS
      <3>3. o \in [1..l -> Columns] /\ i \in 1..l /\ i + 1 \in 1..l
        BY <2>1, <3>1, <3>2
      <3>4. [o EXCEPT ![i] = o[i + 1], ![i + 1] = o[i]] \in [1..l -> Columns]
        BY <3>3
      <3> QED
        BY <3>1, <3>2, <3>4
    <2>3. PICK order \in Seq(Columns) : order = Swapped(i)
      BY <2>2
    <2> HIDE DEF Swapped
    <2>4. Send(q, Wish("reorder", None, None, 0, order), [page EXCEPT !.order = order])
      BY <2>1, <2>3
    <2>5. [page EXCEPT !.order = order] \in Pages
      BY <1>1, <1>3, PagesChange DEF Pages
    <2>6. Wish("reorder", None, None, 0, order) \in Wishes /\ AsksFor(Wish("reorder", None, None, 0, order))
      BY <1>3, WishesMade
    <2> QED
      BY <2>4, <2>5, <2>6, SendStep
  <1> QED
    BY <1>4, <1>5, <1>6, <1>7, <1>8, <1>9

LEMMA UnsentStep ==
  ASSUME BoardInv, NEW q \in Edits, Unsent(q)
  PROVE  BoardInv'
  <1>1. PICK x \in Changes : x = change[q] /\ Known(x) /\ x.pc = "look" /\ x.ours
    BY DEF BoardInv, ChangesKnown, Unsent
  <1>2. PICK y : y = [x EXCEPT !.pc = "answer"]
    OBVIOUS
  <1>3. y \in Changes /\ y.pc = "answer" /\ y.ours /\ y.wish = x.wish /\ y.prev = x.prev /\ y.ok = x.ok
    BY <1>1, <1>2 DEF Changes
  <1>4. change' = [change EXCEPT ![q] = y] /\ Known(y)
    BY <1>1, <1>2, <1>3 DEF Unsent, Known
  <1>5. ChangesKnown' /\ change'[q] = y /\ \A e \in Edits \ {q} : change'[e] = change[e]
    BY <1>3, <1>4, ChangeMoves DEF BoardInv
  <1>6. PageOfBoard'
    BY FaultBound DEF Unsent, BoardInv, PageOfBoard
  <1>7. NotYetAdded'
    BY <1>3, <1>5 DEF Unsent, BoardInv, NotYetAdded
  <1> QED
    BY <1>5, <1>6, <1>7, BoardRowsStay DEF Unsent

LEMMA HearsStep ==
  ASSUME BoardInv, NEW q \in Edits, Hears(q)
  PROVE  BoardInv'
  <1>1. PICK x \in Changes : x = change[q] /\ Known(x) /\ x.pc = "answer"
    BY DEF BoardInv, ChangesKnown, Hears
  <1>2. ChangesKnown' /\ change'[q] = Settled /\ \A e \in Edits \ {q} : change'[e] = change[e]
    BY SettledIsKnown, ChangeMoves DEF BoardInv, Hears
  <1>3. page \in Pages /\ q \in Items
    BY DEF BoardInv, PageOfBoard, Items
  <1>4. ASSUME NEW ok \in BOOLEAN, ok => x.ok, Settle(q, ok) PROVE page' \in Pages
    <2>1. page' = CASE ok /\ x.wish.op = "add" -> [page EXCEPT !.cards[x.wish.to] = Append(@, q)]
                    [] ok /\ x.wish.op = "addColumn" -> [page EXCEPT !.order = Append(@, x.wish.to)]
                    [] ~ok /\ x.wish.op \notin {"add", "addColumn"} -> x.prev
                    [] OTHER -> page
      BY <1>1, <1>4 DEF Settle
    <2>2. CASE ok /\ x.wish.op = "add"
      <3>1. x.wish.to \in Columns
        BY <1>1, <2>2 DEF Known, AsksFor
      <3>2. page' = [page EXCEPT !.cards[x.wish.to] = Append(@, q)]
        BY <2>1, <2>2
      <3> QED
        BY <1>3, <3>1, <3>2, PagesChange
    <2>3. CASE ok /\ x.wish.op = "addColumn"
      <3>1. x.wish.to \in Columns
        BY <1>1, <1>4, <2>3 DEF Known
      <3>2. PICK order \in Seq(Columns) : order = Append(page.order, x.wish.to)
        <4>1. PICK o \in Seq(Columns), c \in Columns : o = page.order /\ c = x.wish.to
          BY <1>3, <3>1 DEF Pages
        <4>2. Append(o, c) \in Seq(Columns)
          OBVIOUS
        <4> QED
          BY <4>1, <4>2
      <3>3. page' = [page EXCEPT !.order = order]
        BY <2>1, <2>3, <3>2
      <3> QED
        BY <1>3, <3>3, PagesChange
    <2>4. CASE ~ok /\ x.wish.op \notin {"add", "addColumn"}
      BY <1>1, <2>1, <2>4 DEF Known
    <2>5. CASE ~(ok /\ x.wish.op = "add") /\ ~(ok /\ x.wish.op = "addColumn")
               /\ ~(~ok /\ x.wish.op \notin {"add", "addColumn"})
      BY <1>3, <2>1, <2>5
    <2> QED
      BY <2>2, <2>3, <2>4, <2>5
  <1>5. x.ok \in BOOLEAN
    BY <1>1 DEF Changes
  <1>6. page' \in Pages
    <2>1. CASE Settle(q, x.ok)
      BY <1>4, <1>5, <2>1
    <2>2. CASE Settle(q, FALSE)
      BY <1>4, <2>2
    <2>3. Settle(q, x.ok) \/ Settle(q, FALSE)
      BY <1>1 DEF Hears
    <2> QED
      BY <2>1, <2>2, <2>3
  <1>7. PageOfBoard'
    <2>1. losses' \in 0..MaxFaults /\ drift' \subseteq {"others", "overlap", "lost", "ties"} /\ ragged' = ragged
      <3>1. losses \in 0..MaxFaults /\ drift \subseteq {"others", "overlap", "lost", "ties"}
        BY DEF BoardInv, PageOfBoard
      <3>2. /\ ragged' = ragged
            /\ \/ losses' = losses /\ drift' = drift
               \/ losses < MaxFaults /\ losses' = losses + 1 /\ drift' = drift \cup {"lost"}
        BY DEF Hears
      <3>3. losses' \in 0..MaxFaults
        BY <3>1, <3>2, FaultBound
      <3> QED
        BY <3>1, <3>2, <3>3
    <2>2. ragged \subseteq Columns \cup {"columns"}
      BY DEF BoardInv, PageOfBoard
    <2> QED
      BY <1>6, <2>1, <2>2 DEF PageOfBoard
  <1>8. NotYetAdded'
    BY <1>2 DEF Hears, BoardInv, NotYetAdded, Settled, Idle
  <1> QED
    BY <1>2, <1>7, <1>8, BoardRowsStay DEF Hears

LEMMA ReloadStep ==
  ASSUME BoardInv, Reload
  PROVE  BoardInv'
  <1>1. PageOfBoard'
    BY LoadedIsPage DEF Reload, BoardInv, PageOfBoard
  <1>2. ChangesKnown' /\ NotYetAdded'
    BY DEF Reload, BoardInv, ChangesKnown, NotYetAdded
  <1> QED
    BY <1>1, <1>2, BoardRowsStay DEF Reload

LEMMA ArrivesStep ==
  ASSUME BoardInv, NEW q \in Edits, Arrives(q)
  PROVE  BoardInv'
  <1>1. PICK x \in Changes : x = change[q] /\ Known(x) /\ x.pc = "new"
    BY DEF BoardInv, ChangesKnown, Arrives
  <1>2. PICK r \in Items, s \in Subjects, to \in Live, index \in {0, Cardinality(Items)}, order \in SetToSeqs(Live) :
        \E wish \in {Wish("move", r, to, index, <<>>), Wish("remove", r, None, 0, <<>>),
                     Wish("add", s, to, 0, <<>>), Wish("addColumn", None, None, 0, <<>>),
                     Wish("deleteColumn", None, to, 0, <<>>), Wish("reorder", None, None, 0, order)} :
          change' = [change EXCEPT ![q].pc = "look", ![q].wish = wish]
    BY DEF Arrives
  <1>3. to \in Columns /\ s \in Items /\ index \in Nat /\ <<>> \in Seq(Columns)
    BY ItemsAreFinite, FS_CardinalityType DEF Live, Items
  <1>4. order \in Seq(Columns)
    <2>1. Enumerates(order, Live)
      BY ItemsAreFinite, Enumerations
    <2> QED
      BY <2>1 DEF Enumerates, Live
  <1>5. PICK w \in Wishes : AsksFor(w) /\ change' = [change EXCEPT ![q].pc = "look", ![q].wish = w]
    BY <1>2, <1>3, <1>4, WishesMade
  <1>6. PICK y : y = [x EXCEPT !.pc = "look", !.wish = w]
    OBVIOUS
  <1>7. y \in Changes /\ y.pc = "look" /\ y.ours = x.ours /\ y.wish = w /\ y.prev = x.prev /\ y.ok = x.ok
    BY <1>6 DEF Changes
  <1>8. change' = [change EXCEPT ![q] = y] /\ Known(y)
    BY <1>1, <1>5, <1>6, <1>7 DEF Known
  <1>9. ChangesKnown' /\ change'[q] = y /\ \A e \in Edits \ {q} : change'[e] = change[e]
    BY <1>7, <1>8, ChangeMoves DEF BoardInv
  <1>10. PageOfBoard'
    BY DEF Arrives, BoardInv, PageOfBoard
  <1>11. NotYetAdded'
    BY <1>1, <1>9 DEF Arrives, BoardInv, NotYetAdded
  <1> QED
    BY <1>9, <1>10, <1>11, BoardRowsStay DEF Arrives

(***************************************************************************)
(* The handlers: what they read, and their transactions.                   *)
(***************************************************************************)

\* An answer, of either kind: the request is no longer before its write.
LEMMA AnswerKnown ==
  ASSUME BoardInv, NEW q \in Edits, change[q].pc \in {"look", "write"}, NEW ok \in BOOLEAN,
         change[q].wish.op = "addColumn" => ~ok, Responds(q, ok)
  PROVE  /\ ChangesKnown' /\ change'[q].pc \in {"answer", "done"}
         /\ \A e \in Edits \ {q} : change'[e] = change[e]
  <1>1. PICK x \in Changes : x = change[q] /\ Known(x) /\ x.pc \in {"look", "write"}
    BY DEF BoardInv, ChangesKnown
  <1>2. PICK y : y = IF x.ours THEN [x EXCEPT !.pc = "answer", !.ok = ok] ELSE Settled
    OBVIOUS
  <1>3. change' = [change EXCEPT ![q] = y]
    BY <1>1, <1>2 DEF Responds
  <1>4. CASE x.ours
    <2>1. y \in Changes /\ y.pc = "answer" /\ y.ours /\ y.wish = x.wish /\ y.prev = x.prev /\ y.ok = ok
      BY <1>2, <1>4 DEF Changes
    <2>2. Known(y)
      BY <1>1, <1>4, <2>1 DEF Known
    <2> QED
      BY <1>3, <2>1, <2>2, ChangeMoves DEF BoardInv
  <1>5. CASE ~x.ours
    <2>1. y = Settled
      BY <1>2, <1>5
    <2>2. Settled.pc = "done"
      BY DEF Settled, Idle
    <2> QED
      BY <1>3, <2>1, <2>2, SettledIsKnown, ChangeMoves DEF BoardInv
  <1> QED
    BY <1>4, <1>5

LEMMA RefusesStep ==
  ASSUME BoardInv, NEW q \in Edits, change[q].pc \in {"look", "write"}, Refuses(q)
  PROVE  BoardInv'
  <1>1. /\ ChangesKnown' /\ change'[q].pc \in {"answer", "done"}
        /\ \A e \in Edits \ {q} : change'[e] = change[e]
    BY AnswerKnown DEF Refuses
  <1>2. PageOfBoard'
    BY DEF Refuses, BoardInv, PageOfBoard
  <1>3. NotYetAdded'
    BY <1>1 DEF Refuses, BoardInv, NotYetAdded
  <1> QED
    BY <1>1, <1>2, <1>3, BoardRowsStay DEF Refuses

LEMMA CardLookStep ==
  ASSUME BoardInv, NEW q \in Edits, Look(q)
  PROVE  BoardInv'
  <1>1. PICK x \in Changes : x = change[q] /\ Known(x) /\ x.pc = "look"
    BY DEF BoardInv, ChangesKnown, Look
  <1>2. CASE Refuses(q)
    BY <1>1, <1>2, RefusesStep
  <1>3. CASE ~Refuses(q)
    <2>1. MayProceed(x.wish) /\ UNCHANGED <<place, dropped, item, page, losses, ragged, drift>>
      BY <1>1, <1>3 DEF Look
    <2>2. PICK f : f = IF x.wish.op \in {"move", "remove"} THEN item[x.wish.row].col ELSE None
      OBVIOUS
    <2>3. change' = [change EXCEPT ![q].pc = "write", ![q].from = f]
      BY <1>1, <1>3, <2>2 DEF Look
    <2>4. x.wish \in Wishes /\ AsksFor(x.wish)
      BY <1>1 DEF Changes, Known
    <2>5. x.wish.op \in {"move", "remove"} => f \in Columns
      <3> SUFFICES ASSUME x.wish.op \in {"move", "remove"} PROVE f \in Columns
        OBVIOUS
      <3>1. x.wish.row \in Items /\ item[x.wish.row] # None
        BY <2>1, <2>4 DEF AsksFor, MayProceed
      <3>2. item[x.wish.row].col \in Columns
        BY <3>1 DEF BoardInv, RowsOfBoard, Live
      <3> QED
        BY <2>2, <3>2
    <2>6. x.wish.op = "reorder" => IsInjective(x.wish.order)
      <3>1. x.wish.op = "reorder" => x.wish.order \in SetToSeqs(Live)
        BY <2>1 DEF MayProceed
      <3> QED
        BY <3>1, ItemsAreFinite, Enumerations DEF Enumerates
    <2>7. f \in Columns \cup {None}
      BY <2>2, <2>5
    <2>8. PICK y : y = [x EXCEPT !.pc = "write", !.from = f]
      OBVIOUS
    <2>9. /\ y \in Changes /\ y.pc = "write" /\ y.ours = x.ours /\ y.wish = x.wish /\ y.prev = x.prev
          /\ y.ok = x.ok /\ y.from = f
      BY <2>7, <2>8 DEF Changes
    <2>10. change' = [change EXCEPT ![q] = y]
      BY <1>1, <2>3, <2>8
    <2>11. Known(y)
      BY <1>1, <2>4, <2>5, <2>6, <2>9 DEF Known
    <2>12. ChangesKnown' /\ change'[q] = y /\ \A e \in Edits \ {q} : change'[e] = change[e]
      BY <2>9, <2>10, <2>11, ChangeMoves DEF BoardInv
    <2>13. PageOfBoard'
      BY <2>1 DEF BoardInv, PageOfBoard
    <2>14. NotYetAdded'
      BY <1>1, <2>1, <2>12 DEF BoardInv, NotYetAdded
    <2> QED
      BY <2>1, <2>12, <2>13, <2>14, BoardRowsStay
  <1> QED
    BY <1>2, <1>3

\* Every change of the rows of cards: what the list of a column may become, and the others.
LEMMA CardsRowsStep ==
  ASSUME BoardInv, NEW q \in Edits, UNCHANGED <<place, dropped>>, item' \in Table,
         \A r \in Items : item'[r] # None => item'[r].col \in Live,
         \A r \in Items : item'[r] # None => item[r] # None /\ item'[r].subject = item[r].subject,
         ragged' \subseteq ragged \cup Columns, "columns" \in ragged' <=> "columns" \in ragged,
         \A c \in Live \ ragged' : DenseIn(item', c),
         ChangesKnown', change'[q].pc \in {"answer", "done"}, \A e \in Edits \ {q} : change'[e] = change[e],
         NEW lists, Commits(q, lists)
  PROVE  BoardInv'
  <1>1. Live' = Live
    BY DEF Live, Exists
  <1>2. RowsOfBoard'
    <2>1. \A r, s \in Items : item'[r] # None /\ item'[s] # None /\ item'[r].subject = item'[s].subject => r = s
      BY DEF BoardInv, RowsOfBoard
    <2>2. place' \in [Columns -> {None} \cup 0..(Cardinality(Columns) - 1)] /\ dropped' \subseteq Columns \ Live'
      BY <1>1 DEF BoardInv, RowsOfBoard
    <2> QED
      BY <1>1, <2>1, <2>2 DEF RowsOfBoard, Table
  <1>3. PageOfBoard'
    BY DEF Commits, BoardInv, PageOfBoard
  <1>4. NotYetAdded'
    <2> SUFFICES ASSUME NEW e \in Edits, change'[e].pc \in {"new", "look", "write"} PROVE item'[e] = None
      BY DEF NotYetAdded
    <2>1. e # q /\ change'[e] = change[e] /\ e \in Items
      BY DEF Items
    <2>2. item[e] = None
      BY <2>1 DEF BoardInv, NotYetAdded
    <2> QED
      BY <2>1, <2>2
  <1>5. ColumnsDense'
    BY <1>1 DEF BoardInv, ColumnsDense
  <1>6. CardsDense'
    BY <1>1 DEF CardsDense, DenseIn, InColumn
  <1> QED
    BY <1>2, <1>3, <1>4, <1>5, <1>6 DEF BoardInv

LEMMA MoveInTransactionStep ==
  ASSUME BoardInv, NEW q \in Edits, MoveInTransaction(q)
  PROVE  BoardInv'
  <1>1. PICK x \in Changes : x = change[q] /\ Known(x) /\ x.pc = "write" /\ x.wish.op = "move"
    BY DEF BoardInv, ChangesKnown, MoveInTransaction, Writes
  <1>2. PICK r \in Items, to \in Columns, from \in Columns, index \in Nat :
          r = x.wish.row /\ to = x.wish.to /\ from = x.from /\ index = x.wish.index
    BY <1>1 DEF Known, AsksFor, Changes, Wishes
  <1>3. CASE Refuses(q)
    BY <1>1, <1>3, RefusesStep
  <1>4. CASE ~Refuses(q)
    <2>1. /\ item[r] # None /\ Exists(to)
          /\ \E s \in Lists([item EXCEPT ![r] = None], to) :
               LET moved == Numbered(item, to, Insert(s, index, r)) IN
               IF from = to THEN item' = moved
               ELSE \E left \in Lists(moved, from) : item' = Numbered(moved, from, left)
          /\ LeavesGap({to, from}, r)
          /\ Responds(q, TRUE) /\ Commits(q, {to, from}) /\ UNCHANGED <<place, dropped>>
      BY <1>1, <1>2, <1>4 DEF MoveInTransaction
    <2>2. item \in Table /\ (\A i \in Items : item[i] # None => item[i].col \in Live)
          /\ \A c \in Live \ ragged : DenseIn(item, c)
      BY DEF BoardInv, RowsOfBoard, Table, CardsDense
    <2>3. to \in Live
      BY <2>1 DEF Live
    <2> DEFINE without == [item EXCEPT ![r] = None]
    <2>4. PICK s \in Lists(without, to) :
               LET moved == Numbered(item, to, Insert(s, index, r)) IN
               IF from = to THEN item' = moved
               ELSE \E left \in Lists(moved, from) : item' = Numbered(moved, from, left)
      BY <2>1
    <2>5. PICK S : S = InColumn(without, to)
      OBVIOUS
    <2>6. /\ S = InColumn(item, to) \ {r} /\ S \subseteq Items
          /\ \A i \in S : item[i] # None
      BY <2>2, <2>5 DEF InColumn, Table
    <2> HIDE DEF without
    <2>7. Enumerates(s, S) /\ IsFiniteSet(S) /\ Cardinality(S) \in Nat
      BY <2>4, <2>5, ListsAreEnumerations, ItemsAreFinite
    <2>8. PICK put : put = Insert(s, index, r) /\ Enumerates(put, S \cup {r})
      BY <2>6, <2>7, Inserted
    <2>9. PICK moved : moved = Numbered(item, to, put)
      OBVIOUS
    <2>10. /\ moved \in Table
           /\ \A i \in Items : (moved[i] = None) = (item[i] = None)
           /\ \A i \in Items : item[i] # None => moved[i].subject = item[i].subject
           /\ \A i \in Items \ (S \cup {r}) : moved[i] = item[i]
           /\ \A i \in S \cup {r} : moved[i].col = to
           /\ DenseIn(moved, to)
           /\ \A d \in Columns \ {to} : InColumn(moved, d) = InColumn(item, d) \ (S \cup {r})
      <3>1. S \cup {r} \subseteq Items /\ InColumn(item, to) \subseteq S \cup {r}
            /\ \A i \in S \cup {r} : item[i] # None
        BY <2>1, <2>6
      <3> QED
        BY <2>2, <2>8, <2>9, <3>1, NumberedIsDense
    \* A column of neither kind, from which the card does not come.
    <2>11. ASSUME NEW d \in Live, d # to, d # item[r].col
           PROVE  InColumn(moved, d) = InColumn(item, d) /\ \A i \in InColumn(item, d) : moved[i] = item[i]
      <3>1. \A i \in InColumn(item, d) : i \in Items \ (S \cup {r})
        BY <2>6, <2>11 DEF InColumn
      <3>2. d \in Columns
        BY DEF Live
      <3> QED
        BY <2>10, <2>11, <3>1, <3>2
    <2>12. \A i \in Items : moved[i] # None => moved[i].col \in Live
      BY <2>2, <2>3, <2>10
    <2>13. /\ item' \in Table
           /\ \A i \in Items : (item'[i] = None) = (item[i] = None)
           /\ \A i \in Items : item[i] # None => item'[i].subject = item[i].subject
           /\ \A i \in Items : item'[i] # None => item'[i].col \in Live
           /\ DenseIn(item', to) /\ DenseIn(item', from)
           /\ \A d \in Live \ {to, from, item[r].col} : DenseIn(item', d) <=> DenseIn(item, d)
      <3>1. CASE from = to
        <4>1. item' = moved
          BY <2>4, <2>8, <2>9, <3>1
        <4>2. ASSUME NEW d \in Live \ {to, from, item[r].col} PROVE DenseIn(moved, d) <=> DenseIn(item, d)
          BY <2>11 DEF DenseIn
        <4> QED
          BY <2>10, <2>12, <3>1, <4>1, <4>2
      <3>2. CASE from # to
        <4>1. PICK left \in Lists(moved, from) : item' = Numbered(moved, from, left)
          BY <2>4, <2>8, <2>9, <3>2
        <4>2. PICK L : L = InColumn(moved, from)
          OBVIOUS
        <4>3. Enumerates(left, L) /\ L \subseteq Items /\ (\A i \in L : moved[i] # None /\ moved[i].col = from)
          BY <4>1, <4>2, ListsAreEnumerations DEF InColumn
        <4>4. PICK new : new = Numbered(moved, from, left)
          OBVIOUS
        <4>5. /\ new \in Table
              /\ \A i \in Items : (new[i] = None) = (moved[i] = None)
              /\ \A i \in Items : moved[i] # None => new[i].subject = moved[i].subject
              /\ \A i \in Items \ L : new[i] = moved[i]
              /\ \A i \in L : new[i].col = from
              /\ DenseIn(new, from)
              /\ \A d \in Columns \ {from} : InColumn(new, d) = InColumn(moved, d) \ L
          BY <2>10, <4>2, <4>3, <4>4, NumberedIsDense
        <4>6. \A i \in Items : new[i] # None => new[i].col \in Live
          BY <2>12, <4>3, <4>5
        <4>7. ASSUME NEW d \in Live, d # from
              PROVE  InColumn(new, d) = InColumn(moved, d) /\ \A i \in InColumn(moved, d) : new[i] = moved[i]
          <5>1. \A i \in InColumn(moved, d) : i \in Items \ L
            BY <4>3, <4>7 DEF InColumn
          <5>2. d \in Columns
            BY DEF Live
          <5> QED
            BY <4>5, <4>7, <5>1, <5>2
        <4>8. DenseIn(new, to)
          BY <2>3, <2>10, <3>2, <4>7 DEF DenseIn
        <4>9. ASSUME NEW d \in Live \ {to, from, item[r].col} PROVE DenseIn(new, d) <=> DenseIn(item, d)
          <5>1. InColumn(new, d) = InColumn(item, d) /\ \A i \in InColumn(item, d) : new[i] = item[i]
            BY <2>11, <4>7
          <5> QED
            BY <5>1 DEF DenseIn
        <4>10. item' = new
          BY <4>1, <4>4
        <4> QED
          BY <2>10, <4>5, <4>6, <4>8, <4>9, <4>10
      <3> QED
        BY <3>1, <3>2
    <2>14. ragged' = (ragged \ {to, from}) \cup ({item[r].col} \ {to, from})
      BY <2>1 DEF LeavesGap
    <2>15. item[r].col \in Columns
      BY <2>1, <2>2 DEF Live
    <2>16. \A d \in Live \ ragged' : DenseIn(item', d)
      <3> SUFFICES ASSUME NEW d \in Live, d \notin ragged' PROVE DenseIn(item', d)
        OBVIOUS
      <3>1. d \in {to, from} \/ (d \notin ragged /\ d # item[r].col)
        BY <2>14
      <3> QED
        BY <2>2, <2>13, <3>1
    <2>17. ragged' \subseteq ragged \cup Columns /\ ("columns" \in ragged' <=> "columns" \in ragged)
      BY <2>14, <2>15, IdsApart
    <2>18. /\ ChangesKnown' /\ change'[q].pc \in {"answer", "done"}
           /\ \A e \in Edits \ {q} : change'[e] = change[e]
      BY <1>1, <2>1, AnswerKnown
    <2> QED
      BY <2>1, <2>13, <2>16, <2>17, <2>18, CardsRowsStep
  <1> QED
    BY <1>3, <1>4

LEMMA RemoveInTransactionStep ==
  ASSUME BoardInv, NEW q \in Edits, RemoveInTransaction(q)
  PROVE  BoardInv'
  <1>1. PICK x \in Changes : x = change[q] /\ Known(x) /\ x.pc = "write" /\ x.wish.op = "remove"
    BY DEF BoardInv, ChangesKnown, RemoveInTransaction, Writes
  <1>2. PICK r \in Items, from \in Columns : r = x.wish.row /\ from = x.from
    BY <1>1 DEF Known, AsksFor
  <1>3. CASE Refuses(q)
    BY <1>1, <1>3, RefusesStep
  <1>4. CASE ~Refuses(q)
    <2>1. /\ item[r] # None
          /\ \E left \in Lists([item EXCEPT ![r] = None], from) :
               item' = Numbered([item EXCEPT ![r] = None], from, left)
          /\ LeavesGap({from}, r)
          /\ Responds(q, TRUE) /\ Commits(q, {from}) /\ UNCHANGED <<place, dropped>>
      BY <1>1, <1>2, <1>4 DEF RemoveInTransaction
    <2>2. item \in Table /\ (\A i \in Items : item[i] # None => item[i].col \in Live)
          /\ \A c \in Live \ ragged : DenseIn(item, c)
      BY DEF BoardInv, RowsOfBoard, Table, CardsDense
    <2>3. PICK without \in Table : without = [item EXCEPT ![r] = None]
      BY <2>2 DEF Table
    <2>4. without[r] = None /\ \A i \in Items \ {r} : without[i] = item[i]
      BY <2>2, <2>3 DEF Table
    <2>5. PICK left \in Lists(without, from) : item' = Numbered(without, from, left)
      BY <2>1, <2>3
    <2>6. PICK L : L = InColumn(without, from)
      OBVIOUS
    <2>7. Enumerates(left, L) /\ L \subseteq Items /\ \A i \in L : without[i] # None /\ without[i].col = from
      BY <2>5, <2>6, ListsAreEnumerations DEF InColumn
    <2>8. PICK new : new = Numbered(without, from, left)
      OBVIOUS
    <2>9. /\ new \in Table
          /\ \A i \in Items : (new[i] = None) = (without[i] = None)
          /\ \A i \in Items : without[i] # None => new[i].subject = without[i].subject
          /\ \A i \in Items \ L : new[i] = without[i]
          /\ \A i \in L : new[i].col = from
          /\ DenseIn(new, from)
          /\ \A d \in Columns \ {from} : InColumn(new, d) = InColumn(without, d) \ L
      BY <2>6, <2>7, <2>8, NumberedIsDense
    <2>10. ASSUME NEW d \in Live, d # from, d # item[r].col
           PROVE  InColumn(new, d) = InColumn(item, d) /\ \A i \in InColumn(item, d) : new[i] = item[i]
      <3>1. InColumn(without, d) = InColumn(item, d) /\ r \notin InColumn(item, d)
        BY <2>4, <2>10 DEF InColumn
      <3>2. \A i \in InColumn(item, d) : i \in Items \ L /\ without[i] = item[i]
        BY <2>4, <2>7, <2>10, <3>1 DEF InColumn
      <3>3. d \in Columns
        BY DEF Live
      <3> QED
        BY <2>9, <2>10, <3>1, <3>2, <3>3
    <2>11. item' = new /\ new \in Table
      BY <2>5, <2>8, <2>9
    <2>12. \A i \in Items : new[i] # None => item[i] # None /\ new[i].subject = item[i].subject /\ new[i].col \in Live
      BY <2>2, <2>4, <2>7, <2>9
    <2>13. ragged' = (ragged \ {from}) \cup ({item[r].col} \ {from})
      BY <2>1 DEF LeavesGap
    <2>14. item[r].col \in Columns
      BY <2>1, <2>2 DEF Live
    <2>15. \A d \in Live \ ragged' : DenseIn(item', d)
      <3> SUFFICES ASSUME NEW d \in Live, d \notin ragged' PROVE DenseIn(new, d)
        BY <2>11
      <3>1. d = from \/ (d \notin ragged /\ d # item[r].col /\ d # from)
        BY <2>13
      <3>2. CASE d = from
        BY <2>9, <3>2
      <3>3. CASE d \notin ragged /\ d # item[r].col /\ d # from
        <4>1. DenseIn(item, d)
          BY <2>2, <3>3
        <4> QED
          BY <2>10, <3>3, <4>1 DEF DenseIn
      <3> QED
        BY <3>1, <3>2, <3>3
    <2>16. ragged' \subseteq ragged \cup Columns /\ ("columns" \in ragged' <=> "columns" \in ragged)
      BY <2>13, <2>14, IdsApart
    <2>17. /\ ChangesKnown' /\ change'[q].pc \in {"answer", "done"}
           /\ \A e \in Edits \ {q} : change'[e] = change[e]
      BY <1>1, <2>1, AnswerKnown
    <2> QED
      BY <2>1, <2>11, <2>12, <2>15, <2>16, <2>17, CardsRowsStep
  <1> QED
    BY <1>3, <1>4

\* What the transactions on columns and the one that adds a card leave of the invariant.
LEMMA OthersStay ==
  ASSUME BoardInv, NEW q \in Edits, NEW lists, Commits(q, lists), \A e \in Edits \ {q} : change'[e] = change[e],
         change'[q].pc \in {"answer", "done"}, ragged' \subseteq Columns \cup {"columns"},
         \A e \in Items \ {q} : item[e] = None => item'[e] = None
  PROVE  PageOfBoard' /\ NotYetAdded'
  <1>1. PageOfBoard'
    BY DEF Commits, BoardInv, PageOfBoard
  <1>2. NotYetAdded'
    <2> SUFFICES ASSUME NEW e \in Edits, change'[e].pc \in {"new", "look", "write"} PROVE item'[e] = None
      BY DEF NotYetAdded
    <2>1. e # q /\ change'[e] = change[e] /\ e \in Items
      BY DEF Items
    <2>2. item[e] = None
      BY <2>1 DEF BoardInv, NotYetAdded
    <2> QED
      BY <2>1, <2>2
  <1> QED
    BY <1>1, <1>2

LEMMA AddInTransactionStep ==
  ASSUME BoardInv, NEW q \in Edits, AddInTransaction(q)
  PROVE  BoardInv'
  <1>1. PICK x \in Changes : x = change[q] /\ Known(x) /\ x.pc = "write" /\ x.wish.op = "add"
    BY DEF BoardInv, ChangesKnown, AddInTransaction, Writes
  <1>2. PICK s \in Subjects, to \in Columns : s = x.wish.row /\ to = x.wish.to
    BY <1>1 DEF Known, AsksFor
  <1>3. CASE Refuses(q)
    BY <1>1, <1>3, RefusesStep
  <1>4. CASE ~Refuses(q)
    <2>1. PICK n \in Nat : n = Cardinality(InColumn(item, to))
      BY ItemsAreFinite
    <2>2. PICK card \in Cards : card = [subject |-> s, col |-> to, position |-> n]
      BY DEF Cards
    <2>3. /\ ~OnBoard(s) /\ Exists(to) /\ item' = [item EXCEPT ![q] = card]
          /\ Responds(q, TRUE) /\ Commits(q, {to}) /\ UNCHANGED <<place, dropped, ragged>>
      BY <1>1, <1>2, <1>4, <2>1, <2>2 DEF AddInTransaction
    <2>4. item \in Table /\ q \in Items /\ item[q] = None
      BY <1>1 DEF BoardInv, RowsOfBoard, Table, Items, NotYetAdded
    <2>5. item'[q] = card /\ \A i \in Items \ {q} : item'[i] = item[i]
      BY <2>3, <2>4 DEF Table
    <2>6. card # None /\ card.subject = s /\ card.col = to /\ card.position = n /\ to \in Live
      BY <2>2, <2>3, NoneIsApart DEF Live
    <2>7. Live' = Live
      BY <2>3 DEF Live, Exists
    <2>8. RowsOfBoard'
      <3>1. item' \in [Items -> Cards \cup {None}]
        BY <2>3, <2>4 DEF Table
      <3>2. \A i \in Items : item'[i] # None => item'[i].col \in Live'
        BY <2>5, <2>6, <2>7 DEF BoardInv, RowsOfBoard
      <3>3. \A i, j \in Items : item'[i] # None /\ item'[j] # None /\ item'[i].subject = item'[j].subject => i = j
        <4>1. \A i \in Items : item[i] # None => item[i].subject # s
          BY <2>3 DEF OnBoard
        <4> QED
          BY <2>5, <2>6, <4>1 DEF BoardInv, RowsOfBoard
      <3>4. place' \in [Columns -> {None} \cup 0..(Cardinality(Columns) - 1)] /\ dropped' \subseteq Columns \ Live'
        BY <2>3, <2>7 DEF BoardInv, RowsOfBoard
      <3> QED
        BY <3>1, <3>2, <3>3, <3>4 DEF RowsOfBoard
    <2>9. CardsDense'
      <3> SUFFICES ASSUME NEW d \in Live, d \notin ragged PROVE DenseIn(item', d)
        BY <2>3, <2>7 DEF CardsDense, DenseIn, InColumn
      <3>1. DenseIn(item, d)
        BY DEF BoardInv, CardsDense
      <3>2. q \notin InColumn(item, d)
        BY <2>4 DEF InColumn
      <3>3. CASE d = to
        <4>1. PICK C : C = InColumn(item, to)
          OBVIOUS
        <4>2. InColumn(item', d) = C \cup {q}
          BY <2>4, <2>5, <2>6, <3>3, <4>1 DEF InColumn
        <4>3. Cardinality(C) = n /\ IsFiniteSet(C) /\ q \notin C
          BY <2>1, <3>2, <3>3, <4>1, ItemsAreFinite
        <4>4. Cardinality(C \cup {q}) = n + 1
          BY <4>3, FS_AddElement
        <4>5. {item[i].position : i \in C} = 0..(n - 1)
          BY <3>1, <3>3, <4>1, <4>3 DEF DenseIn
        <4>6. {item'[i].position : i \in C \cup {q}} = {item[i].position : i \in C} \cup {n}
          <5>1. C \subseteq Items
            BY <4>1 DEF InColumn
          <5>2. \A i \in C : item'[i].position = item[i].position
            BY <2>5, <4>3, <5>1
          <5> QED
            BY <2>5, <2>6, <5>2
        <4>7. 0..(n - 1) \cup {n} = 0..((n + 1) - 1)
          OBVIOUS
        <4>8. {item'[i].position : i \in C \cup {q}} = 0..((n + 1) - 1)
          BY <4>5, <4>6, <4>7
        <4> QED
          BY <4>2, <4>4, <4>8 DEF DenseIn
      <3>4. CASE d # to
        <4>1. InColumn(item', d) = InColumn(item, d)
          BY <2>4, <2>5, <2>6, <3>4 DEF InColumn
        <4>2. \A i \in InColumn(item, d) : item'[i] = item[i]
          BY <2>5, <3>2 DEF InColumn
        <4> QED
          BY <3>1, <4>1, <4>2 DEF DenseIn
      <3> QED
        BY <3>3, <3>4
    <2>10. /\ ChangesKnown' /\ change'[q].pc \in {"answer", "done"}
           /\ \A e \in Edits \ {q} : change'[e] = change[e]
      BY <1>1, <2>3, AnswerKnown
    <2>11. PageOfBoard' /\ NotYetAdded'
      <3>1. ragged' \subseteq Columns \cup {"columns"}
        BY <2>3 DEF BoardInv, PageOfBoard
      <3> QED
        BY <2>3, <2>5, <2>10, <3>1, OthersStay
    <2>12. ColumnsDense'
      BY <2>3, <2>7 DEF BoardInv, ColumnsDense
    <2> QED
      BY <2>8, <2>9, <2>10, <2>11, <2>12 DEF BoardInv
  <1> QED
    BY <1>3, <1>4

LEMMA AddColumnInTransactionStep ==
  ASSUME BoardInv, NEW q \in Edits, AddColumnInTransaction(q)
  PROVE  BoardInv'
  <1>1. PICK x \in Changes : x = change[q] /\ Known(x) /\ x.pc = "write" /\ x.wish.op = "addColumn"
    BY DEF BoardInv, ChangesKnown, AddColumnInTransaction, Writes
  <1>2. PICK c \in Columns :
          /\ place[c] = None /\ c \notin dropped /\ place' = [place EXCEPT ![c] = Cardinality(Live)]
          /\ change' = [change EXCEPT ![q] =
               IF @.ours THEN [@ EXCEPT !.pc = "answer", !.ok = TRUE, !.wish.to = c] ELSE Settled]
    BY DEF AddColumnInTransaction
  <1>3. Commits(q, {"columns"}) /\ UNCHANGED <<dropped, item, ragged>>
    BY DEF AddColumnInTransaction
  <1>4. PICK n \in Nat : n = Cardinality(Live)
    BY ItemsAreFinite
  <1>5. n \in 0..(Cardinality(Columns) - 1) /\ n # None
    <2>1. Live \subseteq Columns \ {c}
      BY <1>2 DEF Live, Exists
    <2>2. IsFiniteSet(Columns \ {c}) /\ Cardinality(Columns \ {c}) = Cardinality(Columns) - 1
      BY BoardIsFinite, FS_RemoveElement
    <2>3. n <= Cardinality(Columns) - 1
      BY <1>4, <2>1, <2>2, FS_Subset
    <2> QED
      BY <2>3, ItemsAreFinite, NoneIsApart
  <1>6. place \in [Columns -> {None} \cup 0..(Cardinality(Columns) - 1)]
    BY DEF BoardInv, RowsOfBoard
  <1>7. place'[c] = n /\ \A d \in Columns \ {c} : place'[d] = place[d]
    BY <1>2, <1>4, <1>6
  <1>8. Live' = Live \cup {c} /\ c \notin Live
    BY <1>2, <1>5, <1>7 DEF Live, Exists
  <1>9. RowsOfBoard'
    <2>1. place' \in [Columns -> {None} \cup 0..(Cardinality(Columns) - 1)]
      BY <1>2, <1>4, <1>5, <1>6
    <2>2. dropped' \subseteq Columns \ Live'
      BY <1>2, <1>3, <1>8 DEF BoardInv, RowsOfBoard
    <2>3. \A r \in Items : item'[r] # None => item'[r].col \in Live'
      BY <1>3, <1>8 DEF BoardInv, RowsOfBoard
    <2> QED
      BY <1>3, <2>1, <2>2, <2>3 DEF BoardInv, RowsOfBoard
  <1>10. ColumnsDense'
    <2> SUFFICES ASSUME "columns" \notin ragged PROVE {place'[d] : d \in Live'} = 0..(Cardinality(Live') - 1)
      BY <1>3 DEF ColumnsDense
    <2>1. {place[d] : d \in Live} = 0..(n - 1)
      BY <1>4 DEF BoardInv, ColumnsDense
    <2>2. Cardinality(Live') = n + 1
      BY <1>4, <1>8, ItemsAreFinite, FS_AddElement
    <2>3. {place'[d] : d \in Live'} = {place[d] : d \in Live} \cup {n}
      <3>1. \A d \in Live : place'[d] = place[d]
        BY <1>7, <1>8 DEF Live
      <3> QED
        BY <1>7, <1>8, <3>1
    <2>4. 0..(n - 1) \cup {n} = 0..((n + 1) - 1)
      OBVIOUS
    <2> QED
      BY <2>1, <2>2, <2>3, <2>4
  <1>11. CardsDense'
    <2> SUFFICES ASSUME NEW d \in Live', d \notin ragged PROVE DenseIn(item, d)
      BY <1>3 DEF CardsDense, DenseIn, InColumn
    <2>1. CASE d \in Live
      BY <2>1 DEF BoardInv, CardsDense
    <2>2. CASE d = c
      <3>1. InColumn(item, d) = {}
        BY <1>8, <2>2 DEF BoardInv, RowsOfBoard, InColumn
      <3>2. Cardinality(InColumn(item, d)) = 0
        BY <3>1, FS_EmptySet
      <3>3. 0..(0 - 1) = {}
        OBVIOUS
      <3> QED
        BY <3>1, <3>2, <3>3 DEF DenseIn
    <2> QED
      BY <1>8, <2>1, <2>2
  <1>12. /\ ChangesKnown' /\ change'[q].pc \in {"answer", "done"}
         /\ \A e \in Edits \ {q} : change'[e] = change[e]
    <2>1. CASE x.ours
      <3>1. PICK w \in Wishes : w = [x.wish EXCEPT !.to = c] /\ w.op = "addColumn" /\ w.to = c
        <4>1. PICK v \in Wishes : v = x.wish
          BY <1>1 DEF Changes
        <4>2. [v EXCEPT !.to = c] \in Wishes /\ [v EXCEPT !.to = c].op = v.op /\ [v EXCEPT !.to = c].to = c
          BY DEF Wishes
        <4> QED
          BY <1>1, <4>1, <4>2
      <3>2. PICK y : y = [x EXCEPT !.pc = "answer", !.ok = TRUE, !.wish = w]
        OBVIOUS
      <3>3. y \in Changes /\ y.pc = "answer" /\ y.ours = x.ours /\ y.wish = w /\ y.prev = x.prev /\ y.ok
        BY <3>2 DEF Changes
      <3>4. [x EXCEPT !.pc = "answer", !.ok = TRUE, !.wish.to = c] = y
        BY <3>1, <3>2 DEF Changes
      <3>5. change' = [change EXCEPT ![q] = y]
        BY <1>1, <1>2, <2>1, <3>4
      <3>6. Known(y)
        BY <1>1, <2>1, <3>1, <3>3 DEF Known, AsksFor
      <3> QED
        BY <3>3, <3>5, <3>6, ChangeMoves DEF BoardInv
    <2>2. CASE ~x.ours
      <3>1. change' = [change EXCEPT ![q] = Settled]
        BY <1>1, <1>2, <2>2
      <3>2. Settled.pc = "done"
        BY DEF Settled, Idle
      <3> QED
        BY <3>1, <3>2, SettledIsKnown, ChangeMoves DEF BoardInv
    <2> QED
      BY <2>1, <2>2
  <1>13. PageOfBoard' /\ NotYetAdded'
    <2>1. ragged' \subseteq Columns \cup {"columns"}
      BY <1>3 DEF BoardInv, PageOfBoard
    <2> QED
      BY <1>3, <1>12, <2>1, OthersStay
  <1> QED
    BY <1>9, <1>10, <1>11, <1>12, <1>13 DEF BoardInv

LEMMA DeleteColumnInTransactionStep ==
  ASSUME BoardInv, NEW q \in Edits, DeleteColumnInTransaction(q)
  PROVE  BoardInv'
  <1>1. PICK x \in Changes : x = change[q] /\ Known(x) /\ x.pc = "write" /\ x.wish.op = "deleteColumn"
    BY DEF BoardInv, ChangesKnown, DeleteColumnInTransaction, Writes
  <1>2. PICK gone \in Columns : gone = x.wish.to
    BY <1>1 DEF Known, AsksFor
  <1>3. CASE Refuses(q)
    BY <1>1, <1>3, RefusesStep
  <1>4. CASE ~Refuses(q)
    <2>1. PICK rest : rest = [place EXCEPT ![gone] = None] /\ rest = [place EXCEPT ![change[q].wish.to] = None]
      BY <1>1, <1>2
    <2>0. /\ Exists(gone)
          /\ \E s \in ColumnLists(rest) :
               /\ place' = [c \in Columns |-> place'[c]]
               /\ \A c \in Columns : place'[c] = IF c \in ToSet(s) THEN At(s, c) - 1 ELSE rest[c]
          /\ item' = [r \in Items |-> item'[r]]
          /\ \A r \in Items : item'[r] = IF r \in InColumn(item, gone) THEN None ELSE item[r]
          /\ dropped' = dropped \cup {gone} /\ ragged' = ragged \ {gone, "columns"}
          /\ Responds(q, TRUE) /\ Commits(q, {"columns"})
      <3>1. Exists(gone) /\ Responds(q, TRUE) /\ Commits(q, {"columns"})
            /\ dropped' = dropped \cup {gone} /\ ragged' = ragged \ {gone, "columns"}
        BY <1>1, <1>2, <1>4 DEF DeleteColumnInTransaction
      <3>2. PICK s \in ColumnLists([place EXCEPT ![change[q].wish.to] = None]) :
              place' = [c \in Columns |-> IF c \in ToSet(s) THEN At(s, c) - 1
                                          ELSE [place EXCEPT ![change[q].wish.to] = None][c]]
        BY <1>4 DEF DeleteColumnInTransaction
      <3>3. s \in ColumnLists(rest) /\ place' = [c \in Columns |-> place'[c]]
            /\ \A c \in Columns : place'[c] = IF c \in ToSet(s) THEN At(s, c) - 1 ELSE rest[c]
        BY <2>1, <3>2
      <3>4. item' = [r \in Items |-> IF r \in InColumn(item, change[q].wish.to) THEN None ELSE item[r]]
        BY <1>4 DEF DeleteColumnInTransaction
      <3>5. item' = [r \in Items |-> item'[r]]
            /\ \A r \in Items : item'[r] = IF r \in InColumn(item, gone) THEN None ELSE item[r]
        BY <1>1, <1>2, <3>4
      <3> QED
        BY <3>1, <3>3, <3>5
    <2>2. place \in [Columns -> {None} \cup 0..(Cardinality(Columns) - 1)] /\ item \in Table
          /\ (\A r \in Items : item[r] # None => item[r].col \in Live) /\ dropped \subseteq Columns \ Live
      BY DEF BoardInv, RowsOfBoard, Table
    <2>4. rest[gone] = None /\ \A c \in Columns \ {gone} : rest[c] = place[c]
      BY <2>1, <2>2
    <2>5. PICK s \in ColumnLists(rest) :
               /\ place' = [c \in Columns |-> place'[c]]
               /\ \A c \in Columns : place'[c] = IF c \in ToSet(s) THEN At(s, c) - 1 ELSE rest[c]
      BY <2>0
    <2>6. PICK S : S = {c \in Columns : rest[c] # None}
      OBVIOUS
    <2>7. S = Live \ {gone} /\ S \subseteq Columns /\ gone \in Live
      BY <2>0, <2>4, <2>6 DEF Live, Exists
    <2>8. Enumerates(s, S)
      BY <2>5, <2>6, ListsAreEnumerations
    <2>9. PICK new : place' = new
      OBVIOUS
    <2>10. /\ \A c \in S : new[c] \in 0..(Cardinality(Columns) - 1) /\ new[c] # None
           /\ \A c \in Columns \ S : new[c] = rest[c]
           /\ {new[c] : c \in S} = 0..(Cardinality(S) - 1)
      BY <2>5, <2>7, <2>8, <2>9, ColumnsNumbered
    <2>11. \A c \in Columns \ S : new[c] = None
      BY <2>6, <2>10
    <2>12. Live' = S
      BY <2>7, <2>9, <2>10, <2>11 DEF Live, Exists
    <2>13. \A r \in Items : /\ item'[r] # None => item[r] # None /\ item'[r] = item[r] /\ item[r].col # gone
                            /\ item[r] # None /\ item[r].col # gone => item'[r] = item[r]
      BY <2>0 DEF InColumn
    <2>14. RowsOfBoard'
      <3>1. place' \in [Columns -> {None} \cup 0..(Cardinality(Columns) - 1)]
        <4>1. \A c \in Columns : new[c] \in {None} \cup 0..(Cardinality(Columns) - 1)
          BY <2>10, <2>11
        <4>2. new = [c \in Columns |-> new[c]]
          BY <2>5, <2>9
        <4> QED
          BY <2>9, <4>1, <4>2
      <3>2. dropped' \subseteq Columns \ Live'
        BY <2>0, <2>2, <2>7, <2>12
      <3>3. item' \in [Items -> Cards \cup {None}]
        BY <2>0, <2>2 DEF Table
      <3>4. \A r \in Items : item'[r] # None => item'[r].col \in Live'
        BY <2>2, <2>7, <2>12, <2>13
      <3>5. \A r, t \in Items : item'[r] # None /\ item'[t] # None /\ item'[r].subject = item'[t].subject => r = t
        BY <2>13 DEF BoardInv, RowsOfBoard
      <3> QED
        BY <3>1, <3>2, <3>3, <3>4, <3>5 DEF RowsOfBoard
    <2>15. ColumnsDense'
      BY <2>9, <2>10, <2>12 DEF ColumnsDense
    <2>16. CardsDense'
      <3> SUFFICES ASSUME NEW d \in S, d \notin ragged' PROVE DenseIn(item', d)
        BY <2>12 DEF CardsDense, DenseIn, InColumn
      <3>1. d \in Live /\ d # gone /\ d \notin ragged
        BY <2>0, <2>7, IdsApart
      <3>2. InColumn(item', d) = InColumn(item, d) /\ \A r \in InColumn(item, d) : item'[r] = item[r]
        BY <2>13, <3>1 DEF InColumn
      <3>3. DenseIn(item, d)
        BY <3>1 DEF BoardInv, CardsDense
      <3> QED
        BY <3>2, <3>3 DEF DenseIn
    <2>17. /\ ChangesKnown' /\ change'[q].pc \in {"answer", "done"}
           /\ \A e \in Edits \ {q} : change'[e] = change[e]
      BY <1>1, <2>0, AnswerKnown
    <2>18. PageOfBoard' /\ NotYetAdded'
      <3>1. ragged' \subseteq Columns \cup {"columns"}
        BY <2>0 DEF BoardInv, PageOfBoard
      <3> QED
        BY <2>0, <2>13, <2>17, <3>1, OthersStay
    <2> QED
      BY <2>14, <2>15, <2>16, <2>17, <2>18 DEF BoardInv
  <1> QED
    BY <1>3, <1>4

LEMMA ReorderInTransactionStep ==
  ASSUME BoardInv, NEW q \in Edits, ReorderInTransaction(q)
  PROVE  BoardInv'
  <1>1. PICK x \in Changes : x = change[q] /\ Known(x) /\ x.pc = "write" /\ x.wish.op = "reorder"
    BY DEF BoardInv, ChangesKnown, ReorderInTransaction, Writes
  <1>2. PICK order \in Seq(Columns) : order = x.wish.order /\ IsInjective(order)
    BY <1>1 DEF Known, Changes, Wishes
  <1>3. CASE Refuses(q)
    BY <1>1, <1>3, RefusesStep
  <1>4. CASE ~Refuses(q)
    <2>1. /\ ToSet(order) \subseteq Live
          /\ place' = [c \in Columns |-> IF c \in ToSet(order) THEN At(order, c) - 1 ELSE place[c]]
          /\ ragged' = IF ToSet(order) = Live THEN ragged \ {"columns"} ELSE ragged \cup {"columns"}
          /\ Responds(q, TRUE) /\ Commits(q, {}) /\ UNCHANGED <<dropped, item>>
      BY <1>1, <1>2, <1>4 DEF ReorderInTransaction
    <2>2. PICK S : S = ToSet(order)
      OBVIOUS
    <2>3. S \subseteq Live /\ S \subseteq Columns
      BY <2>1, <2>2 DEF Live
    <2>4. Enumerates(order, S)
      <3>1. IsFiniteSet(S)
        BY <2>3, BoardIsFinite, FS_Subset
      <3>2. order \in Seq(S)
        BY <1>2, <2>2 DEF ToSet
      <3> QED
        BY <1>2, <2>2, <3>1, <3>2, EnumerationsAreAll
    <2>5. place \in [Columns -> {None} \cup 0..(Cardinality(Columns) - 1)]
      BY DEF BoardInv, RowsOfBoard
    <2>6. PICK new : /\ place' = new /\ new = [c \in Columns |-> new[c]]
                     /\ \A c \in Columns : new[c] = IF c \in ToSet(order) THEN At(order, c) - 1 ELSE place[c]
      BY <2>1
    <2>7. /\ \A c \in S : new[c] \in 0..(Cardinality(Columns) - 1) /\ new[c] # None
          /\ \A c \in Columns \ S : new[c] = place[c]
          /\ {new[c] : c \in S} = 0..(Cardinality(S) - 1)
      BY <2>3, <2>4, <2>6, ColumnsNumbered
    <2>8. place' = new
      BY <2>6
    <2>9. Live' = Live
      BY <2>3, <2>7, <2>8 DEF Live, Exists
    <2>10. RowsOfBoard'
      <3>1. place' \in [Columns -> {None} \cup 0..(Cardinality(Columns) - 1)]
        <4>1. \A c \in Columns : new[c] \in {None} \cup 0..(Cardinality(Columns) - 1)
          BY <2>5, <2>7
        <4>2. new = [c \in Columns |-> new[c]]
          BY <2>6
        <4> QED
          BY <2>8, <4>1, <4>2
      <3> QED
        BY <2>1, <2>9, <3>1 DEF BoardInv, RowsOfBoard
    <2>11. ColumnsDense'
      <3> SUFFICES ASSUME "columns" \notin ragged' PROVE {new[c] : c \in Live} = 0..(Cardinality(Live) - 1)
        BY <2>8, <2>9 DEF ColumnsDense
      <3>1. S = Live
        BY <2>1, <2>2
      <3> QED
        BY <2>7, <3>1
    <2>12. CardsDense'
      <3> SUFFICES ASSUME NEW d \in Live, d \notin ragged' PROVE DenseIn(item, d)
        BY <2>1, <2>9 DEF CardsDense, DenseIn, InColumn
      <3>1. d \notin ragged
        BY <2>1, IdsApart DEF Live
      <3> QED
        BY <3>1 DEF BoardInv, CardsDense
    <2>13. /\ ChangesKnown' /\ change'[q].pc \in {"answer", "done"}
           /\ \A e \in Edits \ {q} : change'[e] = change[e]
      BY <1>1, <2>1, AnswerKnown
    <2>14. PageOfBoard' /\ NotYetAdded'
      <3>1. ragged' \subseteq Columns \cup {"columns"}
        BY <2>1 DEF BoardInv, PageOfBoard
      <3> QED
        BY <2>1, <2>13, <3>1, OthersStay
    <2> QED
      BY <2>10, <2>11, <2>12, <2>13, <2>14 DEF BoardInv
  <1> QED
    BY <1>3, <1>4

(***************************************************************************)
(* The board as it begins: the place of a card is the number of those of   *)
(* its column before it, which leaves no gap.                              *)
(***************************************************************************)
Rank(s, col, r) == Cardinality({i \in 1..(At(s, r) - 1) : col[s[i]] = col[r]})

LEMMA RanksAreDense ==
  ASSUME NEW S, IsFiniteSet(S), NEW s, Enumerates(s, S), NEW col, NEW c,
         NEW C \in SUBSET S, \A r \in S : r \in C <=> col[r] = c,
         NEW rank, \A r \in C : rank[r] = Rank(s, col, r)
  PROVE  {rank[r] : r \in C} = 0..(Cardinality(C) - 1)
  <1> DEFINE Before(r) == {i \in 1..(At(s, r) - 1) : col[s[i]] = c}
             n == Cardinality(C)
  <1>1. IsFiniteSet(C) /\ n \in Nat /\ Cardinality(S) \in Nat
    <2>1. C \subseteq S
      OBVIOUS
    <2> QED
      BY <2>1, FS_Subset, FS_CardinalityType
  <1>2. \A r \in S : At(s, r) \in 1..Cardinality(S) /\ s[At(s, r)] = r
    BY <1>1, PlacesInList
  <1>3. DOMAIN s = 1..Cardinality(S) /\ \A i \in 1..Cardinality(S) : s[i] \in S
    BY DEF Enumerates
  <1>4. ASSUME NEW r \in C
        PROVE  IsFiniteSet(Before(r)) /\ Cardinality(Before(r)) \in Nat /\ rank[r] = Cardinality(Before(r))
    <2>1. At(s, r) - 1 \in Int /\ r \in S /\ col[r] = c
      BY <1>2
    <2>2. IsFiniteSet(1..(At(s, r) - 1))
      BY <2>1, FS_Interval
    <2>3. IsFiniteSet(Before(r))
      BY <2>2, FS_Subset
    <2>4. Rank(s, col, r) = Cardinality(Before(r))
      BY <2>1 DEF Rank
    <2> QED
      BY <2>3, <2>4, FS_CardinalityType
  <1>5. ASSUME NEW r \in C, NEW t \in C, At(s, r) < At(s, t) PROVE rank[r] < rank[t]
    <2>1. At(s, r) \in Before(t) /\ Before(r) \subseteq Before(t) /\ At(s, r) \notin Before(r)
      BY <1>2, <1>5
    <2> HIDE DEF Before
    <2>2. PICK B : B = Before(r) \cup {At(s, r)}
      OBVIOUS
    <2>3. IsFiniteSet(B) /\ Cardinality(B) = Cardinality(Before(r)) + 1
      BY <1>4, <2>1, <2>2, FS_AddElement
    <2>4. B \subseteq Before(t)
      BY <2>1, <2>2
    <2>5. Cardinality(B) <= Cardinality(Before(t))
      BY <1>4, <2>4, FS_Subset
    <2> QED
      BY <1>4, <2>3, <2>5
  <1>6. ASSUME NEW r \in C PROVE rank[r] \in 0..(n - 1)
    <2>1. IsFiniteSet(C \ {r}) /\ Cardinality(C \ {r}) = n - 1
      BY <1>1, FS_RemoveElement
    <2>2. PICK f : f = [i \in Before(r) |-> s[i]]
      OBVIOUS
    <2>3. \A i \in Before(r) : i \in 1..Cardinality(S) /\ i < At(s, r) /\ s[i] \in C
      BY <1>1, <1>2, <1>3
    <2>4. \A i \in Before(r) : s[i] # r
      <3>1. \A i, j \in DOMAIN s : s[i] = s[j] => i = j
        BY DEF Enumerates, IsInjective
      <3> QED
        BY <1>2, <1>3, <2>3, <3>1
    <2>5. f \in Injection(Before(r), C \ {r})
      <3>1. f \in [Before(r) -> C \ {r}]
        BY <2>2, <2>3, <2>4
      <3>2. IsInjective(f)
        BY <1>3, <2>2, <2>3 DEF Enumerates, IsInjective
      <3> QED
        BY <3>1, <3>2 DEF Injection
    <2>6. Cardinality(Before(r)) <= Cardinality(C \ {r})
      BY <2>1, <2>5, FS_Injection
    <2> QED
      BY <1>1, <1>4, <2>1, <2>6
  <1> HIDE DEF Before
  <1>7. PICK g : g = [r \in C |-> rank[r]]
    OBVIOUS
  <1>8. g \in Injection(C, 0..(n - 1))
    <2>1. g \in [C -> 0..(n - 1)]
      BY <1>6, <1>7
    <2>2. ASSUME NEW r \in C, NEW t \in C, r # t PROVE g[r] # g[t]
      <3>1. At(s, r) < At(s, t) \/ At(s, t) < At(s, r)
        <4>1. r \in S /\ t \in S
          OBVIOUS
        <4>2. At(s, r) # At(s, t)
          BY <1>2, <2>2, <4>1
        <4> QED
          BY <1>1, <1>2, <4>1, <4>2
      <3>2. rank[r] < rank[t] \/ rank[t] < rank[r]
        BY <1>5, <3>1
      <3>3. rank[r] \in Nat /\ rank[t] \in Nat
        BY <1>4
      <3> QED
        BY <1>7, <3>2, <3>3
    <2>3. DOMAIN g = C
      BY <1>7
    <2> QED
      BY <2>1, <2>2, <2>3 DEF Injection, IsInjective
  <1>9. IsFiniteSet(0..(n - 1)) /\ Cardinality(0..(n - 1)) = n
    <2>1. n - 1 \in Int /\ 0 \in Int
      BY <1>1
    <2>2. IsFiniteSet(0..(n - 1)) /\ Cardinality(0..(n - 1)) = IF 0 > n - 1 THEN 0 ELSE (n - 1) - 0 + 1
      BY <2>1, FS_Interval
    <2> QED
      BY <1>1, <2>2
  <1>10. g \in Surjection(C, 0..(n - 1))
    <2> HIDE DEF n
    <2>1. n = Cardinality(C)
      BY DEF n
    <2> QED
      BY <1>8, <1>9, <2>1, FS_Injection
  <1>11. \A k \in 0..(n - 1) : \E r \in C : rank[r] = k
    BY <1>7, <1>10 DEF Surjection
  <1> QED
    BY <1>6, <1>11

LEMMA BoardInvInit == BoardInit => BoardInv
  <1> SUFFICES ASSUME BoardInit PROVE BoardInv
    OBVIOUS
  <1>1. PICK D : D = ToSet(DEFAULT_COLUMNS)
    OBVIOUS
  <1>2. D \subseteq Columns /\ DEFAULT_COLUMNS \in Seq(D)
    BY <1>1, DefaultsDiffer DEF ToSet
  <1>3. IsFiniteSet(D) /\ Enumerates(DEFAULT_COLUMNS, D)
    <2>1. IsFiniteSet(D)
      BY <1>2, BoardIsFinite, FS_Subset
    <2> QED
      BY <1>1, <1>2, <2>1, DefaultsDiffer, EnumerationsAreAll
  <1>4. \A c \in Columns : place[c] = IF c \in ToSet(DEFAULT_COLUMNS) THEN At(DEFAULT_COLUMNS, c) - 1 ELSE None
    BY DEF BoardInit
  <1>5. /\ \A c \in D : place[c] \in 0..(Cardinality(Columns) - 1) /\ place[c] # None
        /\ \A c \in Columns \ D : place[c] = None
        /\ {place[c] : c \in D} = 0..(Cardinality(D) - 1)
    <2>1. PICK new, rest : new = place /\ rest = [c \in Columns |-> None]
      OBVIOUS
    <2>2. \A c \in Columns : new[c] = IF c \in ToSet(DEFAULT_COLUMNS) THEN At(DEFAULT_COLUMNS, c) - 1 ELSE rest[c]
      BY <1>4, <2>1
    <2>3. /\ \A c \in D : new[c] \in 0..(Cardinality(Columns) - 1) /\ new[c] # None
          /\ \A c \in Columns \ D : new[c] = rest[c]
          /\ {new[c] : c \in D} = 0..(Cardinality(D) - 1)
      BY <1>2, <1>3, <2>2, ColumnsNumbered
    <2> QED
      BY <2>1, <2>3
  <1>6. Live = D
    BY <1>2, <1>5 DEF Live, Exists
  <1>7. PICK S \in SUBSET Subjects : \E s \in SetToSeqs(S), col \in [S -> D] :
          item = [r \in Items |-> IF r \notin S THEN None ELSE
                 [subject |-> r, col |-> col[r],
                  position |-> Cardinality({i \in 1..(At(s, r) - 1) : col[s[i]] = col[r]})]]
    BY <1>1 DEF BoardInit
  <1>8. PICK s \in SetToSeqs(S), col \in [S -> D] :
          item = [r \in Items |-> IF r \notin S THEN None ELSE
                 [subject |-> r, col |-> col[r],
                  position |-> Cardinality({i \in 1..(At(s, r) - 1) : col[s[i]] = col[r]})]]
    BY <1>7
  <1>9. IsFiniteSet(S) /\ Enumerates(s, S) /\ S \subseteq Items
    <2>1. IsFiniteSet(S)
      BY BoardIsFinite, FS_Subset
    <2> QED
      BY <2>1, Enumerations DEF Items
  <1>10. PICK rank : rank = [r \in S |-> Cardinality({i \in 1..(At(s, r) - 1) : col[s[i]] = col[r]})]
    OBVIOUS
  <1>11. \A r \in S : rank[r] \in Nat
    <2> SUFFICES ASSUME NEW r \in S PROVE rank[r] \in Nat
      OBVIOUS
    <2>1. At(s, r) - 1 \in Int
      <3>1. Cardinality(S) \in Nat
        BY <1>9, FS_CardinalityType
      <3>2. At(s, r) \in 1..Cardinality(S)
        BY <1>9, <3>1, PlacesInList
      <3> QED
        BY <3>1, <3>2
    <2>2. IsFiniteSet(1..(At(s, r) - 1))
      BY <2>1, FS_Interval
    <2>3. {i \in 1..(At(s, r) - 1) : col[s[i]] = col[r]} \in SUBSET (1..(At(s, r) - 1))
      OBVIOUS
    <2>4. IsFiniteSet({i \in 1..(At(s, r) - 1) : col[s[i]] = col[r]})
      BY <2>2, <2>3, FS_Subset
    <2>5. Cardinality({i \in 1..(At(s, r) - 1) : col[s[i]] = col[r]}) \in Nat
      BY <2>4, FS_CardinalityType
    <2> QED
      BY <1>10, <2>5
  <1>12. item = [r \in Items |-> IF r \notin S THEN None ELSE [subject |-> r, col |-> col[r], position |-> rank[r]]]
    BY <1>8, <1>10
  <1>13. \A r \in S : /\ item[r].subject = r /\ item[r].col = col[r] /\ item[r].position = rank[r]
                      /\ item[r] \in Cards /\ item[r] # None /\ col[r] \in D
    <2> SUFFICES ASSUME NEW r \in S
                 PROVE  /\ item[r].subject = r /\ item[r].col = col[r] /\ item[r].position = rank[r]
                        /\ item[r] \in Cards /\ item[r] # None /\ col[r] \in D
      OBVIOUS
    <2>1. PICK card : card = [subject |-> r, col |-> col[r], position |-> rank[r]]
      OBVIOUS
    <2>2. card.subject = r /\ card.col = col[r] /\ card.position = rank[r] /\ card \in Cards /\ col[r] \in D
      BY <1>2, <1>11, <2>1 DEF Cards
    <2>3. item[r] = card
      BY <1>9, <1>12, <2>1
    <2> QED
      BY <2>2, <2>3, NoneIsApart
  <1>14. item \in Table /\ \A r \in Items \ S : item[r] = None
    <2>1. \A r \in Items : item[r] \in Cards \cup {None}
      BY <1>12, <1>13
    <2>2. item = [r \in Items |-> item[r]]
      BY <1>12
    <2> QED
      BY <1>12, <2>1, <2>2 DEF Table
  <1>15. RowsOfBoard
    <2>1. place \in [Columns -> {None} \cup 0..(Cardinality(Columns) - 1)]
      <3>1. \A c \in Columns : place[c] \in {None} \cup 0..(Cardinality(Columns) - 1)
        BY <1>5
      <3>2. place = [c \in Columns |-> place[c]]
        BY DEF BoardInit
      <3> QED
        BY <3>1, <3>2
    <2>2. dropped \subseteq Columns \ Live
      BY DEF BoardInit
    <2>3. \A r \in Items : item[r] # None => item[r].col \in Live
      BY <1>6, <1>13, <1>14
    <2>4. \A r, t \in Items : item[r] # None /\ item[t] # None /\ item[r].subject = item[t].subject => r = t
      BY <1>13, <1>14
    <2> QED
      BY <1>14, <2>1, <2>2, <2>3, <2>4 DEF RowsOfBoard, Table
  <1>16. PageOfBoard
    BY <1>15, LoadedIsPage, FaultBound DEF BoardInit, PageOfBoard
  <1>17. ChangesKnown
    BY SettledIsKnown DEF BoardInit, ChangesKnown
  <1>18. NotYetAdded
    BY <1>14, IdsApart DEF NotYetAdded, Items
  <1>19. ColumnsDense
    BY <1>5, <1>6 DEF ColumnsDense
  <1>20. CardsDense
    <2> SUFFICES ASSUME NEW c \in Live PROVE DenseIn(item, c)
      BY DEF CardsDense
    <2>1. PICK C : C = {r \in S : col[r] = c}
      OBVIOUS
    <2>2. InColumn(item, c) = C
      BY <1>9, <1>13, <1>14, <2>1 DEF InColumn
    <2>3. {rank[r] : r \in C} = 0..(Cardinality(C) - 1)
      <3>1. \A r \in C : rank[r] = Rank(s, col, r)
        BY <1>10, <2>1 DEF Rank
      <3> QED
        BY <1>9, <2>1, <3>1, RanksAreDense
    <2>4. \A r \in C : item[r].position = rank[r]
      BY <1>13, <2>1
    <2> QED
      BY <2>2, <2>3, <2>4 DEF DenseIn
  <1> QED
    BY <1>15, <1>16, <1>17, <1>18, <1>19, <1>20 DEF BoardInv

LEMMA BoardInvStep == BoardInv /\ [BoardNext]_boardVars => BoardInv'
  <1> SUFFICES ASSUME BoardInv, [BoardNext]_boardVars PROVE BoardInv'
    OBVIOUS
  <1>1. CASE UNCHANGED boardVars
    <2>1. UNCHANGED <<place, dropped, item, ragged, page, change, losses, drift>>
      BY <1>1 DEF boardVars
    <2>2. PageOfBoard' /\ ChangesKnown' /\ NotYetAdded'
      BY <2>1 DEF BoardInv, PageOfBoard, ChangesKnown, NotYetAdded
    <2> QED
      BY <2>1, <2>2, BoardRowsStay
  <1>2. CASE Reload
    BY <1>2, ReloadStep
  <1>3. ASSUME NEW q \in Edits,
               \/ MoveItem(q) \/ RemoveItem(q) \/ AddItem(q) \/ AddColumn(q) \/ DeleteColumn(q) \/ ReorderColumns(q)
        PROVE  BoardInv'
    BY <1>3, SendsStep
  <1>4. ASSUME NEW q \in Edits, Arrives(q) \/ Unsent(q) \/ Look(q) \/ Hears(q) PROVE BoardInv'
    BY <1>4, ArrivesStep, UnsentStep, CardLookStep, HearsStep
  <1>5. ASSUME NEW q \in Edits,
               \/ MoveInTransaction(q) \/ RemoveInTransaction(q) \/ AddInTransaction(q)
               \/ AddColumnInTransaction(q) \/ DeleteColumnInTransaction(q) \/ ReorderInTransaction(q)
        PROVE  BoardInv'
    BY <1>5, MoveInTransactionStep, RemoveInTransactionStep, AddInTransactionStep, AddColumnInTransactionStep,
       DeleteColumnInTransactionStep, ReorderInTransactionStep
  <1> QED
    BY <1>1, <1>2, <1>3, <1>4, <1>5 DEF BoardNext

LEMMA BoardInvHolds == BoardSpec => []BoardInv
  BY BoardInvInit, BoardInvStep, PTL DEF BoardSpec

(***************************************************************************)
(* Positions are dense among the columns, and among the cards of every     *)
(* column, for any columns, cards and requests: whoever adds, moves and    *)
(* removes between another's reading and its transaction                   *)
(* (routes/projects.ts), save in what `ragged` names.                      *)
(***************************************************************************)
THEOREM PositionsDense == BoardSpec => []PositionsAreDense
  <1>1. BoardInv => PositionsAreDense
    BY DEF BoardInv, ColumnsDense, CardsDense, DenseIn, PositionsAreDense
  <1> QED
    BY <1>1, BoardInvHolds, PTL

\* The types of the board: its rows, its requests and its page.
LEMMA BoardTypes == BoardInv => BoardTypeOK
  <1> SUFFICES ASSUME BoardInv PROVE BoardTypeOK
    OBVIOUS
  <1>1. \A r \in Items : item[r] = None \/ (item[r].subject \in Subjects /\ item[r].col \in Live /\ item[r].position \in Nat)
    BY DEF BoardInv, RowsOfBoard, Cards
  <1>2. \A q \in Edits : change[q].pc \in {"new", "look", "write", "answer", "done"}
    BY DEF BoardInv, ChangesKnown, Changes
  <1>3. page.order \in Seq(Columns) /\ page.cards \in [Columns -> Seq(Items)]
    BY DEF BoardInv, PageOfBoard, Pages
  <1> QED
    BY <1>1, <1>2, <1>3 DEF BoardInv, RowsOfBoard, PageOfBoard, BoardTypeOK


(***************************************************************************)
(* Lists without ties: they have one order, which survives that an element *)
(* is taken out, that the list is numbered anew, or that one is appended.  *)
(***************************************************************************)
Apart(S, pos) == (\A x \in S : pos[x] \in Nat) /\ \A x, y \in S : pos[x] = pos[y] => x = y

LEMMA OneOrder ==
  ASSUME NEW S, IsFiniteSet(S), NEW pos, Apart(S, pos), NEW s \in Sorted(S, pos), NEW t \in Sorted(S, pos)
  PROVE  s = t
  <1>1. PICK n \in Nat : n = Cardinality(S)
    BY FS_CardinalityType
  <1>2. Enumerates(s, S) /\ Enumerates(t, S)
    BY Enumerations DEF Sorted
  <1>3. /\ s \in [1..n -> S] /\ t \in [1..n -> S]
        /\ \A i, j \in 1..n : (s[i] = s[j] => i = j) /\ (t[i] = t[j] => i = j)
    <2>1. s \in [1..n -> S] /\ t \in [1..n -> S]
      BY <1>1, <1>2 DEF Enumerates
    <2> QED
      BY <1>2, <2>1 DEF Enumerates, IsInjective
  <1>4. \A x \in S : (\E i \in 1..n : s[i] = x) /\ \E i \in 1..n : t[i] = x
    BY <1>2, <1>3 DEF Enumerates, ToSet
  <1>5. \A i, j \in 1..n : i < j => pos[s[i]] < pos[s[j]] /\ pos[t[i]] < pos[t[j]]
    <2> SUFFICES ASSUME NEW i \in 1..n, NEW j \in 1..n, i < j
                 PROVE  pos[s[i]] < pos[s[j]] /\ pos[t[i]] < pos[t[j]]
      OBVIOUS
    <2>1. pos[s[i]] <= pos[s[j]] /\ pos[t[i]] <= pos[t[j]]
      BY <1>3 DEF Sorted
    <2>2. s[i] # s[j] /\ t[i] # t[j] /\ s[i] \in S /\ s[j] \in S /\ t[i] \in S /\ t[j] \in S
      BY <1>3
    <2>3. pos[s[i]] # pos[s[j]] /\ pos[t[i]] # pos[t[j]]
      BY <2>2 DEF Apart
    <2>4. pos[s[i]] \in Nat /\ pos[s[j]] \in Nat /\ pos[t[i]] \in Nat /\ pos[t[j]] \in Nat
      BY <2>2 DEF Apart
    <2> QED
      BY <2>1, <2>3, <2>4
  <1>6. PICK D : D = {i \in 1..n : s[i] # t[i]}
    OBVIOUS
  <1>7. ASSUME D # {} PROVE FALSE
    <2>1. PICK k \in D : \A i \in D : k <= i
      <3>1. D \subseteq Nat
        BY <1>6
      <3> QED
        BY <1>7, <3>1, LeastPosition
    <2>2. k \in 1..n /\ s[k] # t[k] /\ \A i \in 1..n : i < k => s[i] = t[i]
      <3>1. k \in 1..n /\ s[k] # t[k]
        BY <1>6, <2>1
      <3>2. ASSUME NEW i \in 1..n, i < k PROVE s[i] = t[i]
        BY <1>6, <2>1, <3>1, <3>2
      <3> QED
        BY <3>1, <3>2
    <2>3. PICK i \in 1..n, j \in 1..n : s[i] = t[k] /\ t[j] = s[k]
      BY <1>3, <1>4, <2>2
    <2>4. k < i /\ k < j
      <3>1. i # k /\ j # k
        BY <2>2, <2>3
      <3>2. ~(i < k)
        BY <1>3, <2>2, <2>3
      <3>3. ~(j < k)
        BY <1>3, <2>2, <2>3
      <3> QED
        BY <2>2, <3>1, <3>2, <3>3
    <2>5. pos[s[k]] < pos[t[k]] /\ pos[t[k]] < pos[s[k]]
      BY <1>5, <2>2, <2>3, <2>4
    <2>6. pos[s[k]] \in Nat /\ pos[t[k]] \in Nat
      BY <1>3, <2>2 DEF Apart
    <2> QED
      BY <2>5, <2>6
  <1>8. \A i \in 1..n : s[i] = t[i]
    BY <1>6, <1>7
  <1> QED
    BY <1>3, <1>8

LEMMA OneOrderOfPart == \A S, T, pos : Apart(S, pos) /\ T \subseteq S => Apart(T, pos)
  BY DEF Apart

LEMMA SameOrder ==
  ASSUME NEW S, NEW pos, NEW other, \A x \in S : pos[x] = other[x]
  PROVE  Sorted(S, pos) = Sorted(S, other)
  <1>1. ASSUME NEW s \in SetToSeqs(S), NEW i \in DOMAIN s PROVE s[i] \in S
    BY DEF SetToSeqs
  <1>2. ASSUME NEW s \in SetToSeqs(S)
        PROVE  (\A i, j \in DOMAIN s : i < j => pos[s[i]] <= pos[s[j]])
               <=> (\A i, j \in DOMAIN s : i < j => other[s[i]] <= other[s[j]])
    BY <1>1
  <1> QED
    BY <1>2 DEF Sorted

LEMMA TakenOutSorted ==
  ASSUME NEW S, IsFiniteSet(S), NEW pos, NEW s \in Sorted(S, pos), NEW x
  PROVE  TakeOut(s, x) \in Sorted(S \ {x}, pos)
  <1>1. PICK n \in Nat : n = Cardinality(S)
    BY FS_CardinalityType
  <1>2. Enumerates(s, S)
    BY Enumerations DEF Sorted
  <1>3. /\ s \in Seq(S) /\ Len(s) = n /\ ToSet(s) = S /\ DOMAIN s = 1..n /\ \A i \in 1..n : s[i] \in S
        /\ \A i, j \in 1..n : s[i] = s[j] => i = j
    BY <1>1, <1>2 DEF Enumerates, IsInjective
  <1>4. CASE x \notin S
    <2>1. TakeOut(s, x) = s /\ S \ {x} = S
      BY <1>3, <1>4 DEF TakeOut
    <2> QED
      BY <2>1
  <1>5. CASE x \in S
    <2>1. PICK k \in 1..n : k = At(s, x) /\ s[k] = x
      BY <1>1, <1>2, <1>5, PlacesInList
    <2>2. PICK a, b : a = SubSeq(s, 1, k - 1) /\ b = SubSeq(s, k + 1, n)
      OBVIOUS
    <2>3. a \in Seq(S) /\ Len(a) = k - 1 /\ \A i \in 1..(k - 1) : a[i] = s[i]
      BY <1>3, <2>1, <2>2
    <2>4. b \in Seq(S) /\ Len(b) = n - k /\ \A i \in 1..(n - k) : b[i] = s[k + i]
      BY <1>3, <2>1, <2>2
    <2>5. PICK t : t = TakeOut(s, x) /\ t = a \o b
      BY <1>3, <1>5, <2>1, <2>2 DEF TakeOut, RemoveAt
    <2>6. t \in Seq(S) /\ Len(t) = n - 1 /\ DOMAIN t = 1..(n - 1)
      <3>1. a \o b \in Seq(S) /\ Len(a \o b) = Len(a) + Len(b)
        BY <2>3, <2>4
      <3>2. Len(a) + Len(b) = n - 1
        BY <2>1, <2>3, <2>4
      <3> QED
        BY <2>5, <3>1, <3>2
    <2>7. /\ \A i \in 1..(k - 1) : t[i] = s[i]
          /\ \A i \in k..(n - 1) : t[i] = s[i + 1]
      <3>1. \A i \in 1..Len(a) : t[i] = a[i]
        BY <2>3, <2>4, <2>5, Joined
      <3>2. \A i \in 1..Len(b) : t[Len(a) + i] = b[i]
        BY <2>3, <2>4, <2>5, Joined
      <3>3. ASSUME NEW i \in k..(n - 1) PROVE t[i] = s[i + 1]
        <4>1. PICK j \in 1..(n - k) : j = i - (k - 1)
          BY <2>1
        <4>2. t[(k - 1) + j] = b[j] /\ b[j] = s[k + j]
          BY <2>3, <2>4, <3>2, <4>1
        <4>3. (k - 1) + j = i /\ k + j = i + 1
          BY <2>1, <4>1
        <4> QED
          BY <4>2, <4>3
      <3> QED
        BY <2>3, <3>1, <3>3
    <2> DEFINE from(i) == IF i < k THEN i ELSE i + 1
    <2>8. \A i \in 1..(n - 1) : from(i) \in 1..n /\ from(i) # k /\ t[i] = s[from(i)]
      BY <2>1, <2>7
    <2>9. \A i, j \in 1..(n - 1) : (from(i) = from(j) => i = j) /\ (i < j => from(i) < from(j))
      BY <2>1
    <2>10. \A m \in 1..n : m # k => \E i \in 1..(n - 1) : from(i) = m
      <3> SUFFICES ASSUME NEW m \in 1..n, m # k PROVE \E i \in 1..(n - 1) : from(i) = m
        OBVIOUS
      <3>1. CASE m < k
        <4>1. m \in 1..(n - 1) /\ from(m) = m
          BY <2>1, <3>1
        <4> QED
          BY <4>1
      <3>2. CASE k < m
        <4>1. m - 1 \in 1..(n - 1) /\ from(m - 1) = m
          BY <2>1, <3>2
        <4> QED
          BY <4>1
      <3> QED
        BY <2>1, <3>1, <3>2
    <2> HIDE DEF from
    <2>11. \A i \in 1..(n - 1) : t[i] \in S \ {x}
      BY <1>3, <2>1, <2>8
    <2>12. t \in Seq(S \ {x}) /\ IsInjective(t)
      <3>1. t \in [1..(n - 1) -> S \ {x}] /\ n - 1 \in Nat
        BY <2>1, <2>6, <2>11
      <3>2. t \in Seq(S \ {x})
        BY <3>1
      <3>3. \A i, j \in 1..(n - 1) : t[i] = t[j] => i = j
        BY <1>3, <2>8, <2>9
      <3> QED
        BY <2>6, <3>2, <3>3 DEF IsInjective
    <2>13. ToSet(t) = S \ {x}
      <3>1. ASSUME NEW y \in S \ {x} PROVE \E i \in 1..(n - 1) : t[i] = y
        <4>1. PICK m \in 1..n : s[m] = y
          BY <1>3 DEF ToSet
        <4>2. m # k
          BY <2>1, <4>1
        <4> QED
          BY <2>8, <2>10, <4>1, <4>2
      <3> QED
        BY <2>6, <2>11, <3>1 DEF ToSet
    <2>14. t \in SetToSeqs(S \ {x})
      <3>1. IsFiniteSet(S \ {x})
        BY FS_RemoveElement, FS_Subset
      <3> QED
        BY <2>12, <2>13, <3>1, EnumerationsAreAll
    <2>15. \A i, j \in 1..(n - 1) : i < j => pos[t[i]] <= pos[t[j]]
      BY <1>3, <2>8, <2>9 DEF Sorted
    <2> QED
      BY <2>5, <2>6, <2>14, <2>15 DEF Sorted
  <1> QED
    BY <1>4, <1>5

LEMMA NumberedIsSorted ==
  ASSUME NEW S, IsFiniteSet(S), NEW s, Enumerates(s, S), NEW pos, \A x \in S : pos[x] = At(s, x) - 1
  PROVE  s \in Sorted(S, pos)
  <1>1. PICK n \in Nat : n = Cardinality(S)
    BY FS_CardinalityType
  <1>2. DOMAIN s = 1..n /\ \A i \in 1..n : s[i] \in S
    BY <1>1 DEF Enumerates
  <1>3. \A i \in 1..n : At(s, s[i]) = i
    <2> SUFFICES ASSUME NEW i \in 1..n PROVE At(s, s[i]) = i
      OBVIOUS
    <2>1. At(s, s[i]) \in 1..n /\ s[At(s, s[i])] = s[i]
      BY <1>1, <1>2, PlacesInList
    <2> QED
      BY <1>2, <2>1 DEF Enumerates, IsInjective
  <1>4. \A i \in 1..n : pos[s[i]] = i - 1
    BY <1>2, <1>3
  <1>5. s \in SetToSeqs(S)
    BY EnumerationsAreAll DEF Enumerates
  <1>6. \A i, j \in 1..n : i < j => pos[s[i]] <= pos[s[j]]
    BY <1>4
  <1> QED
    BY <1>2, <1>5, <1>6 DEF Sorted

LEMMA AppendedIsSorted ==
  ASSUME NEW S, IsFiniteSet(S), NEW pos, NEW s \in Sorted(S, pos), NEW x, x \notin S, \A y \in S : pos[y] <= pos[x]
  PROVE  Append(s, x) \in Sorted(S \cup {x}, pos)
  <1>1. PICK n \in Nat : n = Cardinality(S)
    BY FS_CardinalityType
  <1>2. Enumerates(s, S)
    BY Enumerations DEF Sorted
  <1>3. /\ s \in Seq(S) /\ Len(s) = n /\ ToSet(s) = S /\ DOMAIN s = 1..n /\ \A i \in 1..n : s[i] \in S
        /\ \A i, j \in 1..n : s[i] = s[j] => i = j
    BY <1>1, <1>2 DEF Enumerates, IsInjective
  <1>4. PICK t : t = Append(s, x)
    OBVIOUS
  <1>5. t \in Seq(S \cup {x}) /\ DOMAIN t = 1..(n + 1) /\ (\A i \in 1..n : t[i] = s[i]) /\ t[n + 1] = x
    <2>1. PICK r \in Seq(S \cup {x}) : r = s
      BY <1>3
    <2>2. PICK y \in S \cup {x} : y = x
      OBVIOUS
    <2>3. /\ Append(r, y) \in Seq(S \cup {x}) /\ Len(Append(r, y)) = Len(r) + 1
          /\ (\A i \in 1..Len(r) : Append(r, y)[i] = r[i]) /\ Append(r, y)[Len(r) + 1] = y
      OBVIOUS
    <2> QED
      BY <1>3, <1>4, <2>1, <2>2, <2>3
  <1>6. \A i \in 1..(n + 1) : i \in 1..n \/ i = n + 1
    OBVIOUS
  <1>7. IsInjective(t)
    <2>1. \A i, j \in 1..(n + 1) : t[i] = t[j] => i = j
      BY <1>3, <1>5, <1>6
    <2> QED
      BY <1>5, <2>1 DEF IsInjective
  <1>8. ToSet(t) = S \cup {x}
    <2>1. \A y \in S : \E i \in 1..(n + 1) : t[i] = y
      <3> SUFFICES ASSUME NEW y \in S PROVE \E i \in 1..(n + 1) : t[i] = y
        OBVIOUS
      <3>1. PICK i \in 1..n : s[i] = y
        BY <1>3 DEF ToSet
      <3>2. i \in 1..(n + 1) /\ t[i] = y
        BY <1>5, <3>1
      <3> QED
        BY <3>2
    <2>2. n + 1 \in 1..(n + 1)
      OBVIOUS
    <2>3. \A i \in 1..(n + 1) : t[i] \in S \cup {x}
      BY <1>3, <1>5, <1>6
    <2> QED
      BY <1>5, <2>1, <2>2, <2>3 DEF ToSet
  <1>9. t \in SetToSeqs(S \cup {x})
    <2>1. IsFiniteSet(S \cup {x})
      BY FS_AddElement
    <2> QED
      BY <1>5, <1>7, <1>8, <2>1, EnumerationsAreAll
  <1>10. \A i, j \in 1..(n + 1) : i < j => pos[t[i]] <= pos[t[j]]
    <2> SUFFICES ASSUME NEW i \in 1..(n + 1), NEW j \in 1..(n + 1), i < j PROVE pos[t[i]] <= pos[t[j]]
      OBVIOUS
    <2>1. i \in 1..n /\ t[i] = s[i] /\ s[i] \in S
      BY <1>3, <1>5
    <2>2. CASE j \in 1..n
      BY <1>3, <1>5, <2>1, <2>2 DEF Sorted
    <2>3. CASE j = n + 1
      BY <1>5, <2>1, <2>3
    <2> QED
      BY <1>6, <2>2, <2>3
  <1> QED
    BY <1>4, <1>5, <1>9, <1>10 DEF Sorted

LEMMA DenseIsApart ==
  ASSUME NEW S, IsFiniteSet(S), NEW pos, {pos[x] : x \in S} = 0..(Cardinality(S) - 1)
  PROVE  Apart(S, pos) /\ \A x \in S : pos[x] < Cardinality(S)
  <1>1. PICK n \in Nat : n = Cardinality(S)
    BY FS_CardinalityType
  <1>2. \A x \in S : pos[x] \in 0..(n - 1)
    BY <1>1
  <1>3. PICK f : f = [x \in S |-> pos[x]]
    OBVIOUS
  <1>4. f \in Surjection(S, 0..(n - 1))
    BY <1>1, <1>2, <1>3 DEF Surjection
  <1>5. Cardinality(0..(n - 1)) = n
    <2>1. n - 1 \in Int /\ 0 \in Int
      BY <1>1
    <2>2. Cardinality(0..(n - 1)) = IF 0 > n - 1 THEN 0 ELSE (n - 1) - 0 + 1
      BY <2>1, FS_Interval
    <2> QED
      BY <1>1, <2>2
  <1>6. f \in Injection(S, 0..(n - 1))
    BY <1>1, <1>4, <1>5, FS_Surjection
  <1>7. \A x, y \in S : pos[x] = pos[y] => x = y
    BY <1>3, <1>6 DEF Injection, IsInjective
  <1> QED
    BY <1>1, <1>2, <1>7 DEF Apart

(***************************************************************************)
(* What the page shows follows the board: with nothing of its own under    *)
(* way it is the board; with one request, it is what the request makes of  *)
(* the board as it was sent, until the answer, and will be what the        *)
(* transaction made of the board, after it.                                *)
(***************************************************************************)
IsPageOf(p, places, rows) == p.order \in ColumnLists(places) /\ \A c \in Columns : p.cards[c] \in Lists(rows, c)
PageIs(p) == IsPageOf(p, place, item)

ShownFor(p, w) ==
  CASE w.op = "move" -> ApplyMove(p, w.row, w.to, w.index)
    [] w.op = "remove" -> Without(p, w.row)
    [] w.op = "deleteColumn" -> [p EXCEPT !.order = TakeOut(@, w.to)]
    [] w.op = "reorder" -> [p EXCEPT !.order = w.order]
    [] OTHER -> p
ShownAfter(p, w, q) ==
  CASE w.op = "add" -> [p EXCEPT !.cards[w.to] = Append(@, q)]
    [] w.op = "addColumn" -> [p EXCEPT !.order = Append(@, w.to)]
    [] OTHER -> p

Undecided(x) == x.pc \in {"look", "write"} \/ (x.pc = "answer" /\ ~x.ok)
SentFrom(p, w) ==
  /\ w.op = "deleteColumn" => p.cards[w.to] = <<>>
  /\ w.op = "reorder" => ToSet(w.order) = ToSet(p.order)

Follows(q) == LET x == change[q] IN
  /\ Undecided(x) => PageIs(x.prev) /\ page = ShownFor(x.prev, x.wish)
  /\ x.pc \in {"look", "write"} => SentFrom(x.prev, x.wish)
  /\ x.pc = "write" /\ x.wish.op \in {"move", "remove"} /\ item[x.wish.row] # None => x.from = item[x.wish.row].col
  /\ x.pc = "answer" /\ x.ok => PageIs(ShownAfter(page, x.wish, q))

PageFollows ==
  /\ \A q \in Edits : change[q].pc = "new" => ~change[q].ours
  /\ drift = {} =>
       /\ OursInFlight = {} => PageIs(page)
       /\ \A q \in OursInFlight : OursInFlight = {q} /\ Follows(q)

\* The list of a column that a step does not touch.
LEMMA ListKept ==
  ASSUME NEW rows, NEW new, NEW c, InColumn(new, c) = InColumn(rows, c),
         \A i \in InColumn(rows, c) : new[i].position = rows[i].position
  PROVE  Lists(new, c) = Lists(rows, c)
  <1>1. [r \in InColumn(new, c) |-> new[r].position] = [r \in InColumn(rows, c) |-> rows[r].position]
    OBVIOUS
  <1> QED
    BY <1>1 DEF Lists

\* The list of a column that a step numbers.
LEMMA ListNumbered ==
  ASSUME NEW new, NEW c, NEW s, NEW S, IsFiniteSet(S), Enumerates(s, S), InColumn(new, c) = S,
         \A r \in S : new[r].position = At(s, r) - 1
  PROVE  s \in Lists(new, c)
  <1>1. PICK pos : pos = [r \in S |-> new[r].position]
    OBVIOUS
  <1>2. \A x \in S : pos[x] = At(s, x) - 1
    BY <1>1
  <1>3. s \in Sorted(S, pos)
    BY <1>2, NumberedIsSorted
  <1> QED
    BY <1>1, <1>3 DEF Lists

\* In a list without ties, the server finds the cards in the order the page shows.
LEMMA ListTakenOut ==
  ASSUME BoardInv, NEW c \in Columns, c \notin ragged, NEW r, NEW rows,
         InColumn(rows, c) = InColumn(item, c) \ {r}, \A i \in InColumn(rows, c) : rows[i].position = item[i].position,
         NEW shown \in Lists(item, c), NEW s \in Lists(rows, c)
  PROVE  s = TakeOut(shown, r)
  <1>1. PICK C : C = InColumn(item, c)
    OBVIOUS
  <1>2. PICK pos : pos = [i \in C |-> item[i].position]
    OBVIOUS
  <1>3. IsFiniteSet(C) /\ IsFiniteSet(C \ {r})
    BY <1>1, ItemsAreFinite, FS_Subset
  <1>4. Apart(C, pos)
    <2>1. CASE c \in Live
      <3>1. {item[i].position : i \in C} = 0..(Cardinality(C) - 1)
        BY <1>1, <2>1 DEF BoardInv, CardsDense, DenseIn
      <3>2. {pos[i] : i \in C} = {item[i].position : i \in C}
        BY <1>2
      <3> QED
        BY <1>3, <3>1, <3>2, DenseIsApart
    <2>2. CASE c \notin Live
      <3>1. C = {}
        BY <1>1, <2>2 DEF BoardInv, RowsOfBoard, InColumn
      <3> QED
        BY <3>1 DEF Apart
    <2> QED
      BY <2>1, <2>2
  <1>5. TakeOut(shown, r) \in Sorted(C \ {r}, pos)
    <2>1. shown \in Sorted(C, pos)
      BY <1>1, <1>2 DEF Lists
    <2> QED
      BY <1>3, <2>1, TakenOutSorted
  <1>6. s \in Sorted(C \ {r}, pos)
    <2>1. PICK other : other = [i \in InColumn(rows, c) |-> rows[i].position]
      OBVIOUS
    <2>2. s \in Sorted(C \ {r}, other)
      BY <1>1, <2>1 DEF Lists
    <2>3. \A i \in C \ {r} : other[i] = pos[i]
      BY <1>1, <1>2, <2>1
    <2> QED
      BY <2>2, <2>3, SameOrder
  <1>7. Apart(C \ {r}, pos)
    BY <1>4, OneOrderOfPart
  <1> QED
    BY <1>3, <1>5, <1>6, <1>7, OneOrder

LEMMA CardsTakenOut ==
  ASSUME NEW p \in Pages, NEW r
  PROVE  LET y == Without(p, r) IN
         /\ y.order = p.order /\ \A c \in Columns : y.cards[c] = TakeOut(p.cards[c], r)
         /\ y.cards = [c \in Columns |-> TakeOut(p.cards[c], r)] /\ y = [order |-> y.order, cards |-> y.cards]
  BY DEF Without, Pages

LEMMA CardsMoved ==
  ASSUME NEW p \in Pages, NEW r, NEW to \in Columns, NEW index \in Nat
  PROVE  LET y == ApplyMove(p, r, to, index) IN
         /\ y.order = p.order
         /\ y.cards[to] = Insert(TakeOut(p.cards[to], r), index, r)
         /\ \A c \in Columns \ {to} : y.cards[c] = TakeOut(p.cards[c], r)
  <1>1. PICK v : v = Without(p, r)
    OBVIOUS
  <1>2. v.order = p.order /\ v.cards = [c \in Columns |-> TakeOut(p.cards[c], r)]
        /\ v = [order |-> v.order, cards |-> v.cards]
    BY <1>1, CardsTakenOut
  <1>3. PICK laid : laid = Insert(v.cards[to], index, r)
    OBVIOUS
  <1>4. PICK y : y = [v EXCEPT !.cards[to] = laid] /\ y = ApplyMove(p, r, to, index)
    BY <1>1, <1>3 DEF ApplyMove
  <1>5. y.order = v.order /\ y.cards = [v.cards EXCEPT ![to] = laid]
    BY <1>2, <1>4
  <1>6. y.cards[to] = laid /\ \A c \in Columns \ {to} : y.cards[c] = v.cards[c]
    BY <1>2, <1>5
  <1>7. v.cards[to] = TakeOut(p.cards[to], r)
    BY <1>2
  <1> QED
    BY <1>2, <1>3, <1>4, <1>5, <1>6, <1>7

LEMMA CardsAppended ==
  ASSUME NEW p \in Pages, NEW r, NEW to \in Columns
  PROVE  LET y == [p EXCEPT !.cards[to] = Append(@, r)] IN
         /\ y.order = p.order /\ y.cards[to] = Append(p.cards[to], r)
         /\ \A c \in Columns \ {to} : y.cards[c] = p.cards[c]
  BY DEF Pages

LEMMA ColumnsOrdered ==
  \A p \in Pages : \A order : [p EXCEPT !.order = order].order = order /\ [p EXCEPT !.order = order].cards = p.cards
  BY DEF Pages

\* A card is in no list but that of its column.
LEMMA ElsewhereUntouched ==
  ASSUME NEW c, NEW r, r \notin InColumn(item, c), NEW shown \in Lists(item, c)
  PROVE  TakeOut(shown, r) = shown
  BY ListsAreEnumerations DEF Enumerates, TakeOut

LEMMA MoveShown ==
  ASSUME BoardInv, NEW p \in Pages, PageIs(p), NEW r \in Items, NEW to \in Columns, NEW from \in Columns, NEW index \in Nat,
         item[r] # None, from = item[r].col, Exists(to), to \notin ragged, from \notin ragged, UNCHANGED place,
         \E s \in Lists([item EXCEPT ![r] = None], to) :
           LET moved == Numbered(item, to, Insert(s, index, r)) IN
           IF from = to THEN item' = moved
           ELSE \E left \in Lists(moved, from) : item' = Numbered(moved, from, left)
  PROVE  PageIs(ApplyMove(p, r, to, index))'
  <1>1. item \in Table
    BY DEF BoardInv, RowsOfBoard, Table
  <1> DEFINE without == [item EXCEPT ![r] = None]
  <1>2. PICK s \in Lists(without, to) :
           LET moved == Numbered(item, to, Insert(s, index, r)) IN
           IF from = to THEN item' = moved
           ELSE \E left \in Lists(moved, from) : item' = Numbered(moved, from, left)
    OBVIOUS
  <1>3. PICK S : S = InColumn(without, to)
    OBVIOUS
  <1>4. /\ S = InColumn(item, to) \ {r} /\ S \subseteq Items
        /\ \A i \in S : item[i] # None /\ item[i].col = to /\ without[i] = item[i]
    BY <1>1, <1>3 DEF InColumn, Table
  <1> HIDE DEF without
  <1>5. Enumerates(s, S) /\ IsFiniteSet(S) /\ Cardinality(S) \in Nat
    BY <1>2, <1>3, ListsAreEnumerations, ItemsAreFinite
  <1>6. \A c \in Columns : p.cards[c] \in Lists(item, c)
    BY DEF PageIs, IsPageOf
  <1>7. s = TakeOut(p.cards[to], r)
    BY <1>2, <1>3, <1>4, <1>6, ListTakenOut
  <1>8. PICK put : put = Insert(s, index, r) /\ Enumerates(put, S \cup {r})
    BY <1>4, <1>5, Inserted
  <1>9. PICK moved : moved = Numbered(item, to, put)
    OBVIOUS
  <1>10. /\ moved \in Table
         /\ \A i \in Items : (moved[i] = None) = (item[i] = None)
         /\ \A i \in Items \ (S \cup {r}) : moved[i] = item[i]
         /\ \A i \in S \cup {r} : moved[i].col = to /\ moved[i].position = At(put, i) - 1
         /\ InColumn(moved, to) = S \cup {r}
         /\ \A d \in Columns \ {to} : InColumn(moved, d) = InColumn(item, d) \ (S \cup {r})
    <2>1. S \cup {r} \subseteq Items /\ InColumn(item, to) \subseteq S \cup {r}
          /\ \A i \in S \cup {r} : item[i] # None
      BY <1>4
    <2> QED
      BY <1>1, <1>8, <1>9, <2>1, NumberedIsDense
  <1>11. IsFiniteSet(S \cup {r})
    BY <1>5, FS_AddElement
  <1>12. put \in Lists(moved, to)
    BY <1>8, <1>10, <1>11, ListNumbered
  <1>13. ASSUME NEW d \in Columns, d # to
         PROVE  InColumn(moved, d) = InColumn(item, d) \ {r} /\ \A i \in InColumn(moved, d) : moved[i] = item[i]
    <2>1. \A i \in InColumn(item, d) : i \in Items /\ i \notin S
      BY <1>4, <1>13 DEF InColumn
    <2>2. InColumn(moved, d) = InColumn(item, d) \ (S \cup {r})
      BY <1>10, <1>13
    <2> QED
      BY <1>10, <2>1, <2>2
  <1>14. ASSUME NEW d \in Columns, d # to, d # from
         PROVE  TakeOut(p.cards[d], r) \in Lists(moved, d)
    <2>1. r \notin InColumn(item, d)
      BY <1>14 DEF InColumn
    <2>2. TakeOut(p.cards[d], r) = p.cards[d]
      BY <1>6, <2>1, ElsewhereUntouched
    <2>3. Lists(moved, d) = Lists(item, d)
      <3>1. InColumn(moved, d) = InColumn(item, d) /\ \A i \in InColumn(item, d) : moved[i].position = item[i].position
        BY <1>13, <1>14, <2>1
      <3> QED
        BY <3>1, ListKept
    <2> QED
      BY <1>6, <2>2, <2>3
  <1>15. /\ put \in Lists(item', to)
         /\ \A d \in Columns \ {to} : TakeOut(p.cards[d], r) \in Lists(item', d)
    <2>1. CASE from = to
      <3>1. item' = moved
        BY <1>2, <1>8, <1>9, <2>1
      <3> QED
        BY <1>12, <1>14, <2>1, <3>1
    <2>2. CASE from # to
      <3>1. PICK left \in Lists(moved, from) : item' = Numbered(moved, from, left)
        BY <1>2, <1>8, <1>9, <2>2
      <3>2. left = TakeOut(p.cards[from], r)
        <4>1. InColumn(moved, from) = InColumn(item, from) \ {r}
              /\ \A i \in InColumn(moved, from) : moved[i].position = item[i].position
          BY <1>13, <2>2
        <4> QED
          BY <1>6, <3>1, <4>1, ListTakenOut
      <3>3. PICK L : L = InColumn(moved, from)
        OBVIOUS
      <3>4. Enumerates(left, L) /\ IsFiniteSet(L) /\ L \subseteq Items /\ \A i \in L : moved[i] # None /\ moved[i].col = from
        BY <3>1, <3>3, ListsAreEnumerations, ItemsAreFinite DEF InColumn
      <3>5. PICK new : new = Numbered(moved, from, left)
        OBVIOUS
      <3>6. /\ \A i \in Items \ L : new[i] = moved[i]
            /\ \A i \in L : new[i].position = At(left, i) - 1
            /\ InColumn(new, from) = L
            /\ \A d \in Columns \ {from} : InColumn(new, d) = InColumn(moved, d) \ L
        BY <1>10, <3>3, <3>4, <3>5, NumberedIsDense
      <3>7. left \in Lists(new, from)
        BY <3>4, <3>6, ListNumbered
      <3>8. ASSUME NEW d \in Columns, d # from PROVE Lists(new, d) = Lists(moved, d)
        <4>1. \A i \in InColumn(moved, d) : i \in Items \ L
          BY <3>4, <3>8 DEF InColumn
        <4>2. InColumn(new, d) = InColumn(moved, d)
          <5>1. InColumn(new, d) = InColumn(moved, d) \ L
            BY <3>6, <3>8
          <5> QED
            BY <4>1, <5>1
        <4>3. \A i \in InColumn(moved, d) : new[i].position = moved[i].position
          BY <3>6, <4>1
        <4> QED
          BY <4>2, <4>3, ListKept
      <3>9. item' = new
        BY <3>1, <3>5
      <3> QED
        BY <1>12, <1>14, <2>2, <3>2, <3>7, <3>8, <3>9
    <2> QED
      BY <2>1, <2>2
  <1>16. PICK y : y = ApplyMove(p, r, to, index)
    OBVIOUS
  <1>17. y.order = p.order /\ y.cards[to] = put /\ \A d \in Columns \ {to} : y.cards[d] = TakeOut(p.cards[d], r)
    BY <1>7, <1>8, <1>16, CardsMoved
  <1>18. PageIs(y)'
    <2>1. y.order \in ColumnLists(place')
      BY <1>17 DEF PageIs, IsPageOf
    <2>2. \A c \in Columns : y.cards[c] \in Lists(item', c)
      BY <1>15, <1>17
    <2> QED
      BY <2>1, <2>2 DEF PageIs, IsPageOf
  <1> QED
    BY <1>16, <1>18

LEMMA RemoveShown ==
  ASSUME BoardInv, NEW p \in Pages, PageIs(p), NEW r \in Items, NEW from \in Columns,
         item[r] # None, from = item[r].col, from \notin ragged, UNCHANGED place,
         \E left \in Lists([item EXCEPT ![r] = None], from) : item' = Numbered([item EXCEPT ![r] = None], from, left)
  PROVE  PageIs(Without(p, r))'
  <1>1. PICK rows \in Table : rows = [item EXCEPT ![r] = None]
    BY DEF BoardInv, RowsOfBoard, Table
  <1>2. PICK left \in Lists(rows, from) : item' = Numbered(rows, from, left)
    BY <1>1
  <1>3. rows[r] = None /\ \A i \in Items \ {r} : rows[i] = item[i]
    BY <1>1 DEF BoardInv, RowsOfBoard
  <1>4. \A c : InColumn(rows, c) = InColumn(item, c) \ {r} /\ \A i \in InColumn(rows, c) : rows[i].position = item[i].position
    BY <1>3 DEF InColumn
  <1>5. \A c \in Columns : p.cards[c] \in Lists(item, c)
    BY DEF PageIs, IsPageOf
  <1>6. left = TakeOut(p.cards[from], r)
    BY <1>2, <1>4, <1>5, ListTakenOut
  <1>7. PICK L : L = InColumn(rows, from)
    OBVIOUS
  <1>8. Enumerates(left, L) /\ IsFiniteSet(L) /\ L \subseteq Items /\ \A i \in L : rows[i] # None /\ rows[i].col = from
    BY <1>2, <1>7, ListsAreEnumerations, ItemsAreFinite DEF InColumn
  <1>9. PICK new : new = Numbered(rows, from, left)
    OBVIOUS
  <1>10. /\ \A i \in Items \ L : new[i] = rows[i]
         /\ \A i \in L : new[i].position = At(left, i) - 1
         /\ InColumn(new, from) = L
         /\ \A d \in Columns \ {from} : InColumn(new, d) = InColumn(rows, d) \ L
    BY <1>7, <1>8, <1>9, NumberedIsDense
  <1>11. left \in Lists(new, from)
    BY <1>8, <1>10, ListNumbered
  <1>12. ASSUME NEW d \in Columns, d # from PROVE TakeOut(p.cards[d], r) \in Lists(new, d)
    <2>1. r \notin InColumn(item, d)
      BY <1>12 DEF InColumn
    <2>2. TakeOut(p.cards[d], r) = p.cards[d]
      BY <1>5, <2>1, ElsewhereUntouched
    <2>3. \A i \in InColumn(rows, d) : i \in Items \ L
      BY <1>8, <1>12 DEF InColumn
    <2>4. InColumn(new, d) = InColumn(item, d) /\ \A i \in InColumn(item, d) : new[i].position = item[i].position
      BY <1>4, <1>10, <1>12, <2>1, <2>3
    <2> QED
      BY <1>5, <2>2, <2>4, ListKept
  <1>13. PICK y : y = Without(p, r)
    OBVIOUS
  <1>14. y.order = p.order /\ \A d \in Columns : y.cards[d] = TakeOut(p.cards[d], r)
    BY <1>13, CardsTakenOut
  <1>15. PageIs(y)'
    <2>1. y.order \in ColumnLists(place')
      BY <1>14 DEF PageIs, IsPageOf
    <2>2. item' = new
      BY <1>2, <1>9
    <2>3. \A c \in Columns : y.cards[c] \in Lists(item', c)
      BY <1>6, <1>11, <1>12, <1>14, <2>2
    <2> QED
      BY <2>1, <2>3 DEF PageIs, IsPageOf
  <1> QED
    BY <1>13, <1>15

LEMMA AddShown ==
  ASSUME BoardInv, NEW p \in Pages, PageIs(p), NEW q \in Edits, NEW s \in Subjects, NEW to \in Columns, to \notin ragged,
         item[q] = None, Exists(to), UNCHANGED place,
         item' = [item EXCEPT ![q] = [subject |-> s, col |-> to, position |-> Cardinality(InColumn(item, to))]]
  PROVE  PageIs([p EXCEPT !.cards[to] = Append(@, q)])'
  <1>1. PICK C : C = InColumn(item, to)
    OBVIOUS
  <1>2. PICK n \in Nat : n = Cardinality(C)
    BY <1>1, ItemsAreFinite
  <1>3. PICK card : card = [subject |-> s, col |-> to, position |-> n] /\ card.col = to /\ card.position = n /\ card # None
    <2>1. [subject |-> s, col |-> to, position |-> n] \in Cards
      BY DEF Cards
    <2> QED
      BY <2>1, NoneIsApart
  <1>4. item \in Table /\ q \in Items
    BY DEF BoardInv, RowsOfBoard, Table, Items
  <1>5. PICK new : new = [item EXCEPT ![q] = card] /\ item' = new
    BY <1>1, <1>2, <1>3
  <1>6. new[q] = card /\ \A i \in Items \ {q} : new[i] = item[i]
    BY <1>4, <1>5 DEF Table
  <1>7. \A c \in Columns : p.cards[c] \in Lists(item, c) /\ q \notin InColumn(item, c)
    BY DEF PageIs, IsPageOf, InColumn
  <1>8. InColumn(new, to) = C \cup {q} /\ q \notin C /\ IsFiniteSet(C)
    <2>1. q \notin C /\ IsFiniteSet(C) /\ C = {i \in Items : item[i] # None /\ item[i].col = to}
      BY <1>1, <1>7, ItemsAreFinite DEF InColumn
    <2>2. \A i \in Items : (new[i] # None /\ new[i].col = to) <=> i \in C \cup {q}
      BY <1>3, <1>4, <1>6, <2>1
    <2>3. C \cup {q} \subseteq Items
      BY <1>4, <2>1
    <2> QED
      BY <2>1, <2>2, <2>3 DEF InColumn
  <1>9. Append(p.cards[to], q) \in Lists(new, to)
    <2>1. PICK pos : pos = [i \in C \cup {q} |-> new[i].position]
      OBVIOUS
    <2>2. pos[q] = n /\ \A i \in C : pos[i] = item[i].position
      BY <1>1, <1>3, <1>6, <1>8, <2>1 DEF InColumn
    <2>3. {pos[i] : i \in C} = 0..(Cardinality(C) - 1)
      <3>1. {item[i].position : i \in C} = 0..(Cardinality(C) - 1)
        BY <1>1 DEF BoardInv, CardsDense, DenseIn, Live
      <3> QED
        BY <2>2, <3>1
    <2>4. \A i \in C : pos[i] <= pos[q]
      <3>1. \A i \in C : pos[i] < Cardinality(C) /\ pos[i] \in Nat
        BY <1>8, <2>3, DenseIsApart DEF Apart
      <3> QED
        BY <1>2, <2>2, <3>1
    <2>5. p.cards[to] \in Sorted(C, pos)
      <3>1. PICK old : old = [i \in C |-> item[i].position]
        OBVIOUS
      <3>2. p.cards[to] \in Sorted(C, old)
        BY <1>1, <1>7, <3>1 DEF Lists
      <3>3. \A i \in C : old[i] = pos[i]
        BY <2>2, <3>1
      <3> QED
        BY <3>2, <3>3, SameOrder
    <2>6. Append(p.cards[to], q) \in Sorted(C \cup {q}, pos)
      BY <1>8, <2>4, <2>5, AppendedIsSorted
    <2> QED
      BY <1>8, <2>1, <2>6 DEF Lists
  <1>10. ASSUME NEW d \in Columns, d # to PROVE p.cards[d] \in Lists(new, d)
    <2>1. InColumn(new, d) = InColumn(item, d) /\ \A i \in InColumn(item, d) : new[i].position = item[i].position
      <3>1. \A i \in InColumn(item, d) : i \in Items \ {q}
        BY <1>7 DEF InColumn
      <3>2. q \notin InColumn(new, d)
        BY <1>3, <1>6, <1>10 DEF InColumn
      <3>3. InColumn(new, d) = InColumn(item, d)
        BY <1>6, <3>1, <3>2 DEF InColumn
      <3> QED
        BY <1>6, <3>1, <3>3
    <2> QED
      BY <1>7, <2>1, ListKept
  <1>11. PICK y : y = [p EXCEPT !.cards[to] = Append(@, q)]
    OBVIOUS
  <1>12. y.order = p.order /\ y.cards[to] = Append(p.cards[to], q) /\ \A d \in Columns \ {to} : y.cards[d] = p.cards[d]
    BY <1>11, CardsAppended
  <1>13. PageIs(y)'
    <2>1. y.order \in ColumnLists(place')
      BY <1>12 DEF PageIs, IsPageOf
    <2>2. \A c \in Columns : y.cards[c] \in Lists(item', c)
      BY <1>5, <1>9, <1>10, <1>12
    <2> QED
      BY <2>1, <2>2 DEF PageIs, IsPageOf
  <1> QED
    BY <1>11, <1>13

\* The same for the columns.
LEMMA ColumnsOfBoard ==
  ASSUME BoardInv
  PROVE  /\ place \in [Columns -> {None} \cup 0..(Cardinality(Columns) - 1)]
         /\ \A c \in Live : place[c] \in Nat /\ place[c] # None
         /\ Live = {c \in Columns : place[c] # None} /\ IsFiniteSet(Live) /\ Live \subseteq Columns
         /\ ColumnLists(place) = Sorted(Live, place)
         /\ "columns" \notin ragged => Apart(Live, place) /\ \A c \in Live : place[c] < Cardinality(Live)
  <1>1. place \in [Columns -> {None} \cup 0..(Cardinality(Columns) - 1)]
    BY DEF BoardInv, RowsOfBoard
  <1>2. Live = {c \in Columns : place[c] # None} /\ IsFiniteSet(Live) /\ Live \subseteq Columns
    BY ItemsAreFinite DEF Live, Exists
  <1>3. \A c \in Live : place[c] \in Nat /\ place[c] # None
    BY <1>1, <1>2, ItemsAreFinite
  <1>4. ColumnLists(place) = Sorted(Live, place)
    BY <1>2 DEF ColumnLists
  <1>5. ASSUME "columns" \notin ragged PROVE Apart(Live, place) /\ \A c \in Live : place[c] < Cardinality(Live)
    <2>1. {place[c] : c \in Live} = 0..(Cardinality(Live) - 1)
      BY <1>5 DEF BoardInv, ColumnsDense
    <2> QED
      BY <1>2, <2>1, DenseIsApart
  <1> QED
    BY <1>1, <1>2, <1>3, <1>4, <1>5

LEMMA AddColumnShown ==
  ASSUME BoardInv, NEW p \in Pages, PageIs(p), NEW c \in Columns, place[c] = None, "columns" \notin ragged,
         place' = [place EXCEPT ![c] = Cardinality(Live)], UNCHANGED item
  PROVE  PageIs([p EXCEPT !.order = Append(@, c)])'
  <1>1. PICK n \in Nat : n = Cardinality(Live)
    BY ItemsAreFinite
  <1>2. PICK new : new = [place EXCEPT ![c] = n] /\ place' = new
    BY <1>1
  <1>3. new[c] = n /\ n # None /\ \A d \in Columns \ {c} : new[d] = place[d]
    BY <1>2, NoneIsApart, ColumnsOfBoard
  <1>4. c \notin Live /\ {d \in Columns : new[d] # None} = Live \cup {c}
    BY <1>3, ColumnsOfBoard
  <1>5. \A d \in Live : new[d] = place[d] /\ new[d] <= new[c]
    <2>1. \A d \in Live : new[d] = place[d]
      BY <1>3, <1>4, ColumnsOfBoard
    <2>2. \A d \in Live : place[d] \in Nat /\ place[d] < n
      BY <1>1, ColumnsOfBoard
    <2> QED
      BY <1>3, <2>1, <2>2
  <1>6. p.order \in Sorted(Live, new)
    <2>1. p.order \in Sorted(Live, place)
      BY ColumnsOfBoard DEF PageIs, IsPageOf
    <2> QED
      BY <1>5, <2>1, SameOrder
  <1>7. Append(p.order, c) \in Sorted(Live \cup {c}, new)
    BY <1>4, <1>5, <1>6, ColumnsOfBoard, AppendedIsSorted
  <1>8. Append(p.order, c) \in ColumnLists(new)
    BY <1>4, <1>7 DEF ColumnLists
  <1>9. PICK y : y = [p EXCEPT !.order = Append(@, c)] /\ y.order = Append(p.order, c) /\ y.cards = p.cards
    BY ColumnsOrdered
  <1>10. PageIs(y)'
    BY <1>2, <1>8, <1>9 DEF PageIs, IsPageOf
  <1> QED
    BY <1>9, <1>10

\* The column `gone` is taken away: the rest are numbered anew, its cards are no longer.
ColumnLeaves(gone, rest, s) ==
  /\ rest = [place EXCEPT ![gone] = None]
  /\ place' = [c \in Columns |-> place'[c]]
  /\ \A c \in Columns : place'[c] = IF c \in ToSet(s) THEN At(s, c) - 1 ELSE rest[c]
  /\ item' = [r \in Items |-> item'[r]]
  /\ \A r \in Items : item'[r] = IF r \in InColumn(item, gone) THEN None ELSE item[r]

LEMMA DeleteColumnShown ==
  ASSUME BoardInv, NEW p \in Pages, PageIs(p), NEW gone \in Columns, p.cards[gone] = <<>>, "columns" \notin ragged,
         NEW rest, NEW s \in ColumnLists(rest), ColumnLeaves(gone, rest, s)
  PROVE  PageIs([p EXCEPT !.order = TakeOut(@, gone)])'
  <1>0. /\ rest = [place EXCEPT ![gone] = None]
        /\ place' = [c \in Columns |-> place'[c]]
        /\ \A c \in Columns : place'[c] = IF c \in ToSet(s) THEN At(s, c) - 1 ELSE rest[c]
        /\ item' = [r \in Items |-> item'[r]]
        /\ \A r \in Items : item'[r] = IF r \in InColumn(item, gone) THEN None ELSE item[r]
    BY DEF ColumnLeaves
  <1>1. item' = item
    <2>1. InColumn(item, gone) = {}
      <3>1. Enumerates(<<>>, InColumn(item, gone))
        BY ListsAreEnumerations DEF PageIs, IsPageOf
      <3>2. ToSet(<<>>) = {}
        BY DEF ToSet
      <3> QED
        BY <3>1, <3>2 DEF Enumerates
    <2>2. item \in Table
      BY DEF BoardInv, RowsOfBoard, Table
    <2>3. item = [r \in Items |-> item[r]]
      BY <2>2 DEF Table
    <2> QED
      BY <1>0, <2>1, <2>3
  <1>2. rest[gone] = None /\ \A c \in Columns \ {gone} : rest[c] = place[c]
    BY <1>0, ColumnsOfBoard
  <1>3. PICK S : S = {c \in Columns : rest[c] # None}
    OBVIOUS
  <1>4. S = Live \ {gone} /\ S \subseteq Columns /\ IsFiniteSet(S)
    <2>1. S = Live \ {gone}
      BY <1>2, <1>3, ColumnsOfBoard
    <2> QED
      BY <1>3, <2>1, ColumnsOfBoard, FS_Subset
  <1>5. Enumerates(s, S) /\ s \in Sorted(S, rest)
    BY <1>3, ListsAreEnumerations DEF ColumnLists
  <1>6. s = TakeOut(p.order, gone)
    <2>1. TakeOut(p.order, gone) \in Sorted(Live \ {gone}, place)
      BY ColumnsOfBoard, TakenOutSorted DEF PageIs, IsPageOf
    <2>2. \A c \in S : rest[c] = place[c]
      BY <1>2, <1>4
    <2>3. s \in Sorted(S, place)
      BY <1>5, <2>2, SameOrder
    <2>4. Apart(S, place)
      BY <1>4, ColumnsOfBoard, OneOrderOfPart
    <2> QED
      BY <1>4, <2>1, <2>3, <2>4, OneOrder
  <1>7. PICK new : place' = new
    OBVIOUS
  <1>8. /\ \A c \in S : new[c] # None
        /\ \A c \in Columns \ S : new[c] = rest[c]
    <2>1. \A c \in Columns : new[c] = IF c \in ToSet(s) THEN At(s, c) - 1 ELSE rest[c]
      BY <1>0, <1>7
    <2>3. Enumerates(s, S) /\ S \subseteq Columns
      BY <1>4, <1>5
    <2>2. ASSUME NEW c \in S PROVE new[c] # None
      <3>1. Cardinality(S) \in Nat /\ ToSet(s) = S
        BY <1>4, <2>3, FS_CardinalityType DEF Enumerates
      <3>2. At(s, c) \in 1..Cardinality(S)
        BY <2>3, <3>1, PlacesInList
      <3>3. At(s, c) - 1 \in Nat
        BY <3>1, <3>2
      <3>4. new[c] = At(s, c) - 1
        BY <1>4, <2>1, <3>1
      <3> QED
        BY <3>3, <3>4, NoneIsApart
    <2>4. \A c \in Columns \ S : new[c] = rest[c]
      BY <2>1, <2>3 DEF Enumerates
    <2> QED
      BY <2>2, <2>4
  <1>9. {c \in Columns : new[c] # None} = S
    BY <1>3, <1>4, <1>8
  <1>10. \A c \in S : new[c] = At(s, c) - 1
    BY <1>0, <1>4, <1>5, <1>7 DEF Enumerates
  <1>11. s \in ColumnLists(new)
    BY <1>4, <1>5, <1>9, <1>10, NumberedIsSorted DEF ColumnLists
  <1>12. PICK y : y = [p EXCEPT !.order = TakeOut(@, gone)] /\ y.order = s /\ y.cards = p.cards
    <2>1. [p EXCEPT !.order = s].order = s /\ [p EXCEPT !.order = s].cards = p.cards
      BY ColumnsOrdered
    <2> QED
      BY <1>6, <2>1
  <1>13. PageIs(y)'
    BY <1>1, <1>7, <1>11, <1>12 DEF PageIs, IsPageOf
  <1> QED
    BY <1>12, <1>13

LEMMA ReorderShown ==
  ASSUME BoardInv, NEW p \in Pages, PageIs(p), NEW order \in Seq(Columns), IsInjective(order), ToSet(order) = Live,
         place' = [c \in Columns |-> IF c \in ToSet(order) THEN At(order, c) - 1 ELSE place[c]], UNCHANGED item
  PROVE  PageIs([p EXCEPT !.order = order])'
  <1>1. Enumerates(order, Live)
    <2>1. order \in Seq(Live)
      BY DEF ToSet
    <2> QED
      BY <2>1, ItemsAreFinite, EnumerationsAreAll
  <1>2. PICK new : /\ place' = new
                   /\ \A c \in Columns : new[c] = IF c \in ToSet(order) THEN At(order, c) - 1 ELSE place[c]
    OBVIOUS
  <1>3. /\ \A c \in Live : new[c] # None
        /\ \A c \in Columns \ Live : new[c] = place[c]
    BY <1>1, <1>2, ColumnsNumbered, ColumnsOfBoard
  <1>4. {c \in Columns : new[c] # None} = Live
    BY <1>3, ColumnsOfBoard
  <1>5. \A c \in Live : new[c] = At(order, c) - 1
    BY <1>2, ColumnsOfBoard
  <1>6. order \in ColumnLists(new)
    BY <1>1, <1>4, <1>5, NumberedIsSorted, ItemsAreFinite DEF ColumnLists
  <1>7. PICK y : y = [p EXCEPT !.order = order] /\ y.order = order /\ y.cards = p.cards
    BY ColumnsOrdered
  <1>8. PageIs(y)'
    BY <1>2, <1>6, <1>7 DEF PageIs, IsPageOf
  <1> QED
    BY <1>7, <1>8

(***************************************************************************)
(* The steps.  Whoever else commits leaves a mark in `drift`; the page's   *)
(* own request moves on along what `Follows` says of it.                   *)
(***************************************************************************)
LEMMA UnaffectedFollows ==
  ASSUME PageFollows, UNCHANGED <<place, item, page>>, drift' = {} => drift = {},
         \A e \in Edits : \/ change'[e] = change[e]
                          \/ /\ ~change'[e].ours /\ (~change[e].ours \/ change[e].pc \in {"new", "done"})
  PROVE  PageFollows'
  <1>1. OursInFlight' = OursInFlight /\ \A e \in OursInFlight : change'[e] = change[e]
    BY DEF OursInFlight, InFlight
  <1>2. \A e \in Edits : change'[e].pc = "new" => ~change'[e].ours
    BY DEF PageFollows
  <1>3. ASSUME drift' = {}, NEW q \in OursInFlight PROVE OursInFlight' = {q} /\ Follows(q)'
    <2>1. OursInFlight = {q} /\ Follows(q) /\ change'[q] = change[q]
      BY <1>1, <1>3 DEF PageFollows
    <2>2. Follows(q)'
      BY <2>1 DEF Follows, PageIs
    <2> QED
      BY <1>1, <2>1, <2>2
  <1>4. drift' = {} /\ OursInFlight' = {} => PageIs(page)'
    BY <1>1 DEF PageFollows, PageIs
  <1> QED
    BY <1>1, <1>2, <1>3, <1>4 DEF PageFollows

LEMMA OwnRequestMoves ==
  ASSUME PageFollows, NEW q \in Edits, change[q].pc \notin {"new", "done"}, change[q].ours,
         change'[q].pc \notin {"new", "done"}, change'[q].ours, \A e \in Edits \ {q} : change'[e] = change[e],
         drift' = {} => drift = {}, drift' = {} /\ Follows(q) => Follows(q)'
  PROVE  PageFollows'
  <1>1. OursInFlight' = OursInFlight /\ q \in OursInFlight
    BY DEF OursInFlight, InFlight
  <1>2. \A e \in Edits : change'[e].pc = "new" => ~change'[e].ours
    BY DEF PageFollows
  <1>3. ASSUME drift' = {}, NEW e \in OursInFlight PROVE OursInFlight' = {e} /\ Follows(e)'
    <2>1. OursInFlight = {e} /\ e = q /\ Follows(q)
      BY <1>1, <1>3 DEF PageFollows
    <2> QED
      BY <1>1, <1>3, <2>1
  <1> QED
    BY <1>1, <1>2, <1>3 DEF PageFollows

LEMMA SendFollows ==
  ASSUME BoardInv, PageFollows, NEW q \in Edits, NEW w, NEW shown, Send(q, w, shown), shown = ShownFor(page, w),
         w.op = "deleteColumn" => page.cards[w.to] = <<>>,
         w.op = "reorder" /\ PageIs(page) => ToSet(w.order) = ToSet(page.order)
  PROVE  PageFollows'
  <1>1. PICK x \in Changes : x = change[q] /\ Known(x) /\ x.pc = "new" /\ ~x.ok
    BY DEF BoardInv, ChangesKnown, Send, Known
  <1>2. PICK p : p = page
    OBVIOUS
  <1>3. PICK y : y = [x EXCEPT !.pc = "look", !.ours = TRUE, !.wish = w, !.prev = p]
    OBVIOUS
  <1>4. y.pc = "look" /\ y.ours /\ y.wish = w /\ y.prev = p
    BY <1>3 DEF Changes
  <1>5. change' = [change EXCEPT ![q] = y]
    BY <1>1, <1>2, <1>3 DEF Send
  <1>6. change'[q] = y /\ \A e \in Edits \ {q} : change'[e] = change[e]
    BY <1>5 DEF BoardInv, ChangesKnown
  <1>7. OursInFlight' = OursInFlight \cup {q}
    BY <1>1, <1>4, <1>6 DEF OursInFlight, InFlight
  <1>8. \A e \in Edits : change'[e].pc = "new" => ~change'[e].ours
    BY <1>4, <1>6 DEF PageFollows
  <1>9. ASSUME drift' = {} PROVE OursInFlight = {} /\ Follows(q)'
    <2>1. OursInFlight = {} /\ drift = {}
      BY <1>9 DEF Send
    <2>2. PageIs(p)
      BY <1>2, <2>1 DEF PageFollows
    <2>3. page' = ShownFor(p, w) /\ UNCHANGED <<place, item>>
      BY <1>2 DEF Send
    <2>4. PageIs(p)'
      BY <2>2, <2>3 DEF PageIs
    <2>5. SentFrom(p, w)
      BY <1>2, <2>2 DEF SentFrom
    <2>6. Follows(q)'
      <3>1. IsPageOf(change'[q].prev, place', item') /\ page' = ShownFor(change'[q].prev, change'[q].wish)
            /\ SentFrom(change'[q].prev, change'[q].wish)
        BY <1>4, <1>6, <2>3, <2>4, <2>5 DEF PageIs
      <3>2. change'[q].pc = "look"
        BY <1>4, <1>6
      <3> QED
        BY <3>1, <3>2 DEF Follows, PageIs
    <2> QED
      BY <2>1, <2>6
  <1> QED
    BY <1>7, <1>8, <1>9 DEF PageFollows

LEMMA SwappedSame ==
  ASSUME NEW T, NEW s \in Seq(T), NEW i \in 1..(Len(s) - 1),
         NEW t, t = [s EXCEPT ![i] = s[i + 1], ![i + 1] = s[i]]
  PROVE  ToSet(t) = ToSet(s)
  <1>1. PICK n \in Nat : n = Len(s)
    OBVIOUS
  <1>2. DOMAIN s = 1..n /\ DOMAIN t = 1..n /\ i \in 1..n /\ i + 1 \in 1..n
    BY <1>1
  <1>3. t[i] = s[i + 1] /\ t[i + 1] = s[i] /\ \A k \in 1..n : k # i /\ k # i + 1 => t[k] = s[k]
    BY <1>1, <1>2
  <1>4. ASSUME NEW k \in 1..n PROVE (\E j \in 1..n : t[j] = s[k]) /\ \E j \in 1..n : s[j] = t[k]
    BY <1>2, <1>3
  <1> QED
    <2>1. ToSet(t) = {t[k] : k \in 1..n} /\ ToSet(s) = {s[k] : k \in 1..n}
      BY <1>2 DEF ToSet
    <2>2. \A k \in 1..n : t[k] \in {s[j] : j \in 1..n} /\ s[k] \in {t[j] : j \in 1..n}
      BY <1>4
    <2>3. {t[k] : k \in 1..n} \subseteq {s[j] : j \in 1..n} /\ {s[k] : k \in 1..n} \subseteq {t[j] : j \in 1..n}
      BY <2>2
    <2> QED
      BY <2>1, <2>3

LEMMA SendsFollow ==
  ASSUME BoardInv, PageFollows, NEW q \in Edits,
         \/ MoveItem(q) \/ RemoveItem(q) \/ AddItem(q) \/ AddColumn(q) \/ DeleteColumn(q) \/ ReorderColumns(q)
  PROVE  PageFollows'
  <1>1. CASE MoveItem(q)
    <2>1. PICK r, to, index : Send(q, Wish("move", r, to, index, <<>>), ApplyMove(page, r, to, index))
      BY <1>1 DEF MoveItem
    <2>2. PICK w : w = Wish("move", r, to, index, <<>>)
      OBVIOUS
    <2>3. w.op = "move" /\ ApplyMove(page, r, to, index) = ShownFor(page, w)
      BY <2>2 DEF Wish, ShownFor
    <2> QED
      BY <2>1, <2>2, <2>3, SendFollows
  <1>2. CASE RemoveItem(q)
    <2>1. PICK r : Send(q, Wish("remove", r, None, 0, <<>>), Without(page, r))
      BY <1>2 DEF RemoveItem
    <2>2. PICK w : w = Wish("remove", r, None, 0, <<>>)
      OBVIOUS
    <2>3. w.op = "remove" /\ Without(page, r) = ShownFor(page, w)
      BY <2>2 DEF Wish, ShownFor
    <2> QED
      BY <2>1, <2>2, <2>3, SendFollows
  <1>3. CASE AddItem(q)
    <2>1. PICK s, to : Send(q, Wish("add", s, to, 0, <<>>), page)
      BY <1>3 DEF AddItem
    <2>2. PICK w : w = Wish("add", s, to, 0, <<>>)
      OBVIOUS
    <2>3. w.op = "add" /\ page = ShownFor(page, w)
      BY <2>2 DEF Wish, ShownFor
    <2> QED
      BY <2>1, <2>2, <2>3, SendFollows
  <1>4. CASE AddColumn(q)
    <2>1. PICK w : w = Wish("addColumn", None, None, 0, <<>>)
      OBVIOUS
    <2>2. w.op = "addColumn" /\ page = ShownFor(page, w)
      BY <2>1 DEF Wish, ShownFor
    <2> QED
      BY <1>4, <2>1, <2>2, SendFollows DEF AddColumn
  <1>5. CASE DeleteColumn(q)
    <2>1. PICK c : page.cards[c] = <<>>
            /\ Send(q, Wish("deleteColumn", None, c, 0, <<>>), [page EXCEPT !.order = TakeOut(@, c)])
      BY <1>5 DEF DeleteColumn
    <2>2. PICK w : w = Wish("deleteColumn", None, c, 0, <<>>)
      OBVIOUS
    <2>3. w.op = "deleteColumn" /\ w.to = c /\ [page EXCEPT !.order = TakeOut(@, c)] = ShownFor(page, w)
      BY <2>2 DEF Wish, ShownFor
    <2> QED
      BY <2>1, <2>2, <2>3, SendFollows
  <1>6. CASE ReorderColumns(q)
    <2> DEFINE Swapped(i) == [page.order EXCEPT ![i] = page.order[i + 1], ![i + 1] = page.order[i]]
    <2>1. PICK i \in 1..(Len(page.order) - 1) :
            Send(q, Wish("reorder", None, None, 0, Swapped(i)), [page EXCEPT !.order = Swapped(i)])
      BY <1>6 DEF ReorderColumns
    <2>2. PICK order : order = Swapped(i)
      OBVIOUS
    <2>3. ToSet(order) = ToSet(page.order)
      <3>1. PICK o \in Seq(Columns) : o = page.order
        BY DEF BoardInv, PageOfBoard, Pages
      <3> QED
        BY <2>1, <2>2, <3>1, SwappedSame
    <2> HIDE DEF Swapped
    <2>4. PICK w : w = Wish("reorder", None, None, 0, order)
      OBVIOUS
    <2>5. w.op = "reorder" /\ w.order = order /\ [page EXCEPT !.order = order] = ShownFor(page, w)
      BY <2>4 DEF Wish, ShownFor
    <2>6. Send(q, w, ShownFor(page, w))
      BY <2>1, <2>2, <2>4, <2>5
    <2> QED
      BY <2>3, <2>5, <2>6, SendFollows
  <1> QED
    BY <1>1, <1>2, <1>3, <1>4, <1>5, <1>6

LEMMA UnsentFollows ==
  ASSUME BoardInv, PageFollows, NEW q \in Edits, Unsent(q)
  PROVE  PageFollows'
  <1>1. PICK x \in Changes : x = change[q] /\ x.pc = "look" /\ x.ours /\ ~x.ok
    BY DEF BoardInv, ChangesKnown, Unsent, Known
  <1>2. PICK y : y = [x EXCEPT !.pc = "answer"]
    OBVIOUS
  <1>3. y.pc = "answer" /\ y.ours /\ ~y.ok /\ y.wish = x.wish /\ y.prev = x.prev
    BY <1>1, <1>2 DEF Changes
  <1>4. change'[q] = y /\ \A e \in Edits \ {q} : change'[e] = change[e]
    BY <1>1, <1>2 DEF Unsent, BoardInv, ChangesKnown
  <1>5. UNCHANGED <<place, item, page, drift>>
    BY DEF Unsent
  <1>6. Follows(q) => Follows(q)'
    <2>1. Follows(q) => PageIs(x.prev) /\ page = ShownFor(x.prev, x.wish)
      BY <1>1 DEF Follows, Undecided
    <2>2. Undecided(x)
      BY <1>1 DEF Undecided
    <2> QED
      BY <1>3, <1>4, <1>5, <2>1 DEF Follows, PageIs
  <1> QED
    BY <1>1, <1>3, <1>4, <1>5, <1>6, OwnRequestMoves

LEMMA RefusesFollows ==
  ASSUME BoardInv, PageFollows, NEW q \in Edits, change[q].pc \in {"look", "write"}, Refuses(q)
  PROVE  PageFollows'
  <1>1. PICK x \in Changes : x = change[q] /\ x.pc \in {"look", "write"}
    BY DEF BoardInv, ChangesKnown
  <1>2. UNCHANGED <<place, item, page, drift>>
    BY DEF Refuses
  <1>3. PICK y : y = IF x.ours THEN [x EXCEPT !.pc = "answer", !.ok = FALSE] ELSE Settled
    OBVIOUS
  <1>4. change'[q] = y /\ \A e \in Edits \ {q} : change'[e] = change[e]
    BY <1>1, <1>3 DEF Refuses, Responds, BoardInv, ChangesKnown
  <1>5. CASE x.ours
    <2>1. y.pc = "answer" /\ y.ours /\ ~y.ok /\ y.wish = x.wish /\ y.prev = x.prev
      BY <1>3, <1>5 DEF Changes
    <2>2. Follows(q) => Follows(q)'
      <3>1. Follows(q) => PageIs(x.prev) /\ page = ShownFor(x.prev, x.wish)
        BY <1>1 DEF Follows, Undecided
      <3> QED
        BY <1>2, <1>4, <2>1, <3>1 DEF Follows, PageIs
    <2> QED
      BY <1>1, <1>2, <1>4, <1>5, <2>1, <2>2, OwnRequestMoves
  <1>6. CASE ~x.ours
    <2>1. ~y.ours
      BY <1>3, <1>6, SettledIsKnown DEF Settled, Idle
    <2> QED
      BY <1>1, <1>2, <1>4, <1>6, <2>1, UnaffectedFollows
  <1> QED
    BY <1>5, <1>6

LEMMA ArrivesFollows ==
  ASSUME BoardInv, PageFollows, NEW q \in Edits, Arrives(q)
  PROVE  PageFollows'
  <1>1. PICK x \in Changes : x = change[q] /\ x.pc = "new" /\ ~x.ours
    BY DEF BoardInv, ChangesKnown, Arrives, PageFollows
  <1>2. PICK w : change' = [change EXCEPT ![q].pc = "look", ![q].wish = w]
    BY DEF Arrives
  <1>3. PICK y : y = [x EXCEPT !.pc = "look", !.wish = w]
    OBVIOUS
  <1>4. change'[q] = y /\ \A e \in Edits \ {q} : change'[e] = change[e]
    BY <1>1, <1>2, <1>3 DEF BoardInv, ChangesKnown
  <1>5. ~y.ours
    BY <1>1, <1>3 DEF Changes
  <1>6. UNCHANGED <<place, item, page, drift>>
    BY DEF Arrives
  <1> QED
    BY <1>1, <1>4, <1>5, <1>6, UnaffectedFollows

LEMMA CardLookFollows ==
  ASSUME BoardInv, PageFollows, NEW q \in Edits, Look(q)
  PROVE  PageFollows'
  <1>1. PICK x \in Changes : x = change[q] /\ x.pc = "look" /\ ~x.ok
    BY DEF BoardInv, ChangesKnown, Look, Known
  <1>2. CASE Refuses(q)
    BY <1>1, <1>2, RefusesFollows
  <1>3. CASE ~Refuses(q)
    <2>1. UNCHANGED <<place, item, page, drift>>
      BY <1>3 DEF Look
    <2>2. PICK f : f = IF x.wish.op \in {"move", "remove"} THEN item[x.wish.row].col ELSE None
      OBVIOUS
    <2>3. change' = [change EXCEPT ![q].pc = "write", ![q].from = f]
      BY <1>1, <1>3, <2>2 DEF Look
    <2>4. PICK y : y = [x EXCEPT !.pc = "write", !.from = f]
      OBVIOUS
    <2>5. y.pc = "write" /\ y.ours = x.ours /\ y.wish = x.wish /\ y.prev = x.prev /\ y.from = f
      BY <2>4 DEF Changes
    <2>6. change'[q] = y /\ \A e \in Edits \ {q} : change'[e] = change[e]
      BY <1>1, <2>3, <2>4 DEF BoardInv, ChangesKnown
    <2>7. CASE x.ours
      <3>1. Follows(q) => Follows(q)'
        <4>1. Follows(q) => PageIs(x.prev) /\ page = ShownFor(x.prev, x.wish) /\ SentFrom(x.prev, x.wish)
          BY <1>1 DEF Follows, Undecided
        <4>2. x.wish.op \in {"move", "remove"} => f = item[x.wish.row].col
          BY <2>2
        <4> QED
          BY <2>1, <2>5, <2>6, <4>1, <4>2 DEF Follows, PageIs
      <3> QED
        BY <1>1, <2>1, <2>5, <2>6, <2>7, <3>1, OwnRequestMoves
    <2>8. CASE ~x.ours
      BY <1>1, <2>1, <2>5, <2>6, <2>8, UnaffectedFollows
    <2> QED
      BY <2>7, <2>8
  <1> QED
    BY <1>2, <1>3

LEMMA HearsFollows ==
  ASSUME BoardInv, PageFollows, NEW q \in Edits, Hears(q)
  PROVE  PageFollows'
  <1>1. PICK x \in Changes : x = change[q] /\ x.pc = "answer" /\ x.ours
    BY DEF BoardInv, ChangesKnown, Hears, Known
  <1>2. change'[q] = Settled /\ (\A e \in Edits \ {q} : change'[e] = change[e]) /\ UNCHANGED <<place, item>>
    BY DEF Hears, BoardInv, ChangesKnown
  <1>3. Settled.pc = "done" /\ ~Settled.ours
    BY DEF Settled, Idle
  <1>4. OursInFlight' = OursInFlight \ {q} /\ q \in OursInFlight
    BY <1>1, <1>2, <1>3 DEF OursInFlight, InFlight
  <1>5. \A e \in Edits : change'[e].pc = "new" => ~change'[e].ours
    BY <1>2, <1>3 DEF PageFollows
  <1>6. ASSUME drift' = {} PROVE OursInFlight' = {} /\ PageIs(page)'
    <2>1. drift = {} /\ Settle(q, x.ok)
      BY <1>1, <1>6 DEF Hears
    <2>2. OursInFlight = {q} /\ Follows(q)
      BY <1>4, <2>1 DEF PageFollows
    <2>3. CASE x.ok
      <3>1. page' = ShownAfter(page, x.wish, q)
        BY <1>1, <2>1, <2>3 DEF Settle, ShownAfter
      <3>2. PageIs(ShownAfter(page, x.wish, q))
        BY <1>1, <2>2, <2>3 DEF Follows
      <3> QED
        BY <1>2, <1>4, <2>2, <3>1, <3>2 DEF PageIs
    <2>4. CASE ~x.ok
      <3>1. PageIs(x.prev) /\ page = ShownFor(x.prev, x.wish)
        BY <1>1, <2>2, <2>4 DEF Follows, Undecided
      <3>2. page' = x.prev
        <4>1. CASE x.wish.op \in {"add", "addColumn"}
          <5>1. page = x.prev
            BY <3>1, <4>1 DEF ShownFor
          <5>2. page' = page
            BY <1>1, <2>1, <2>4, <4>1 DEF Settle
          <5> QED
            BY <5>1, <5>2
        <4>2. CASE x.wish.op \notin {"add", "addColumn"}
          BY <1>1, <2>1, <2>4, <4>2 DEF Settle
        <4> QED
          BY <4>1, <4>2
      <3> QED
        BY <1>2, <1>4, <2>2, <3>1, <3>2 DEF PageIs
    <2> QED
      BY <2>3, <2>4
  <1> QED
    BY <1>5, <1>6 DEF PageFollows

LEMMA ReloadFollows ==
  ASSUME BoardInv, PageFollows, Reload
  PROVE  PageFollows'
  <1>1. IsPageOf(AsLoaded, place, item)
    BY LoadedIsPage DEF BoardInv, IsPageOf
  <1>2. page' = AsLoaded /\ UNCHANGED <<place, item, change>> /\ OursInFlight = {}
    BY DEF Reload
  <1>3. OursInFlight' = {} /\ PageIs(page)'
    BY <1>1, <1>2 DEF PageIs, OursInFlight, InFlight
  <1> QED
    BY <1>2, <1>3 DEF PageFollows

\* A transaction that is answered yes: someone else's leaves its mark, one's own is what
\* the page will show.
LEMMA CommitFollows ==
  ASSUME BoardInv, PageFollows, NEW q \in Edits, change[q].pc = "write", NEW lists, Commits(q, lists), NEW w,
         change'[q].pc # "new", \A e \in Edits \ {q} : change'[e] = change[e],
         change[q].ours => change'[q].pc = "answer" /\ change'[q].ours /\ change'[q].ok /\ change'[q].wish = w,
         change[q].ours /\ lists \cap ragged = {} /\ Follows(q) => IsPageOf(ShownAfter(page, w, q), place', item')
  PROVE  PageFollows'
  <1>1. CASE change[q].ours
    <2>1. drift' = {} => drift = {} /\ lists \cap ragged = {}
      BY <1>1 DEF Commits
    <2>2. page' = page
      BY DEF Commits
    <2>3. drift' = {} /\ Follows(q) => Follows(q)'
      BY <1>1, <2>1, <2>2 DEF Follows, Undecided, PageIs
    <2> QED
      BY <1>1, <2>1, <2>3, OwnRequestMoves
  <1>2. CASE ~change[q].ours
    <2>1. drift' # {}
      BY <1>2 DEF Commits
    <2>2. \A e \in Edits : change'[e].pc = "new" => ~change'[e].ours
      BY DEF PageFollows
    <2> QED
      BY <2>1, <2>2 DEF PageFollows
  <1> QED
    BY <1>1, <1>2

LEMMA YesAnswered ==
  ASSUME BoardInv, NEW q \in Edits, Responds(q, TRUE)
  PROVE  /\ change'[q].pc # "new" /\ \A e \in Edits \ {q} : change'[e] = change[e]
         /\ change[q].ours =>
              change'[q].pc = "answer" /\ change'[q].ours /\ change'[q].ok /\ change'[q].wish = change[q].wish
  <1>1. PICK x \in Changes : x = change[q]
    BY DEF BoardInv, ChangesKnown
  <1>2. PICK y : y = IF x.ours THEN [x EXCEPT !.pc = "answer", !.ok = TRUE] ELSE Settled
    OBVIOUS
  <1>3. change'[q] = y /\ \A e \in Edits \ {q} : change'[e] = change[e]
    BY <1>1, <1>2 DEF Responds, BoardInv, ChangesKnown
  <1>4. x.ours => y.pc = "answer" /\ y.ours /\ y.ok /\ y.wish = x.wish
    BY <1>2 DEF Changes
  <1>5. Settled.pc = "done"
    BY DEF Settled, Idle
  <1> QED
    BY <1>1, <1>2, <1>3, <1>4, <1>5

\* What is known of one's own request as its transaction runs.
LEMMA WriteFollows ==
  ASSUME BoardInv, NEW q \in Edits, change[q].pc = "write", change[q].ours, Follows(q)
  PROVE  LET x == change[q] IN
         /\ x.prev \in Pages /\ PageIs(x.prev) /\ page = ShownFor(x.prev, x.wish) /\ SentFrom(x.prev, x.wish)
         /\ x.wish.op \in {"move", "remove"} /\ item[x.wish.row] # None => x.from = item[x.wish.row].col
  <1>1. change[q].prev \in Pages
    BY DEF BoardInv, ChangesKnown, Known
  <1> QED
    BY <1>1 DEF Follows, Undecided

LEMMA MoveInTransactionFollows ==
  ASSUME BoardInv, PageFollows, NEW q \in Edits, MoveInTransaction(q)
  PROVE  PageFollows'
  <1>1. PICK x \in Changes : x = change[q] /\ Known(x) /\ x.pc = "write" /\ x.wish.op = "move"
    BY DEF BoardInv, ChangesKnown, MoveInTransaction, Writes
  <1>2. PICK r \in Items, to \in Columns, from \in Columns, index \in Nat :
          r = x.wish.row /\ to = x.wish.to /\ from = x.from /\ index = x.wish.index
    BY <1>1 DEF Known, AsksFor, Changes, Wishes
  <1>3. CASE Refuses(q)
    BY <1>1, <1>3, RefusesFollows
  <1>4. CASE ~Refuses(q)
    <2>1. /\ item[r] # None /\ Exists(to)
          /\ \E s \in Lists([item EXCEPT ![r] = None], to) :
               LET moved == Numbered(item, to, Insert(s, index, r)) IN
               IF from = to THEN item' = moved
               ELSE \E left \in Lists(moved, from) : item' = Numbered(moved, from, left)
          /\ Responds(q, TRUE) /\ Commits(q, {to, from}) /\ UNCHANGED place
      BY <1>1, <1>2, <1>4 DEF MoveInTransaction
    <2>2. ASSUME x.ours, {to, from} \cap ragged = {}, Follows(q)
          PROVE  IsPageOf(ShownAfter(page, x.wish, q), place', item')
      <3>1. PICK p \in Pages : p = x.prev /\ PageIs(p) /\ page = ShownFor(p, x.wish) /\ from = item[r].col
        BY <1>1, <1>2, <2>1, <2>2, WriteFollows
      <3>2. PageIs(ApplyMove(p, r, to, index))'
        BY <2>1, <2>2, <3>1, MoveShown
      <3>3. ShownAfter(page, x.wish, q) = ApplyMove(p, r, to, index)
        BY <1>1, <1>2, <3>1 DEF ShownAfter, ShownFor
      <3> QED
        BY <3>2, <3>3 DEF PageIs
    <2> QED
      BY <1>1, <2>1, <2>2, YesAnswered, CommitFollows
  <1> QED
    BY <1>3, <1>4

LEMMA RemoveInTransactionFollows ==
  ASSUME BoardInv, PageFollows, NEW q \in Edits, RemoveInTransaction(q)
  PROVE  PageFollows'
  <1>1. PICK x \in Changes : x = change[q] /\ Known(x) /\ x.pc = "write" /\ x.wish.op = "remove"
    BY DEF BoardInv, ChangesKnown, RemoveInTransaction, Writes
  <1>2. PICK r \in Items, from \in Columns : r = x.wish.row /\ from = x.from
    BY <1>1 DEF Known, AsksFor
  <1>3. CASE Refuses(q)
    BY <1>1, <1>3, RefusesFollows
  <1>4. CASE ~Refuses(q)
    <2>1. /\ item[r] # None
          /\ \E left \in Lists([item EXCEPT ![r] = None], from) : item' = Numbered([item EXCEPT ![r] = None], from, left)
          /\ Responds(q, TRUE) /\ Commits(q, {from}) /\ UNCHANGED place
      BY <1>1, <1>2, <1>4 DEF RemoveInTransaction
    <2>2. ASSUME x.ours, {from} \cap ragged = {}, Follows(q)
          PROVE  IsPageOf(ShownAfter(page, x.wish, q), place', item')
      <3>1. PICK p \in Pages : p = x.prev /\ PageIs(p) /\ page = ShownFor(p, x.wish) /\ from = item[r].col
        BY <1>1, <1>2, <2>1, <2>2, WriteFollows
      <3>2. PageIs(Without(p, r))'
        BY <2>1, <2>2, <3>1, RemoveShown
      <3>3. ShownAfter(page, x.wish, q) = Without(p, r)
        BY <1>1, <1>2, <3>1 DEF ShownAfter, ShownFor
      <3> QED
        BY <3>2, <3>3 DEF PageIs
    <2> QED
      BY <1>1, <2>1, <2>2, YesAnswered, CommitFollows
  <1> QED
    BY <1>3, <1>4

LEMMA AddInTransactionFollows ==
  ASSUME BoardInv, PageFollows, NEW q \in Edits, AddInTransaction(q)
  PROVE  PageFollows'
  <1>1. PICK x \in Changes : x = change[q] /\ Known(x) /\ x.pc = "write" /\ x.wish.op = "add"
    BY DEF BoardInv, ChangesKnown, AddInTransaction, Writes
  <1>2. PICK s \in Subjects, to \in Columns : s = x.wish.row /\ to = x.wish.to
    BY <1>1 DEF Known, AsksFor
  <1>3. CASE Refuses(q)
    BY <1>1, <1>3, RefusesFollows
  <1>4. CASE ~Refuses(q)
    <2>1. /\ Exists(to)
          /\ item' = [item EXCEPT ![q] = [subject |-> s, col |-> to, position |-> Cardinality(InColumn(item, to))]]
          /\ Responds(q, TRUE) /\ Commits(q, {to}) /\ UNCHANGED place
      BY <1>1, <1>2, <1>4 DEF AddInTransaction
    <2>2. ASSUME x.ours, {to} \cap ragged = {}, Follows(q)
          PROVE  IsPageOf(ShownAfter(page, x.wish, q), place', item')
      <3>1. PICK p \in Pages : p = x.prev /\ PageIs(p) /\ page = ShownFor(p, x.wish)
        BY <1>1, <2>2, WriteFollows
      <3>2. item[q] = None
        BY <1>1 DEF BoardInv, NotYetAdded
      <3>3. PageIs([p EXCEPT !.cards[to] = Append(@, q)])'
        BY <2>1, <2>2, <3>1, <3>2, AddShown
      <3>4. page = p
        BY <1>1, <3>1 DEF ShownFor
      <3>5. ShownAfter(page, x.wish, q) = [p EXCEPT !.cards[to] = Append(@, q)]
        BY <1>1, <1>2, <3>4 DEF ShownAfter
      <3> QED
        BY <3>3, <3>5 DEF PageIs
    <2> QED
      BY <1>1, <2>1, <2>2, YesAnswered, CommitFollows
  <1> QED
    BY <1>3, <1>4

LEMMA AddColumnInTransactionFollows ==
  ASSUME BoardInv, PageFollows, NEW q \in Edits, AddColumnInTransaction(q)
  PROVE  PageFollows'
  <1>1. PICK x \in Changes : x = change[q] /\ x.pc = "write" /\ x.wish.op = "addColumn"
    BY DEF BoardInv, ChangesKnown, AddColumnInTransaction, Writes
  <1>2. PICK c \in Columns :
          /\ place[c] = None /\ place' = [place EXCEPT ![c] = Cardinality(Live)]
          /\ change' = [change EXCEPT ![q] =
               IF @.ours THEN [@ EXCEPT !.pc = "answer", !.ok = TRUE, !.wish.to = c] ELSE Settled]
    BY DEF AddColumnInTransaction
  <1>3. Commits(q, {"columns"}) /\ UNCHANGED item
    BY DEF AddColumnInTransaction
  <1>4. PICK w : w = [x.wish EXCEPT !.to = c]
    OBVIOUS
  <1>5. w.op = "addColumn" /\ w.to = c
    BY <1>1, <1>4 DEF Changes, Wishes
  <1>6. PICK y : y = IF x.ours THEN [x EXCEPT !.pc = "answer", !.ok = TRUE, !.wish.to = c] ELSE Settled
    OBVIOUS
  <1>7. change'[q] = y /\ \A e \in Edits \ {q} : change'[e] = change[e]
    BY <1>1, <1>2, <1>6 DEF BoardInv, ChangesKnown
  <1>8. x.ours => y.pc = "answer" /\ y.ours /\ y.ok /\ y.wish = w
    BY <1>4, <1>6 DEF Changes
  <1>9. Settled.pc = "done"
    BY DEF Settled, Idle
  <1>10. ASSUME x.ours, {"columns"} \cap ragged = {}, Follows(q)
         PROVE  IsPageOf(ShownAfter(page, w, q), place', item')
    <2>1. PICK p \in Pages : p = x.prev /\ PageIs(p) /\ page = ShownFor(p, x.wish)
      BY <1>1, <1>10, WriteFollows
    <2>2. PageIs([p EXCEPT !.order = Append(@, c)])'
      BY <1>2, <1>3, <1>10, <2>1, AddColumnShown
    <2>3. page = p
      BY <1>1, <2>1 DEF ShownFor
    <2>4. ShownAfter(page, w, q) = [p EXCEPT !.order = Append(@, c)]
      BY <1>5, <2>3 DEF ShownAfter
    <2> QED
      BY <2>2, <2>4 DEF PageIs
  <1> QED
    BY <1>1, <1>3, <1>6, <1>7, <1>8, <1>9, <1>10, CommitFollows

LEMMA DeleteColumnInTransactionFollows ==
  ASSUME BoardInv, PageFollows, NEW q \in Edits, DeleteColumnInTransaction(q)
  PROVE  PageFollows'
  <1>1. PICK x \in Changes : x = change[q] /\ Known(x) /\ x.pc = "write" /\ x.wish.op = "deleteColumn"
    BY DEF BoardInv, ChangesKnown, DeleteColumnInTransaction, Writes
  <1>2. PICK gone \in Columns : gone = x.wish.to
    BY <1>1 DEF Known, AsksFor
  <1>3. CASE Refuses(q)
    BY <1>1, <1>3, RefusesFollows
  <1>4. CASE ~Refuses(q)
    <2>1. Responds(q, TRUE) /\ Commits(q, {"columns"})
      BY <1>1, <1>2, <1>4 DEF DeleteColumnInTransaction
    <2>2. PICK rest : rest = [place EXCEPT ![gone] = None] /\ rest = [place EXCEPT ![change[q].wish.to] = None]
      BY <1>1, <1>2
    <2>3. PICK s \in ColumnLists(rest) :
            /\ place' = [c \in Columns |-> place'[c]]
            /\ \A c \in Columns : place'[c] = IF c \in ToSet(s) THEN At(s, c) - 1 ELSE rest[c]
      <3>1. PICK s \in ColumnLists([place EXCEPT ![change[q].wish.to] = None]) :
              place' = [c \in Columns |-> IF c \in ToSet(s) THEN At(s, c) - 1
                                          ELSE [place EXCEPT ![change[q].wish.to] = None][c]]
        BY <1>4 DEF DeleteColumnInTransaction
      <3>2. s \in ColumnLists(rest) /\ place' = [c \in Columns |-> place'[c]]
            /\ \A c \in Columns : place'[c] = IF c \in ToSet(s) THEN At(s, c) - 1 ELSE rest[c]
        BY <2>2, <3>1
      <3> QED
        BY <3>2
    <2>4. /\ item' = [r \in Items |-> item'[r]]
          /\ \A r \in Items : item'[r] = IF r \in InColumn(item, gone) THEN None ELSE item[r]
      <3>1. item' = [r \in Items |-> IF r \in InColumn(item, change[q].wish.to) THEN None ELSE item[r]]
        BY <1>4 DEF DeleteColumnInTransaction
      <3>2. item' = [r \in Items |-> item'[r]]
            /\ \A r \in Items : item'[r] = IF r \in InColumn(item, gone) THEN None ELSE item[r]
        BY <1>1, <1>2, <3>1
      <3> QED
        BY <3>2
    <2>5. ASSUME x.ours, {"columns"} \cap ragged = {}, Follows(q)
          PROVE  IsPageOf(ShownAfter(page, x.wish, q), place', item')
      <3>1. PICK p \in Pages : p = x.prev /\ PageIs(p) /\ page = ShownFor(p, x.wish) /\ p.cards[gone] = <<>>
        BY <1>1, <1>2, <2>5, WriteFollows DEF SentFrom
      <3>2. PageIs([p EXCEPT !.order = TakeOut(@, gone)])'
        <4>1. PageIs(p) /\ p.cards[gone] = <<>> /\ "columns" \notin ragged
          BY <2>5, <3>1
        <4>2. ColumnLeaves(gone, rest, s)
          BY <2>2, <2>3, <2>4 DEF ColumnLeaves
        <4> QED
          BY <4>1, <4>2, DeleteColumnShown
      <3>3. ShownAfter(page, x.wish, q) = [p EXCEPT !.order = TakeOut(@, gone)]
        BY <1>1, <1>2, <3>1 DEF ShownAfter, ShownFor
      <3> QED
        BY <3>2, <3>3 DEF PageIs
    <2> QED
      BY <1>1, <2>1, <2>5, YesAnswered, CommitFollows
  <1> QED
    BY <1>3, <1>4

LEMMA ReorderInTransactionFollows ==
  ASSUME BoardInv, PageFollows, NEW q \in Edits, ReorderInTransaction(q)
  PROVE  PageFollows'
  <1>1. PICK x \in Changes : x = change[q] /\ Known(x) /\ x.pc = "write" /\ x.wish.op = "reorder"
    BY DEF BoardInv, ChangesKnown, ReorderInTransaction, Writes
  <1>2. PICK order \in Seq(Columns) : order = x.wish.order /\ IsInjective(order)
    BY <1>1 DEF Known, Changes, Wishes
  <1>3. CASE Refuses(q)
    BY <1>1, <1>3, RefusesFollows
  <1>4. CASE ~Refuses(q)
    <2>1. /\ place' = [c \in Columns |-> IF c \in ToSet(order) THEN At(order, c) - 1 ELSE place[c]]
          /\ Responds(q, TRUE) /\ Commits(q, {}) /\ UNCHANGED item
      BY <1>1, <1>2, <1>4 DEF ReorderInTransaction
    <2>2. ASSUME x.ours, Follows(q) PROVE IsPageOf(ShownAfter(page, x.wish, q), place', item')
      <3>1. PICK p \in Pages : p = x.prev /\ PageIs(p) /\ page = ShownFor(p, x.wish) /\ ToSet(order) = ToSet(p.order)
        BY <1>1, <1>2, <2>2, WriteFollows DEF SentFrom
      <3>2. ToSet(p.order) = Live
        <4>1. Enumerates(p.order, {c \in Columns : place[c] # None})
          BY <3>1, ListsAreEnumerations DEF PageIs, IsPageOf
        <4> QED
          BY <4>1, ColumnsOfBoard DEF Enumerates
      <3>3. PageIs([p EXCEPT !.order = order])'
        BY <1>2, <2>1, <3>1, <3>2, ReorderShown
      <3>4. ShownAfter(page, x.wish, q) = [p EXCEPT !.order = order]
        BY <1>1, <1>2, <3>1 DEF ShownAfter, ShownFor
      <3> QED
        BY <3>3, <3>4 DEF PageIs
    <2> QED
      BY <1>1, <2>1, <2>2, YesAnswered, CommitFollows
  <1> QED
    BY <1>3, <1>4

LEMMA PageFollowsInit == BoardInit => PageFollows
  <1> SUFFICES ASSUME BoardInit PROVE PageFollows
    OBVIOUS
  <1>1. page = AsLoaded /\ \A q \in Edits : change[q] = Idle
    BY DEF BoardInit
  <1>2. PageIs(page)
    BY <1>1, BoardInvInit, LoadedIsPage DEF BoardInv, PageIs, IsPageOf
  <1>3. \A q \in Edits : change[q].pc = "new" /\ ~change[q].ours
    BY <1>1 DEF Idle
  <1>4. OursInFlight = {}
    BY <1>3 DEF OursInFlight, InFlight
  <1> QED
    BY <1>2, <1>3, <1>4 DEF PageFollows

LEMMA PageFollowsStep == BoardInv /\ PageFollows /\ [BoardNext]_boardVars => PageFollows'
  <1> SUFFICES ASSUME BoardInv, PageFollows, [BoardNext]_boardVars PROVE PageFollows'
    OBVIOUS
  <1>1. CASE UNCHANGED boardVars
    BY <1>1, UnaffectedFollows DEF boardVars
  <1>2. CASE Reload
    BY <1>2, ReloadFollows
  <1>3. ASSUME NEW q \in Edits,
               \/ MoveItem(q) \/ RemoveItem(q) \/ AddItem(q) \/ AddColumn(q) \/ DeleteColumn(q) \/ ReorderColumns(q)
        PROVE  PageFollows'
    BY <1>3, SendsFollow
  <1>4. ASSUME NEW q \in Edits, Arrives(q) \/ Unsent(q) \/ Look(q) \/ Hears(q) PROVE PageFollows'
    BY <1>4, ArrivesFollows, UnsentFollows, CardLookFollows, HearsFollows
  <1>5. ASSUME NEW q \in Edits,
               \/ MoveInTransaction(q) \/ RemoveInTransaction(q) \/ AddInTransaction(q)
               \/ AddColumnInTransaction(q) \/ DeleteColumnInTransaction(q) \/ ReorderInTransaction(q)
        PROVE  PageFollows'
    BY <1>5, MoveInTransactionFollows, RemoveInTransactionFollows, AddInTransactionFollows,
       AddColumnInTransactionFollows, DeleteColumnInTransactionFollows, ReorderInTransactionFollows
  <1> QED
    BY <1>1, <1>2, <1>3, <1>4, <1>5 DEF BoardNext

LEMMA PageFollowsHolds == BoardSpec => [](BoardInv /\ PageFollows)
  <1>1. BoardInv /\ PageFollows /\ [BoardNext]_boardVars => (BoardInv /\ PageFollows)'
    BY BoardInvStep, PageFollowsStep
  <1> QED
    BY <1>1, BoardInvInit, PageFollowsInit, PTL DEF BoardSpec

LEMMA FollowingShows == BoardInv /\ PageFollows => PageShowsBoard
  BY ColumnsOfBoard DEF PageFollows, PageShowsBoard, Shown, PageIs, IsPageOf

(***************************************************************************)
(* The page of a board with nothing under way shows the board as it is     *)
(* stored, for any columns, cards and requests, whatever failed or was     *)
(* rolled back (ProjectBoardView.tsx, BoardView.tsx, routes/projects.ts),  *)
(* save after changes by others, a lost answer, two changes of its own at  *)
(* once, or one of its own to a list with ties.                            *)
(***************************************************************************)
THEOREM BoardIsShown == BoardSpec => []PageShowsBoard
  BY PageFollowsHolds, FollowingShows, PTL

=============================================================================

------------------------------- MODULE Board -------------------------------
(***************************************************************************)
(* The board of one project: its columns and cards in the database, each   *)
(* with a stored position, and a page of the web client that shows them    *)
(* and applies its own changes before the server answers.  Others change   *)
(* the board meanwhile; what they do is not shown until a reload.          *)
(***************************************************************************)
EXTENDS Handlers, FiniteSets, SequencesExt

CONSTANTS
  Columns,           \* ids of columns; an id does not come back
  DEFAULT_COLUMNS,   \* those the project starts with, in order
  Subjects,          \* issues and pull requests of the repository
  Edits              \* requests that change the board, one change each

ASSUME BoardIsFinite == IsFiniteSet(Columns) /\ IsFiniteSet(Subjects) /\ IsFiniteSet(Edits)
ASSUME DefaultsDiffer == DEFAULT_COLUMNS \in Seq(Columns) /\ IsInjective(DEFAULT_COLUMNS)
ASSUME IdsApart == Subjects \cap Edits = {} /\ "columns" \notin Columns
ASSUME NoneIsNoCard == None \notin Nat \cup [subject: Subjects, col: Columns, position: Nat]

VARIABLES
  place,     \* ProjectColumn.position, None if there is no such column
  dropped,   \* columns that were deleted
  item,      \* ProjectItem of each row id: a first row per subject, and one per request
  change,    \* requests: what the handler knows
  page,      \* what the page shows: columns in order, cards of each in order
  losses,    \* bound
  ragged,    \* history: lists (a column's, or that of the columns) not numbered as a whole by a write
  drift      \* history: why page and database may differ

boardVars == <<place, dropped, item, change, page, losses, ragged, drift>>

Items == Subjects \cup Edits
Exists(c) == place[c] # None
Live == {c \in Columns : Exists(c)}
InColumn(rows, c) == {r \in Items : rows[r] # None /\ rows[r].col = c}

\* orderBy position: rows of one position come in any order.
Sorted(S, pos) == {s \in SetToSeqs(S) : \A i, j \in DOMAIN s : i < j => pos[s[i]] <= pos[s[j]]}
Lists(rows, c) == Sorted(InColumn(rows, c), [r \in InColumn(rows, c) |-> rows[r].position])
ColumnLists(places) == Sorted({c \in Columns : places[c] # None}, places)
At(s, x) == CHOOSE i \in DOMAIN s : s[i] = x
TakeOut(s, x) == IF x \in ToSet(s) THEN RemoveAt(s, At(s, x)) ELSE s
Numbered(rows, c, s) == [r \in Items |->
  IF r \in ToSet(s) THEN [rows[r] EXCEPT !.col = c, !.position = At(s, r) - 1] ELSE rows[r]]

\* loadDetail
Shown(p) == p.order \in ColumnLists(place) /\ \A c \in Live : p.cards[c] \in Lists(item, c)
AsLoaded == [order |-> CHOOSE s \in ColumnLists(place) : TRUE,
             cards |-> [c \in Columns |-> CHOOSE s \in Lists(item, c) : TRUE]]

\* What a request asks for, and what its handler and its page keep.
Wish(op, r, to, index, order) == [op |-> op, row |-> r, to |-> to, index |-> index, order |-> order]
NoWish == Wish(None, None, None, 0, <<>>)
Idle == [pc |-> "new", ours |-> FALSE, wish |-> NoWish, from |-> None, prev |-> None, ok |-> FALSE]
Settled == [Idle EXCEPT !.pc = "done"]
InFlight == {q \in Edits : change[q].pc \notin {"new", "done"}}
OursInFlight == {q \in InFlight : change[q].ours}

BoardTypeOK ==
  /\ place \in [Columns -> {None} \cup 0..(Cardinality(Columns) - 1)] /\ dropped \subseteq Columns \ Live
  /\ \A r \in Items : item[r] = None \/ (item[r].subject \in Subjects /\ item[r].col \in Live /\ item[r].position \in Nat)
  /\ \A r, s \in Items : item[r] # None /\ item[s] # None /\ item[r].subject = item[s].subject => r = s
  /\ \A q \in Edits : change[q].pc \in {"new", "look", "write", "answer", "done"}
  /\ page.order \in Seq(Columns) /\ page.cards \in [Columns -> Seq(Items)]
  /\ losses \in 0..MaxFaults /\ ragged \subseteq Columns \cup {"columns"} /\ drift \subseteq {"others", "overlap", "lost", "ties"}

\* Some of the subjects are on the board already; the page shows it.
BoardInit ==
  /\ place = [c \in Columns |-> IF c \in ToSet(DEFAULT_COLUMNS) THEN At(DEFAULT_COLUMNS, c) - 1 ELSE None]
  /\ dropped = {}
  /\ \E S \in SUBSET Subjects : \E s \in SetToSeqs(S), col \in [S -> ToSet(DEFAULT_COLUMNS)] :
       item = [r \in Items |-> IF r \notin S THEN None ELSE
                 [subject |-> r, col |-> col[r],
                  position |-> Cardinality({i \in 1..(At(s, r) - 1) : col[s[i]] = col[r]})]]
  /\ change = [q \in Edits |-> Idle]
  /\ page = AsLoaded
  /\ losses = 0 /\ ragged = {} /\ drift = {}

-----------------------------------------------------------------------------
(***************************************************************************)
(* The page                                                                *)
(***************************************************************************)
ShownIn(p, r) == CHOOSE c \in Columns : r \in ToSet(p.cards[c])
OnPage == UNION {ToSet(page.cards[c]) : c \in ToSet(page.order)}
Insert(s, index, r) == InsertAt(s, (IF index < Len(s) THEN index ELSE Len(s)) + 1, r)
Without(p, r) == [p EXCEPT !.cards = [c \in Columns |-> TakeOut(@[c], r)]]

\* mutant: the index still counts the card that moves
ApplyMoveInPlace(p, r, to, index) ==
  LET shift == IF r \in ToSet(p.cards[to]) /\ At(p.cards[to], r) <= index THEN 1 ELSE 0
  IN  [Without(p, r) EXCEPT !.cards[to] = Insert(@, index - shift, r)]

\* The card is taken out, then put in at the index.
ApplyMove(p, r, to, index) == [Without(p, r) EXCEPT !.cards[to] = Insert(@, index, r)]

\* A request is sent; the page may have changed already, and knows what it showed before.
Send(q, wish, shown) ==
  /\ change[q].pc = "new"
  /\ change' = [change EXCEPT ![q] = [@ EXCEPT !.pc = "look", !.ours = TRUE, !.wish = wish, !.prev = page]]
  /\ page' = shown
  /\ drift' = IF OursInFlight = {} THEN drift ELSE drift \cup {"overlap"}
  /\ UNCHANGED <<place, dropped, item, losses, ragged>>

MoveItem(q) == \E r \in OnPage, to \in ToSet(page.order) : \E index \in 0..Len(TakeOut(page.cards[to], r)) :
  Send(q, Wish("move", r, to, index, <<>>), ApplyMove(page, r, to, index))
RemoveItem(q) == \E r \in OnPage : Send(q, Wish("remove", r, None, 0, <<>>), Without(page, r))
AddItem(q) == \E s \in Subjects, to \in ToSet(page.order) : Send(q, Wish("add", s, to, 0, <<>>), page)
AddColumn(q) == Send(q, Wish("addColumn", None, None, 0, <<>>), page)
DeleteColumn(q) == \E c \in ToSet(page.order) :
  /\ page.cards[c] = <<>>
  /\ Send(q, Wish("deleteColumn", None, c, 0, <<>>), [page EXCEPT !.order = TakeOut(@, c)])
ReorderColumns(q) == \E i \in 1..(Len(page.order) - 1) :
  LET order == [page.order EXCEPT ![i] = page.order[i + 1], ![i + 1] = page.order[i]]
  IN  Send(q, Wish("reorder", None, None, 0, order), [page EXCEPT !.order = order])

\* What the page does with the answer; one that is lost counts as a failure.
Settle(q, ok) == LET w == change[q].wish IN
  page' = CASE ok /\ w.op = "add" -> [page EXCEPT !.cards[w.to] = Append(@, q)]
            [] ok /\ w.op = "addColumn" -> [page EXCEPT !.order = Append(@, w.to)]
            [] ~ok /\ w.op \notin {"add", "addColumn"} -> change[q].prev
            [] OTHER -> page

Hears(q) ==
  /\ change[q].pc = "answer" /\ change' = [change EXCEPT ![q] = Settled]
  /\ \/ Settle(q, change[q].ok) /\ UNCHANGED <<losses, drift>>
     \/ /\ change[q].ok /\ losses < MaxFaults /\ losses' = losses + 1
        /\ Settle(q, FALSE) /\ drift' = drift \cup {"lost"}
  /\ UNCHANGED <<place, dropped, item, ragged>>

\* The request does not reach the server.
Unsent(q) ==
  /\ change[q].pc = "look" /\ change[q].ours /\ losses < MaxFaults /\ losses' = losses + 1
  /\ change' = [change EXCEPT ![q].pc = "answer"]
  /\ UNCHANGED <<place, dropped, item, page, ragged, drift>>

Reload ==
  /\ OursInFlight = {} /\ ~Shown(page)
  /\ page' = AsLoaded /\ drift' = {}
  /\ UNCHANGED <<place, dropped, item, change, losses, ragged>>

-----------------------------------------------------------------------------
(***************************************************************************)
(* The server: what a handler reads, then its transaction                  *)
(***************************************************************************)
Responds(q, ok) == change' = [change EXCEPT ![q] =
  IF @.ours THEN [@ EXCEPT !.pc = "answer", !.ok = ok] ELSE Settled]
Refuses(q) == Responds(q, FALSE) /\ UNCHANGED <<place, dropped, item, page, losses, ragged, drift>>

\* The lists a transaction works on: in a ragged one two rows may have one position, or the
\* next position be before the last, and the page cannot know in which order they come.
Commits(q, lists) ==
  /\ drift' = drift \cup IF ~change[q].ours THEN {"others"} ELSE IF lists \cap ragged # {} THEN {"ties"} ELSE {}
  /\ UNCHANGED <<page, losses>>

\* Someone else's request, from a page that may show anything there is.
Arrives(q) ==
  /\ change[q].pc = "new"
  /\ \E r \in {x \in Items : item[x] # None}, s \in Subjects, to \in Live, index \in {0, Cardinality(Items)} :
     \E order \in SetToSeqs(Live) :
     \E wish \in {Wish("move", r, to, index, <<>>), Wish("remove", r, None, 0, <<>>),
                  Wish("add", s, to, 0, <<>>), Wish("addColumn", None, None, 0, <<>>),
                  Wish("deleteColumn", None, to, 0, <<>>), Wish("reorder", None, None, 0, order)} :
       change' = [change EXCEPT ![q].pc = "look", ![q].wish = wish]
  /\ UNCHANGED <<place, dropped, item, page, losses, ragged, drift>>

OnBoard(s) == \E r \in Items : item[r] # None /\ item[r].subject = s
MayProceed(w) ==
  CASE w.op = "move" -> item[w.row] # None /\ (Exists(w.to) \/ w.to = item[w.row].col)
    [] w.op = "remove" -> item[w.row] # None
    [] w.op = "add" -> Exists(w.to) /\ ~OnBoard(w.row)
    [] w.op = "deleteColumn" -> Exists(w.to) /\ InColumn(item, w.to) = {}
    [] w.op = "reorder" -> w.order \in SetToSeqs(Live)
    [] OTHER -> TRUE

\* The row's column is read here, and relied on in the transaction.
Look(q) == LET w == change[q].wish IN
  /\ change[q].pc = "look"
  /\ \/ /\ MayProceed(w)
        /\ change' = [change EXCEPT ![q].pc = "write",
                                    ![q].from = IF w.op \in {"move", "remove"} THEN item[w.row].col ELSE None]
        /\ UNCHANGED <<place, dropped, item, page, losses, ragged, drift>>
     \/ ~MayProceed(w) /\ Refuses(q)

Writes(q, op) == change[q].pc = "write" /\ change[q].wish.op = op

\* The column the row was in is left with a gap if it is not one of those numbered again.
LeavesGap(numbered, r) == ragged' = (ragged \ numbered) \cup ({item[r].col} \ numbered)

\* mutant: only the destination is numbered
MoveIntoOnly(q) == LET w == change[q].wish  IN
  /\ Writes(q, "move")
  /\ IF item[w.row] = None \/ ~Exists(w.to) THEN Refuses(q)
     ELSE /\ \E s \in Lists([item EXCEPT ![w.row] = None], w.to) : item' = Numbered(item, w.to, Insert(s, w.index, w.row))
          /\ LeavesGap({w.to, change[q].from}, w.row)
          /\ Responds(q, TRUE) /\ Commits(q, {w.to, change[q].from}) /\ UNCHANGED <<place, dropped>>

MoveInTransaction(q) == LET w == change[q].wish  from == change[q].from IN
  /\ Writes(q, "move")
  /\ IF item[w.row] = None \/ ~Exists(w.to) THEN Refuses(q)
     ELSE /\ \E s \in Lists([item EXCEPT ![w.row] = None], w.to) :
               LET moved == Numbered(item, w.to, Insert(s, w.index, w.row)) IN
               IF from = w.to THEN item' = moved
               ELSE \E left \in Lists(moved, from) : item' = Numbered(moved, from, left)
          /\ LeavesGap({w.to, from}, w.row)
          /\ Responds(q, TRUE) /\ Commits(q, {w.to, from}) /\ UNCHANGED <<place, dropped>>

RemoveInTransaction(q) == LET r == change[q].wish.row  from == change[q].from IN
  /\ Writes(q, "remove")
  /\ IF item[r] = None THEN Refuses(q)
     ELSE /\ \E left \in Lists([item EXCEPT ![r] = None], from) :
               item' = Numbered([item EXCEPT ![r] = None], from, left)
          /\ LeavesGap({from}, r)
          /\ Responds(q, TRUE) /\ Commits(q, {from}) /\ UNCHANGED <<place, dropped>>

\* At most one card of a subject, by a constraint.
AddInTransaction(q) == LET w == change[q].wish IN
  /\ Writes(q, "add")
  /\ IF OnBoard(w.row) \/ ~Exists(w.to) THEN Refuses(q)
     ELSE /\ item' = [item EXCEPT ![q] = [subject |-> w.row, col |-> w.to,
                                          position |-> Cardinality(InColumn(item, w.to))]]
          /\ Responds(q, TRUE) /\ Commits(q, {w.to}) /\ UNCHANGED <<place, dropped, ragged>>

AddColumnInTransaction(q) ==
  /\ Writes(q, "addColumn")
  /\ \E c \in Columns :
       /\ place[c] = None /\ c \notin dropped /\ place' = [place EXCEPT ![c] = Cardinality(Live)]
       /\ change' = [change EXCEPT ![q] =
            IF @.ours THEN [@ EXCEPT !.pc = "answer", !.ok = TRUE, !.wish.to = c] ELSE Settled]
  /\ Commits(q, {"columns"}) /\ UNCHANGED <<dropped, item, ragged>>

\* The cards that came meanwhile go with the column; the other columns are numbered again.
DeleteColumnInTransaction(q) == LET gone == change[q].wish.to  rest == [place EXCEPT ![gone] = None] IN
  /\ Writes(q, "deleteColumn")
  /\ IF ~Exists(gone) THEN Refuses(q)
     ELSE /\ \E s \in ColumnLists(rest) :
               place' = [c \in Columns |-> IF c \in ToSet(s) THEN At(s, c) - 1 ELSE rest[c]]
          /\ item' = [r \in Items |-> IF r \in InColumn(item, gone) THEN None ELSE item[r]]
          /\ dropped' = dropped \cup {gone} /\ ragged' = ragged \ {gone, "columns"}
          /\ Responds(q, TRUE) /\ Commits(q, {"columns"})

ReorderInTransaction(q) == LET order == change[q].wish.order IN
  /\ Writes(q, "reorder")
  /\ IF ~(ToSet(order) \subseteq Live) THEN Refuses(q)
     ELSE /\ place' = [c \in Columns |-> IF c \in ToSet(order) THEN At(order, c) - 1 ELSE place[c]]
          /\ ragged' = IF ToSet(order) = Live THEN ragged \ {"columns"} ELSE ragged \cup {"columns"}
          /\ Responds(q, TRUE) /\ Commits(q, {}) /\ UNCHANGED <<dropped, item>>

BoardNext ==
  \/ \E q \in Edits :
       \/ MoveItem(q) \/ RemoveItem(q) \/ AddItem(q) \/ AddColumn(q) \/ DeleteColumn(q) \/ ReorderColumns(q)
       \/ Arrives(q) \/ Unsent(q) \/ Look(q) \/ Hears(q)
       \/ MoveInTransaction(q) \/ RemoveInTransaction(q) \/ AddInTransaction(q)
       \/ AddColumnInTransaction(q) \/ DeleteColumnInTransaction(q) \/ ReorderInTransaction(q)
  \/ Reload

BoardSpec == BoardInit /\ [][BoardNext]_boardVars

-----------------------------------------------------------------------------
(***************************************************************************)
(* Positions are the dense sequence 0, 1, 2, ... among the columns, and    *)
(* among the cards of every column, whoever adds, moves and removes at     *)
(* once; except in a column a card left after it was read in another, and  *)
(* among columns of which one was added after they were read for an order. *)
(***************************************************************************)
PositionsAreDense ==
  /\ "columns" \notin ragged => {place[c] : c \in Live} = 0..(Cardinality(Live) - 1)
  /\ \A c \in Live \ ragged :
       {item[r].position : r \in InColumn(item, c)} = 0..(Cardinality(InColumn(item, c)) - 1)

(***************************************************************************)
(* A page with nothing under way shows the board as it is stored, also     *)
(* after failures and rollbacks: the client inserts at the index where     *)
(* the server does.  It may differ after changes by others, an answer that *)
(* was lost, two changes of its own at once, or a change of its own to a   *)
(* list whose positions are not dense: what ties there the page shows in   *)
(* one order, and the server may number in another.                        *)
(***************************************************************************)
PageShowsBoard == OursInFlight = {} /\ drift = {} => Shown(page)
=============================================================================

---------------------------- MODULE Repositories ----------------------------
(***************************************************************************)
(* The repositories of one namespace: rows of the database, the bare       *)
(* repositories on the disk that the rows point to by their storage key,   *)
(* and the redirects of former names.  A handler touches the two stores in *)
(* turn, and nothing locks a name or a row between its steps.  Requests    *)
(* are served again and again, and as many at once as there are.           *)
(***************************************************************************)
EXTENDS Handlers

CONSTANTS
  Repos,       \* ids: a row and the data in its bare repository
  Names,
  Suffixed(_)  \* the name with -fork after it

\* A fork's key is drawn at random: it is no name, and no other repository's.
ASSUME KeysAreApart ==
  /\ Names \cap Repos = {} /\ None \notin Names \cup Repos
  /\ "empty" \notin Repos \cup {None}
  /\ \A n \in Names : Suffixed(n) \in Names

VARIABLES
  repo,        \* Repo: name and storageKey, None without a row
  dir,         \* what is at a storage key: the data of a repository, an empty directory, or None
  redirect,    \* RepoRedirect of a name
  op,          \* the requests in progress
  mishaps,     \* bound
  ids,         \* ids that were used
  former,      \* history: which repository last gave a name up for another, in the code that redirects
  severed,     \* history: repositories that a request was cut short over, or could not put back
  crossed      \* history: a step got hold of a directory that is not its request's

repoVars == <<repo, dir, redirect, op, mishaps, ids, former, severed, crossed>>

\* <handle>/<name>.git, or a random key for a fork.
Keys == Names \cup Repos
HasRow == {r \in Repos : repo[r] # None}
KeyTaken(k) == \E r \in HasRow : repo[r].key = k
NameTaken(n) == \E r \in HasRow : repo[r].name = n
Resting == [pc |-> "new", repo |-> None, old |-> None, key |-> None, name |-> None, legacy |-> FALSE]
Busy == {q \in Clients : op[q] # Resting}

ReposTypeOK ==
  /\ repo \in [Repos -> [name: Names, key: Keys] \cup {None}]
  /\ dir \in [Keys -> Repos \cup {"empty", None}]
  /\ redirect \in [Names -> Repos \cup {None}]
  /\ op \in [Clients -> [pc: {"new", "claim", "init", "insert", "undo", "clone", "insertFork", "access",
                               "move", "commit", "back", "drop", "rm"},
                          repo: Repos \cup {None}, old: Names \cup {None}, key: Keys \cup {None},
                          name: Names \cup {None}, legacy: BOOLEAN]]
  /\ mishaps \in 0..MaxFaults
  /\ ids \subseteq Repos /\ HasRow \subseteq ids /\ severed \subseteq ids /\ crossed \in BOOLEAN
  /\ former \in [Names -> Repos \cup {None}]

ReposInit ==
  /\ repo = [r \in Repos |-> None] /\ dir = [k \in Keys |-> None]
  /\ redirect = [n \in Names |-> None] /\ former = [n \in Names |-> None]
  /\ op = [q \in Clients |-> Resting]
  /\ mishaps = 0 /\ ids = {} /\ severed = {} /\ crossed = FALSE

Step(q, t) == op' = [op EXCEPT ![q] = t]
Next_pc(q, pc) == Step(q, [op[q] EXCEPT !.pc = pc])
Answered(q) == Step(q, Resting)
Mishap == mishaps < MaxFaults /\ mishaps' = mishaps + 1
Store == <<repo, redirect, former>>

-----------------------------------------------------------------------------
(***************************************************************************)
(* POST /repos                                                             *)
(***************************************************************************)
BeginCreate(q, n) ==
  /\ op[q].pc = "new" /\ ~KeyTaken(n)
  /\ \E r \in Repos \ ids : /\ ids' = ids \cup {r}
                            /\ Step(q, [Resting EXCEPT !.pc = "claim", !.repo = r, !.name = n, !.key = n])
  /\ UNCHANGED <<Store, dir, mishaps, severed, crossed>>

\* mutant: git init reinitialises what is there, and the roll-back removes it
ClaimAny(q) == LET k == op[q].key IN
  /\ op[q].pc = "claim"
  /\ Next_pc(q, "init") /\ dir' = [dir EXCEPT ![k] = IF @ = None THEN "empty" ELSE @]
  /\ UNCHANGED <<Store, mishaps, ids, severed, crossed>>

\* createBareRepo: mkdir is the claim, and refuses a path that is taken.
Claim(q) == LET k == op[q].key IN
  /\ op[q].pc = "claim"
  /\ IF dir[k] = None THEN Next_pc(q, "init") /\ dir' = [dir EXCEPT ![k] = "empty"]
     ELSE Answered(q) /\ UNCHANGED dir
  /\ UNCHANGED <<Store, mishaps, ids, severed, crossed>>

RemoveBareRepo(k) == dir' = [dir EXCEPT ![k] = None]

\* git init keeps what it finds; when it fails, the directory goes.
GitInit(q) == LET k == op[q].key IN
  /\ op[q].pc = "init"
  /\ \/ /\ Next_pc(q, "insert")
        /\ dir' = [dir EXCEPT ![k] = IF @ \in {"empty", None} THEN op[q].repo ELSE @]
        /\ UNCHANGED mishaps
     \/ Mishap /\ Answered(q) /\ RemoveBareRepo(k)
  /\ UNCHANGED <<Store, ids, severed, crossed>>

\* storageKey is unique; whatever goes wrong is rolled back.
InsertRow(q) == LET t == op[q] IN
  /\ t.pc \in {"insert", "insertFork"}
  /\ \/ /\ ~KeyTaken(t.key) /\ Answered(q)
        /\ repo' = [repo EXCEPT ![t.repo] = [name |-> t.name, key |-> t.key]]
        /\ former' = [former EXCEPT ![t.name] = None]
        /\ UNCHANGED mishaps
     \/ KeyTaken(t.key) /\ Next_pc(q, "undo") /\ UNCHANGED <<repo, mishaps, former>>
     \/ Mishap /\ Next_pc(q, "undo") /\ UNCHANGED <<repo, former>>
  /\ UNCHANGED <<dir, redirect, ids, severed, crossed>>

Undo(q) ==
  /\ op[q].pc = "undo"
  /\ RemoveBareRepo(op[q].key) /\ Answered(q)
  /\ UNCHANGED <<Store, mishaps, ids, severed, crossed>>

-----------------------------------------------------------------------------
(***************************************************************************)
(* POST .../fork, of a repository n of another namespace                   *)
(***************************************************************************)
\* Only the first name is looked for.
BeginFork(q, n) ==
  /\ op[q].pc = "new"
  /\ \E r \in Repos \ ids :
       /\ ids' = ids \cup {r}
       /\ Step(q, [Resting EXCEPT !.pc = "clone", !.repo = r, !.key = r,
                                  !.name = IF NameTaken(n) THEN Suffixed(n) ELSE n])
  /\ UNCHANGED <<Store, dir, mishaps, severed, crossed>>

CloneMirror(q) ==
  /\ op[q].pc = "clone"
  /\ dir' = [dir EXCEPT ![op[q].key] = op[q].repo] /\ Next_pc(q, "insertFork")
  /\ UNCHANGED <<Store, mishaps, ids, severed, crossed>>

-----------------------------------------------------------------------------
(***************************************************************************)
(* Renaming: .../rename, and the older route                               *)
(***************************************************************************)
\* The row as it is now, and for the newer route the test of the name.
BeginRename(q, r, n, legacy) ==
  /\ op[q].pc = "new" /\ r \in HasRow /\ repo[r].name # n
  /\ legacy \/ ~NameTaken(n)
  /\ Step(q, [pc |-> "access", repo |-> r, old |-> repo[r].name, key |-> repo[r].key,
              name |-> n, legacy |-> legacy])
  /\ UNCHANGED <<Store, dir, mishaps, ids, severed, crossed>>

\* moveBareRepo looks first, and then moves.
Access(q) ==
  /\ op[q].pc = "access"
  /\ IF dir[op[q].name] # None THEN Answered(q) ELSE Next_pc(q, "move")
  /\ UNCHANGED <<Store, dir, mishaps, ids, severed, crossed>>

Swap(from, to) == dir' = [dir EXCEPT ![to] = dir[from], ![from] = None]

\* rename(2) fails on a source that is gone and on a full target, and replaces an empty one.
Move(q) == LET t == op[q] IN
  /\ t.pc = "move"
  /\ IF dir[t.key] = None \/ dir[t.name] \notin {None, "empty"}
     THEN Answered(q) /\ UNCHANGED <<dir, crossed>>
     ELSE /\ Next_pc(q, "commit") /\ Swap(t.key, t.name)
          /\ crossed' = (\/ crossed \/ dir[t.key] # t.repo \/ dir[t.name] = "empty"
                         \/ \E p \in Busy \ {q} : op[p].repo = t.repo /\ op[p].pc \in {"commit", "back"})
  /\ UNCHANGED <<Store, mishaps, ids, severed>>

\* mutant: a redirect of the old name that is there is left as it is
LeavesOld(t, r) == [redirect EXCEPT ![t.name] = None, ![t.old] = IF @ = None THEN r ELSE @]
Redirects(t, r) == [redirect EXCEPT ![t.name] = None, ![t.old] = r]

\* The row and the redirects in one transaction; without redirects in the older route.
Commit(q) == LET t == op[q]  r == op[q].repo
                 fits == r \in HasRow /\ \A other \in HasRow \ {r} : repo[other].key # t.name IN
  /\ t.pc = "commit"
  /\ \/ /\ fits /\ Answered(q)
        /\ repo' = [repo EXCEPT ![r] = [name |-> t.name, key |-> t.name]]
        /\ redirect' = IF t.legacy THEN redirect ELSE Redirects(t, r)
        /\ former' = [former EXCEPT ![t.name] = None, ![t.old] = IF t.legacy THEN None ELSE r]
        /\ UNCHANGED mishaps
     \/ ~fits /\ Next_pc(q, "back") /\ UNCHANGED <<Store, mishaps>>
     \/ Mishap /\ Next_pc(q, "back") /\ UNCHANGED Store
  /\ UNCHANGED <<dir, ids, severed, crossed>>

\* The directory goes back, unless its old place is taken.
MoveBack(q) == LET t == op[q] IN
  /\ t.pc = "back" /\ Answered(q)
  /\ IF dir[t.key] # None \/ dir[t.name] = None
     THEN UNCHANGED <<dir, crossed>> /\ severed' = severed \cup {t.repo}
     ELSE /\ Swap(t.name, t.key) /\ UNCHANGED severed
          /\ crossed' = (crossed \/ dir[t.name] # t.repo)
  /\ UNCHANGED <<Store, mishaps, ids>>

-----------------------------------------------------------------------------
(***************************************************************************)
(* DELETE, by the key that was read before the row went                    *)
(***************************************************************************)
BeginDeleteRepo(q, r) ==
  /\ op[q].pc = "new" /\ r \in HasRow
  /\ Step(q, [Resting EXCEPT !.pc = "drop", !.repo = r, !.key = repo[r].key])
  /\ UNCHANGED <<Store, dir, mishaps, ids, severed, crossed>>

\* Its redirects go with the row.
DropRow(q) == LET r == op[q].repo IN
  /\ op[q].pc = "drop"
  /\ IF r \notin HasRow THEN Answered(q) /\ UNCHANGED Store
     ELSE /\ Next_pc(q, "rm")
          /\ repo' = [repo EXCEPT ![r] = None]
          /\ redirect' = [n \in Names |-> IF redirect[n] = r THEN None ELSE redirect[n]]
          /\ former' = [n \in Names |-> IF former[n] = r THEN None ELSE former[n]]
  /\ UNCHANGED <<dir, mishaps, ids, severed, crossed>>

RemoveStorage(q) == LET k == op[q].key IN
  /\ op[q].pc = "rm"
  /\ RemoveBareRepo(k) /\ Answered(q)
  /\ crossed' = (crossed \/ dir[k] \notin {op[q].repo, None})
  /\ UNCHANGED <<Store, mishaps, ids, severed>>

CutShort(q) ==
  /\ q \in Busy /\ Mishap /\ Answered(q)
  /\ severed' = severed \cup {op[q].repo}
  /\ UNCHANGED <<Store, dir, ids, crossed>>

ReposNext == \E q \in Clients :
  \/ \E n \in Names : BeginCreate(q, n) \/ BeginFork(q, n)
                      \/ \E r \in Repos : \E legacy \in BOOLEAN : BeginRename(q, r, n, legacy)
  \/ \E r \in Repos : BeginDeleteRepo(q, r)
  \/ Claim(q) \/ GitInit(q) \/ InsertRow(q) \/ Undo(q) \/ CloneMirror(q)
  \/ Access(q) \/ Move(q) \/ Commit(q) \/ MoveBack(q)
  \/ DropRow(q) \/ RemoveStorage(q) \/ CutShort(q)

ReposSpec == ReposInit /\ [][ReposNext]_repoVars

-----------------------------------------------------------------------------
(***************************************************************************)
(* Once nothing is in progress, every repository has its own data at its   *)
(* key, through any overlap of creations, forks, renames and deletions and *)
(* through rolled back ones.  The exceptions: a move or a removal that got *)
(* hold of a directory that was not its request's, two renames of one      *)
(* repository at once, and a request that was cut short.                   *)
(***************************************************************************)
RowsHaveTheirStorage ==
  (Busy = {} /\ ~crossed) => \A r \in HasRow \ severed : dir[repo[r].key] = r

(***************************************************************************)
(* A name that a repository gave up leads to it until another takes it.    *)
(***************************************************************************)
OldNamesLeadOn == \A n \in Names : former[n] # None => redirect[n] = former[n]
=============================================================================

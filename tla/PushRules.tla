----------------------------- MODULE PushRules ------------------------------
(***************************************************************************)
(* Branch and tag protection on the git transports.  The rules are rows of *)
(* the database; the pre-receive hook cannot read it, so every push, and   *)
(* every change of a rule, copies them to two files that all pushes share: *)
(* one with the protected branches, one with the protected tags.  A copy   *)
(* is read, then the file is truncated, then it is written, and copies may *)
(* overlap.  Server-side writes ask the database and skip the hook.        *)
(* A tag pattern is represented by the tags it matches.                    *)
(***************************************************************************)
EXTENDS Handlers, FiniteSets

CONSTANTS
  Branches, Tags, DefaultBranch,
  Settings,    \* the settings of a rule that are tried
  Pushed       \* the pushes that are tried: each a set of updates, one per ref

Refs == Branches \cup Tags
Flags == {"listed", "pr", "force"}    \* of a row: it exists, requirePullRequest, blockForcePush
Rules == {f \in SUBSET Flags : f # {} => "listed" \in f}
Updates == [ref: Refs, change: {"create", "forward", "rewrite", "delete"}]

ASSUME RefsAreApart == Branches \cap Tags = {} /\ DefaultBranch \in Branches
ASSUME SettingsAreRules == Settings \subseteq Rules
ASSUME PushesUpdateRefs == Pushed \subseteq SUBSET Updates
ASSUME NoneIsNoRequest == None \notin Requests /\ None \notin {"push", "rule", "write"}

VARIABLES
  rules,     \* ProtectedBranch and ProtectedTag rows: the flags of each ref, {} without a row
  listed,    \* the two rules files: the flags they give each ref
  exists,    \* the refs of the repository
  call,      \* the requests in progress
  slips,     \* bound: copies that fail
  author     \* history: whose copy each file holds, None after a copy that failed half way

rulesVars == <<rules, listed, exists, call, slips, author>>

Files == {"branches", "tags"}
In(f) == IF f = "branches" THEN Branches ELSE Tags
FileOf(r) == IF r \in Branches THEN "branches" ELSE "tags"
NoRules == [r \in Refs |-> {}]

Unserved == [pc |-> "new", kind |-> None, file |-> "branches", rows |-> NoRules,
             open |-> FALSE, updates |-> {}, stood |-> NoRules]
Served(how) == [Unserved EXCEPT !.pc = how]
Serving == {q \in Requests : call[q].pc \notin {"new", "landed", "done"}}

RulesTypeOK ==
  /\ rules \in [Refs -> Rules] /\ listed \in [Refs -> Rules]
  /\ exists \subseteq Refs
  /\ call \in [Requests -> [pc: {"new", "read", "open", "write", "receive", "act", "landed", "done"},
                            kind: {None, "push", "rule", "write"}, file: Files,
                            rows: [Refs -> Rules], open: BOOLEAN,
                            updates: SUBSET Updates, stood: [Refs -> Rules]]]
  /\ slips \in 0..MaxFaults
  /\ author \in [Files -> Requests \cup {None}]
  \* A request has a file open only while it writes, and holds the rows of that file only.
  /\ \A q \in Requests : /\ call[q].open => call[q].pc = "write"
                         /\ \A r \in Refs : call[q].rows[r] # {} =>
                              r \in In(call[q].file) /\ call[q].pc \in {"open", "write"}

RulesInit ==
  /\ rules = NoRules /\ listed = NoRules
  /\ exists = {DefaultBranch}
  /\ call = [q \in Requests |-> Unserved]
  /\ slips = 0
  /\ author = [f \in Files |-> None]

-----------------------------------------------------------------------------
(***************************************************************************)
(* Copying the rules to the files                                          *)
(***************************************************************************)
\* mutant: the file is left open
CopiedLeavesOpen(c) == IF c.kind = "rule" THEN Served("done")
                       ELSE [c EXCEPT !.pc = IF c.file = "branches" THEN "read" ELSE "receive",
                                      !.file = "tags", !.rows = NoRules]

\* A push copies both files and then receives; a change of a rule copies its own.
Copied(c) == IF c.kind = "rule" THEN Served("done")
             ELSE [c EXCEPT !.pc = IF c.file = "branches" THEN "read" ELSE "receive",
                            !.file = "tags", !.rows = NoRules, !.open = FALSE]

ReadRules(q) ==
  /\ call[q].pc = "read"
  /\ call' = [call EXCEPT ![q].pc = "open",
                          ![q].rows = [r \in Refs |-> IF r \in In(call[q].file) THEN rules[r] ELSE {}]]
  /\ UNCHANGED <<rules, listed, exists, slips, author>>

\* Best effort: a copy whose query fails is skipped.
ReadFails(q) ==
  /\ call[q].pc = "read" /\ slips < MaxFaults
  /\ call' = [call EXCEPT ![q] = Copied(@)]
  /\ slips' = slips + 1
  /\ UNCHANGED <<rules, listed, exists, author>>

Emptied(f) == [r \in Refs |-> IF r \in In(f) THEN {} ELSE listed[r]]

\* writeFile opens the file and truncates it.
Open(q) == LET f == call[q].file IN
  /\ call[q].pc = "open" /\ call[q].rows # NoRules
  /\ listed' = Emptied(f)
  /\ call' = [call EXCEPT ![q].pc = "write", ![q].open = TRUE]
  /\ author' = [author EXCEPT ![f] = None]
  /\ UNCHANGED <<rules, exists, slips>>

\* Without a row the file is removed: who has it open writes to no file at all.
RemoveFile(q) == LET f == call[q].file IN
  /\ call[q].pc = "open" /\ call[q].rows = NoRules
  /\ listed' = Emptied(f)
  /\ call' = [p \in Requests |->
                IF p = q THEN Copied(call[q])
                ELSE IF call[p].file = f THEN [call[p] EXCEPT !.open = FALSE] ELSE call[p]]
  /\ author' = [author EXCEPT ![f] = q]
  /\ UNCHANGED <<rules, exists, slips>>

\* Two copies that overlap: the end of the longer one stays behind the shorter one,
\* and of two rows for a branch the first counts.
Written(q, kept) == [r \in Refs |-> IF r \notin In(call[q].file) THEN listed[r]
                                    ELSE IF call[q].rows[r] # {} THEN call[q].rows[r]
                                    ELSE IF r \in kept THEN listed[r] ELSE {}]

Write(q) == LET f == call[q].file IN
  /\ call[q].pc = "write"
  /\ IF call[q].open
     THEN /\ \E kept \in SUBSET {r \in In(f) : listed[r] # {}} : listed' = Written(q, kept)
          /\ author' = [author EXCEPT ![f] = q]
     ELSE UNCHANGED <<listed, author>>
  /\ call' = [call EXCEPT ![q] = Copied(@)]
  /\ UNCHANGED <<rules, exists, slips>>

\* A full disk: the file stays empty, and the push goes on.
WriteFails(q) ==
  /\ call[q].pc = "write" /\ slips < MaxFaults
  /\ call' = [call EXCEPT ![q] = Copied(@)]
  /\ slips' = slips + 1
  /\ UNCHANGED <<rules, listed, exists, author>>

-----------------------------------------------------------------------------
(***************************************************************************)
(* Changing a rule                                                         *)
(***************************************************************************)
\* What every request in progress has seen stand since it began.
Standing(r, flags) == [q \in Requests |-> IF q \in Serving THEN [call[q].stood EXCEPT ![r] = @ \cap flags]
                                          ELSE call[q].stood]

\* PUT and DELETE of a branch's protection, POST and DELETE of a protected tag: the row, then the file.
SetRule(q, r, flags) ==
  /\ call[q].pc = "new"
  /\ r \in Tags => flags \subseteq {"listed"} /\ flags # rules[r]
  /\ rules' = [rules EXCEPT ![r] = flags]
  /\ call' = [p \in Requests |->
                IF p = q THEN [Unserved EXCEPT !.pc = "read", !.kind = "rule", !.file = FileOf(r)]
                ELSE [call[p] EXCEPT !.stood = Standing(r, flags)[p]]]
  /\ UNCHANGED <<listed, exists, slips, author>>

-----------------------------------------------------------------------------
(***************************************************************************)
(* Pushes, over HTTP or SSH                                                *)
(***************************************************************************)
Begin(q, updates) ==
  /\ call[q].pc = "new"
  /\ call' = [call EXCEPT ![q] = [Unserved EXCEPT !.pc = "read", !.kind = "push",
                                                  !.updates = updates, !.stood = rules]]
  /\ UNCHANGED <<rules, listed, exists, slips, author>>

\* mutant: a tag is guarded against deletion only
HookLetsTagsMove(flags, u) ==
  /\ "listed" \in flags
  /\ \/ u.change = "delete"
     \/ "pr" \in flags
     \/ "force" \in flags /\ u.change = "rewrite" /\ u.ref \in Branches

\* The hook, on the flags its file gives the ref.
HookRefuses(flags, u) ==
  /\ "listed" \in flags
  /\ IF u.ref \in Tags THEN u.change # "create"
     ELSE \/ u.change = "delete"
          \/ "pr" \in flags
          \/ "force" \in flags /\ u.change = "rewrite"

Possible(u) == (u.change = "create") <=> (u.ref \notin exists)
Result(updates) == (exists \cup {u.ref : u \in {v \in updates : v.change = "create"}})
                     \ {u.ref : u \in {v \in updates : v.change = "delete"}}

\* receive-pack: one refused ref refuses the whole push.
Receive(q) == LET updates == call[q].updates IN
  /\ call[q].pc = "receive"
  /\ IF /\ \A u \in updates : ~HookRefuses(listed[u.ref], u) /\ Possible(u)
     THEN call' = [call EXCEPT ![q] = Served("landed")] /\ exists' = Result(updates)
     ELSE call' = [call EXCEPT ![q] = Served("done")] /\ UNCHANGED exists
  /\ UNCHANGED <<rules, listed, slips, author>>

-----------------------------------------------------------------------------
(***************************************************************************)
(* Writes by the server, which ask the database                            *)
(***************************************************************************)
\* Editor commits and suggestions ask for requirePullRequest, deletions for a row,
\* creating a tag for a row when the tag exists.
ServerRefuses(flags, u) ==
  \/ u.ref \in Branches /\ u.change \in {"create", "forward"} /\ "pr" \in flags
  \/ u.change = "delete" /\ ("listed" \in flags \/ u.ref = DefaultBranch)
  \/ u.ref \in Tags /\ u.change = "create" /\ u.ref \in exists /\ "listed" \in flags

ServerWrite(q, u) ==
  /\ call[q].pc = "new"
  /\ u.change # "rewrite" /\ (u.ref \in Tags => u.change # "forward")
  /\ ~ServerRefuses(rules[u.ref], u)
  /\ call' = [call EXCEPT ![q] = [Unserved EXCEPT !.pc = "act", !.kind = "write",
                                                  !.updates = {u}, !.stood = rules]]
  /\ UNCHANGED <<rules, listed, exists, slips, author>>

Act(q) ==
  /\ call[q].pc = "act"
  /\ IF \A u \in call[q].updates : Possible(u)
     THEN call' = [call EXCEPT ![q] = Served("landed")] /\ exists' = Result(call[q].updates)
     ELSE call' = [call EXCEPT ![q] = Served("done")] /\ UNCHANGED exists
  /\ UNCHANGED <<rules, listed, slips, author>>

\* POST .../branches asks for no rule.
CreateBranch(b) ==
  /\ b \notin exists
  /\ exists' = exists \cup {b}
  /\ UNCHANGED <<rules, listed, call, slips, author>>

RulesNext ==
  \/ \E b \in Branches : CreateBranch(b)
  \/ \E q \in Requests :
       \/ ReadRules(q) \/ ReadFails(q) \/ Open(q) \/ RemoveFile(q) \/ Write(q) \/ WriteFails(q)
       \/ \E r \in Refs, flags \in Settings : SetRule(q, r, flags)
       \/ \E updates \in Pushed : Begin(q, updates)
       \/ Receive(q)
       \/ \E u \in Updates : ServerWrite(q, u)
       \/ Act(q)

RulesSpec == RulesInit /\ [][RulesNext]_rulesVars

-----------------------------------------------------------------------------
\* What a rule forbids, as the settings page and the hook's header say it.
Breaks(flags, u) ==
  \/ u.ref \in Branches /\ \/ "pr" \in flags
                           \/ "force" \in flags /\ u.change = "rewrite"
                           \/ "listed" \in flags /\ u.change = "delete"
  \/ u.ref \in Tags /\ "listed" \in flags /\ u.change # "create"

Lands(q) == call[q].pc # "landed" /\ call'[q].pc = "landed"

(***************************************************************************)
(* Nothing lands on a branch or a tag against a rule that stood in the     *)
(* database from the beginning of the request until it lands.  The one     *)
(* exception: between a push's own copy of the rules and its hook, another *)
(* request truncated or rewrote the shared file (or the copy had failed).  *)
(***************************************************************************)
StandingRuleHolds == [][
  \A q \in Requests : Lands(q) =>
    \A u \in call[q].updates : Breaks(call[q].stood[u.ref], u) =>
      call[q].kind = "push" /\ author[FileOf(u.ref)] # q]_rulesVars
=============================================================================

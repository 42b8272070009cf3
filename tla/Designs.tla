------------------------------ MODULE Designs ------------------------------
(***************************************************************************)
(* One design of one issue: its versions in the database, and the files    *)
(* their bytes are stored in, under the id of the design and the number of *)
(* the version.  An upload takes its number first and records it last.     *)
(***************************************************************************)
EXTENDS Handlers, FiniteSets

\* Every request takes one number at most, so that there are enough of them.
ASSUME RequestsAreFinite == IsFiniteSet(Requests)
ASSUME NoneIsNoRow ==
  None \notin Requests \cup [id: Requests, current: Nat] \cup [inode: Requests, bytes: SUBSET Requests]

VARIABLES
  design,      \* Design of the name, [id, current]; its id is the request that made it
  versions,    \* DesignVersion rows
  files,       \* by storage key: the inode, and the requests with bytes in it
  upload,      \* requests: what the handler knows
  faults,      \* bound
  spoiled,     \* history: keys opened a second time, or files of a design being deleted
  adrift       \* history: designs with a version recorded but not made the current one

designVars == <<design, versions, files, upload, faults, spoiled, adrift>>

Numbers == 1..Cardinality(Requests)
StorageKeys == Requests \X Numbers
NotStarted == [pc |-> "new", design |-> None, version |-> 0, fresh |-> FALSE, inode |-> None]
Uploading == {q \in Requests : upload[q].pc \in {"make", "open", "write", "record", "current"}}
KeyOf(q) == <<upload[q].design, upload[q].version>>

DesignsTypeOK ==
  /\ design = None \/ (design.id \in Requests /\ design.current \in 0..Cardinality(Requests))
  /\ versions \subseteq [design: Requests, version: Numbers, by: Requests]
  /\ \A v, w \in versions : v.design = w.design /\ v.version = w.version => v = w
  /\ \A v \in versions : design # None /\ v.design = design.id
  /\ \A k \in StorageKeys : files[k] = None \/ (files[k].inode \in Requests /\ files[k].bytes \subseteq Requests)
  /\ \A q \in Requests :
       upload[q].pc \in {"new", "make", "open", "write", "record", "current", "unlink", "erase", "done"}
  /\ faults \in 0..MaxFaults /\ spoiled \subseteq StorageKeys /\ adrift \subseteq Requests

DesignsInit ==
  /\ design = None /\ versions = {} /\ files = [k \in StorageKeys |-> None]
  /\ upload = [q \in Requests |-> NotStarted]
  /\ faults = 0 /\ spoiled = {} /\ adrift = {}

Proceeds(q, u) == upload' = [upload EXCEPT ![q] = u]
Gives(q) == Proceeds(q, [NotStarted EXCEPT !.pc = "done"])
Fault == faults < MaxFaults /\ faults' = faults + 1
IsTaken(k, q) ==
  \/ \E p \in Requests \ {q} : upload[p].pc \in {"write", "record", "current"} /\ KeyOf(p) = k
  \/ \E v \in versions : <<v.design, v.version>> = k
IsThere(id) == design # None /\ design.id = id
Unlink(keys) == files' = [k \in StorageKeys |-> IF k \in keys THEN None ELSE files[k]]
\* mutant: no cascade to the versions
EraseRowOnly(id) == design' = (IF IsThere(id) THEN None ELSE design) /\ UNCHANGED versions
EraseDesign(id) ==
  /\ design' = IF IsThere(id) THEN None ELSE design
  /\ versions' = {v \in versions : v.design # id}

-----------------------------------------------------------------------------
(***************************************************************************)
(* Uploading                                                               *)
(***************************************************************************)
FindDesign(q) ==
  /\ upload[q].pc = "new"
  /\ Proceeds(q, IF design = None THEN [NotStarted EXCEPT !.pc = "make"]
                 ELSE [NotStarted EXCEPT !.pc = "open", !.design = design.id, !.version = design.current + 1])
  /\ UNCHANGED <<design, versions, files, faults, spoiled, adrift>>

\* The name is unique on the issue: the second of two that found none fails.
MakeDesign(q) ==
  /\ upload[q].pc = "make"
  /\ IF design # None THEN Gives(q) /\ UNCHANGED design
     ELSE /\ design' = [id |-> q, current |-> 0]
          /\ Proceeds(q, [NotStarted EXCEPT !.pc = "open", !.design = q, !.version = 1, !.fresh = TRUE])
  /\ UNCHANGED <<versions, files, faults, spoiled, adrift>>

\* createWriteStream: a file that is there is emptied.
OpenFile(q) == LET k == KeyOf(q)  inode == IF files[k] = None THEN q ELSE files[k].inode IN
  /\ upload[q].pc = "open"
  /\ files' = [files EXCEPT ![k] = [inode |-> inode, bytes |-> {q}]]
  /\ Proceeds(q, [upload[q] EXCEPT !.pc = "write", !.inode = inode])
  /\ spoiled' = IF IsTaken(k, q) THEN spoiled \cup {k} ELSE spoiled
  /\ UNCHANGED <<design, versions, faults, adrift>>

\* The stream broke or hit the limit: the file goes, and a design made for it.
AbortUpload(q) ==
  /\ Unlink({KeyOf(q)})
  /\ IF upload[q].fresh THEN EraseDesign(upload[q].design) ELSE UNCHANGED <<design, versions>>
  /\ Gives(q)

\* mutant: what was cut at the size limit is kept
CutIsKept(q) == LET k == KeyOf(q) IN
  /\ upload[q].pc = "write"
  /\ files[k] # None
  /\ \/ UNCHANGED <<files, faults>>
     \/ Fault /\ files' = [files EXCEPT ![k].bytes = @ \ {q}]
  /\ Proceeds(q, [upload[q] EXCEPT !.pc = "record"])
  /\ UNCHANGED <<design, versions, spoiled, adrift>>

\* The bytes are on disk, in the inode that was opened; then the size is asked of the path.
FinishFile(q) == LET k == KeyOf(q) IN
  /\ upload[q].pc = "write"
  /\ \/ /\ files[k] # None
        /\ files' = [files EXCEPT ![k].bytes = IF files[k].inode = upload[q].inode THEN @ \cup {q} ELSE @]
        /\ Proceeds(q, [upload[q] EXCEPT !.pc = "record"])
        /\ UNCHANGED <<design, versions, faults>>
     \/ files[k] = None /\ AbortUpload(q) /\ UNCHANGED faults
     \/ Fault /\ AbortUpload(q)
  /\ UNCHANGED <<spoiled, adrift>>

\* The number is unique in the design: whoever comes second removes the file.
RecordVersion(q) == LET u == upload[q] IN
  /\ u.pc = "record"
  /\ IF IsThere(u.design) /\ ~\E v \in versions : v.design = u.design /\ v.version = u.version
     THEN /\ versions' = versions \cup {[design |-> u.design, version |-> u.version, by |-> q]}
          /\ Proceeds(q, [u EXCEPT !.pc = "current"])
          /\ UNCHANGED files
     ELSE Unlink({KeyOf(q)}) /\ Gives(q) /\ UNCHANGED versions
  /\ UNCHANGED <<design, faults, spoiled, adrift>>

MakeCurrent(q) == LET u == upload[q] IN
  /\ u.pc = "current" /\ Gives(q)
  /\ design' = IF IsThere(u.design) THEN [design EXCEPT !.current = u.version] ELSE design
  /\ UNCHANGED <<versions, files, faults, spoiled, adrift>>

-----------------------------------------------------------------------------
(***************************************************************************)
(* Deleting, and the end of the process                                    *)
(***************************************************************************)
FindToDelete(q) ==
  /\ upload[q].pc = "new" /\ design # None
  /\ Proceeds(q, [NotStarted EXCEPT !.pc = "unlink", !.design = design.id, !.version = Cardinality(versions)])
  /\ UNCHANGED <<design, versions, files, faults, spoiled, adrift>>

\* The files of the versions that were read, each if it can be removed.
UnlinkVersions(q) == LET keys == {upload[q].design} \X (1..upload[q].version) IN
  /\ upload[q].pc = "unlink"
  /\ \/ Unlink(keys) /\ UNCHANGED faults
     \/ Fault /\ UNCHANGED files
  /\ Proceeds(q, [upload[q] EXCEPT !.pc = "erase"])
  /\ spoiled' = spoiled \cup keys
  /\ UNCHANGED <<design, versions, adrift>>

EraseRows(q) ==
  /\ upload[q].pc = "erase" /\ Gives(q)
  /\ EraseDesign(upload[q].design)
  /\ UNCHANGED <<files, faults, spoiled, adrift>>

RestartUploads ==
  /\ Fault
  /\ \E q \in Requests : upload[q].pc \notin {"new", "done"}
  /\ adrift' = adrift \cup {upload[q].design : q \in {p \in Requests : upload[p].pc = "current"}}
  /\ upload' = [q \in Requests |-> IF upload[q].pc = "new" THEN NotStarted ELSE [NotStarted EXCEPT !.pc = "done"]]
  /\ UNCHANGED <<design, versions, files, spoiled>>

DesignsNext ==
  \/ \E q \in Requests :
       \/ FindDesign(q) \/ MakeDesign(q) \/ OpenFile(q) \/ FinishFile(q) \/ RecordVersion(q) \/ MakeCurrent(q)
       \/ FindToDelete(q) \/ UnlinkVersions(q) \/ EraseRows(q)
  \/ RestartUploads

DesignsSpec == DesignsInit /\ [][DesignsNext]_designVars

-----------------------------------------------------------------------------
StoredWhole(v) == LET f == files[<<v.design, v.version>>] IN f # None /\ f.bytes = {v.by}

(***************************************************************************)
(* A version that is recorded has its file, with its uploader's bytes and  *)
(* no others, and the numbers run from one to the current version, whoever *)
(* uploads, fails, deletes or restarts; unless two uploads took one number *)
(* or the design is being deleted, and unless the process ended before the *)
(* version was made the current one.                                       *)
(***************************************************************************)
VersionsAreWhole ==
  /\ \A v \in versions : <<v.design, v.version>> \notin spoiled => StoredWhole(v)
  /\ design # None /\ Uploading = {} /\ design.id \notin adrift =>
       {v.version : v \in versions} = 1..design.current
=============================================================================

---------------------------- MODULE AccessProofs ----------------------------
(***************************************************************************)
(* What decides where a name leads, who may do what there and which pushes *)
(* land, for all users, repositories, names and rules and any number of    *)
(* requests served at once: each component by itself, and the system of    *)
(* the three.                                                              *)
(***************************************************************************)
EXTENDS MCAccess, TLAPS

-----------------------------------------------------------------------------
(***************************************************************************)
(* Membership, the team and subscriptions (Orgs)                           *)
(***************************************************************************)
Turn == [pc: {"new", "setRole", "change", "remove", "team", "watch", "prune", "unwatch"},
         user: Users \cup {None}, role: OrgRoles \cup {None}, owners: SUBSET Users]

\* What a request that stands before its write has read.
WellRead(t) ==
  /\ t.pc # "new" => t.user \in Users
  /\ t.pc \in {"setRole", "change"} => t.role \in OrgRoles
  /\ t.pc = "remove" => t.role = None
  \* The guard of the last owner: another was left.
  /\ t.pc \in {"change", "remove"} /\ t.role # "OWNER" => \E o \in t.owners : o # t.user
Reading == \A k \in Clients : WellRead(job[k])

Rows ==
  /\ member \in [Users -> OrgRoles \cup {None}] /\ onTeam \subseteq Users
  /\ grant \in Granted \cup {None} /\ collab \in [Users -> Granted \cup {None}]
  /\ watching \subseteq Users /\ public \in BOOLEAN
  /\ stale \in BOOLEAN /\ late \subseteq Users /\ kept \subseteq Users

Jobs == job \in [Clients -> Turn]

Pruning(u) == \E k \in Clients : job[k].pc \in {"prune", "unwatch"} /\ job[k].user = u
\* A subscription without access is about to be looked at.
Watched == \A u \in watching \ kept : CanRead(u) \/ Pruning(u)

OrgInv ==
  /\ OrgTypeOK /\ Reading
  /\ MembershipHolds /\ Watched

LEMMA TypeInParts == OrgTypeOK <=> Rows /\ Jobs /\ troubles \in 0..MaxFaults
  BY DEF OrgTypeOK, Rows, Jobs, Turn

LEMMA ReadyIsTurn == Ready \in Turn /\ WellRead(Ready)
  BY DEF Ready, Turn, WellRead

LEMMA OrgInvInit == OrgInit => OrgInv
  <1> SUFFICES ASSUME OrgInit PROVE OrgInv
    OBVIOUS
  <1> USE CreatorIsUser, NoneIsNoRole, FaultBound DEF OrgInit
  <1>1. OrgTypeOK
    <2>1. Rows
      BY DEF Rows, OrgRoles
    <2>2. Jobs
      BY ReadyIsTurn DEF Jobs
    <2> QED
      BY <2>1, <2>2, TypeInParts
  <1>2. Reading
    BY ReadyIsTurn DEF Reading
  <1>3. Creator \in Owners
    BY DEF Owners
  <1>4. MembershipHolds
    BY <1>3 DEF MembershipHolds, OwnerUnlessStale, TeamWithinOrg
  <1>5. Watched
    BY DEF Watched, CanRead, CanWrite, CanAdmin
  <1> QED
    BY <1>1, <1>2, <1>4, <1>5 DEF OrgInv

-----------------------------------------------------------------------------
(***************************************************************************)
(* What requests stand before, and the types of the rows                   *)
(***************************************************************************)
LEMMA TurnsKeeps ==
  ASSUME Jobs, Reading, NEW k \in Clients, NEW t, t \in Turn, WellRead(t), Turns(k, t)
  PROVE  Jobs' /\ Reading'
  BY DEF Jobs, Reading, Turns, WellRead

LEMMA EndsKeeps ==
  ASSUME Jobs, Reading, NEW k \in Clients, Ends(k)
  PROVE  Jobs' /\ Reading'
  BY TurnsKeeps, ReadyIsTurn DEF Ends

\* The four handlers that read the memberships first.
LEMMA LoadKeeps ==
  ASSUME OrgInv, NEW k \in Clients, NEW u \in Users,
         (\E r \in OrgRoles : LoadAdd(k, u, r) \/ LoadChange(k, u, r)) \/ LoadRemove(k, u) \/ LoadTeamAdd(k, u)
  PROVE  /\ Jobs' /\ Reading'
         /\ UNCHANGED <<member, onTeam, grant, collab, watching, public, troubles, stale, late, kept>>
         /\ job[k].pc = "new" /\ \E t : Turns(k, t)
  <1>1. Jobs /\ Reading /\ Owners \subseteq Users
    BY TypeInParts DEF OrgInv, Owners
  <1>2. ASSUME NEW r \in OrgRoles, LoadAdd(k, u, r) PROVE Jobs' /\ Reading'
    <2> DEFINE t == [pc |-> "setRole", user |-> u, role |-> r, owners |-> {}]
    <2>1. t \in Turn /\ WellRead(t)
      BY DEF Turn, WellRead
    <2>2. Turns(k, t)
      BY <1>2 DEF LoadAdd, Loads
    <2> HIDE DEF t
    <2> QED
      BY <1>1, <2>1, <2>2, TurnsKeeps
  <1>3. ASSUME NEW r \in OrgRoles, LoadChange(k, u, r) PROVE Jobs' /\ Reading'
    <2> DEFINE t == [pc |-> "change", user |-> u, role |-> r, owners |-> Owners]
    <2>1. Owners # {} /\ ~LastOwner(u, r) /\ Turns(k, t)
      BY <1>3 DEF LoadChange, Loads
    <2>2. r # "OWNER" => \E o \in Owners : o # u
      BY <2>1 DEF LastOwner
    <2>3. t \in Turn /\ WellRead(t)
      BY <1>1, <2>2 DEF Turn, WellRead
    <2> HIDE DEF t
    <2> QED
      BY <1>1, <2>1, <2>3, TurnsKeeps
  <1>4. ASSUME LoadRemove(k, u) PROVE Jobs' /\ Reading'
    <2> DEFINE t == [pc |-> "remove", user |-> u, role |-> None, owners |-> Owners]
    <2>1. Owners # {} /\ ~LastOwner(u, None) /\ Turns(k, t)
      BY <1>4 DEF LoadRemove, Loads
    <2>2. \E o \in Owners : o # u
      BY <2>1, NoneIsNoRole DEF LastOwner
    <2>3. t \in Turn /\ WellRead(t)
      BY <1>1, <2>2 DEF Turn, WellRead
    <2> HIDE DEF t
    <2> QED
      BY <1>1, <2>1, <2>3, TurnsKeeps
  <1>5. ASSUME LoadTeamAdd(k, u) PROVE Jobs' /\ Reading'
    <2> DEFINE t == [pc |-> "team", user |-> u, role |-> None, owners |-> {}]
    <2>1. t \in Turn /\ WellRead(t)
      BY DEF Turn, WellRead
    <2>2. Turns(k, t)
      BY <1>5 DEF LoadTeamAdd, Loads
    <2> HIDE DEF t
    <2> QED
      BY <1>1, <2>1, <2>2, TurnsKeeps
  <1>6. \E pc, r : Loads(k, pc, u, r)
    BY DEF LoadAdd, LoadChange, LoadRemove, LoadTeamAdd
  <1>7. /\ UNCHANGED <<member, onTeam, grant, collab, watching, public, troubles, stale, late, kept>>
        /\ job[k].pc = "new" /\ \E t : Turns(k, t)
    BY <1>6 DEF Loads
  <1> QED
    BY <1>2, <1>3, <1>4, <1>5, <1>7

LEMMA FollowUpIsTurn ==
  ASSUME NEW u \in Users, NEW pc \in {"watch", "prune", "unwatch"}
  PROVE  [Ready EXCEPT !.pc = pc, !.user = u] \in Turn /\ WellRead([Ready EXCEPT !.pc = pc, !.user = u])
  BY DEF Ready, Turn, WellRead

LEMMA JobsStep == OrgInv /\ [OrgNext]_orgVars => Jobs' /\ Reading'
  <1> SUFFICES ASSUME OrgInv, [OrgNext]_orgVars PROVE Jobs' /\ Reading'
    OBVIOUS
  <1>1. Jobs /\ Reading
    BY TypeInParts DEF OrgInv
  <1>2. ASSUME NEW k \in Clients, NEW u \in Users,
               (\E r \in OrgRoles : LoadAdd(k, u, r) \/ LoadChange(k, u, r)) \/ LoadRemove(k, u) \/ LoadTeamAdd(k, u)
        PROVE  Jobs' /\ Reading'
    BY <1>2, LoadKeeps
  <1>3. ASSUME NEW k \in Clients,
               AddMember(k) \/ ChangeRole(k) \/ RemoveMember(k) \/ AddToTeam(k) \/ Watch(k) \/ Unwatch(k)
        PROVE  Jobs' /\ Reading'
    <2>1. Ends(k)
      BY <1>3 DEF AddMember, ChangeRole, RemoveMember, AddToTeam, Watch, Unwatch
    <2> QED
      BY <1>1, <2>1, EndsKeeps
  <1>4. ASSUME NEW k \in Clients, Prune(k) PROVE Jobs' /\ Reading'
    <2>1. CASE Ends(k)
      BY <1>1, <2>1, EndsKeeps
    <2>2. CASE Turns(k, [job[k] EXCEPT !.pc = "unwatch"])
      <3> DEFINE t == [job[k] EXCEPT !.pc = "unwatch"]
      <3>1. job[k] \in Turn /\ WellRead(job[k]) /\ job[k].pc = "prune"
        BY <1>1, <1>4 DEF Jobs, Reading, Prune
      <3>2. t \in Turn /\ WellRead(t)
        BY <3>1 DEF Turn, WellRead
      <3>3. Turns(k, t)
        BY <2>2
      <3> HIDE DEF t
      <3> QED
        BY <1>1, <3>2, <3>3, TurnsKeeps
    <2> QED
      BY <1>4, <2>1, <2>2 DEF Prune
  <1>5. ASSUME NEW k \in Clients, NEW u \in Users,
               RemoveCollaborator(k, u) \/ \E role \in Granted : AddCollaborator(k, u, role)
        PROVE  Jobs' /\ Reading'
    <2>1. PICK pc \in {"watch", "prune"} : Turns(k, [Ready EXCEPT !.pc = pc, !.user = u])
      BY <1>5 DEF RemoveCollaborator, AddCollaborator
    <2> DEFINE t == [Ready EXCEPT !.pc = pc, !.user = u]
    <2>2. t \in Turn /\ WellRead(t)
      BY FollowUpIsTurn
    <2>3. Turns(k, t)
      BY <2>1
    <2> HIDE DEF t
    <2> QED
      BY <1>1, <2>2, <2>3, TurnsKeeps
  <1>6. CASE DeleteTeam
    <2>1. job' = [k \in Clients |-> IF job[k].pc = "team" THEN Ready ELSE job[k]]
      BY <1>6 DEF DeleteTeam
    <2>2. Jobs'
      BY <1>1, <2>1, ReadyIsTurn DEF Jobs
    <2>3. \A k \in Clients : WellRead(job[k])'
      <3> SUFFICES ASSUME NEW k \in Clients PROVE WellRead(job'[k])
        BY DEF WellRead
      <3>1. job'[k] = Ready \/ job'[k] = job[k]
        BY <2>1
      <3>2. WellRead(job[k])
        BY <1>1 DEF Reading
      <3> QED
        BY <3>1, <3>2, ReadyIsTurn
    <2> QED
      BY <2>2, <2>3 DEF Reading
  <1>7. CASE UNCHANGED job
    BY <1>1, <1>7 DEF Jobs, Reading, WellRead
  <1>8. ASSUME (\E u \in Users : LeaveTeam(u)) \/ (\E role \in Granted \cup {None} : SetGrant(role))
               \/ SetVisibility \/ UNCHANGED orgVars
        PROVE  UNCHANGED job
    BY <1>8 DEF LeaveTeam, SetGrant, SetVisibility, orgVars
  <1> QED
    BY <1>2, <1>3, <1>4, <1>5, <1>6, <1>7, <1>8 DEF OrgNext

LEMMA RowsStep == OrgInv /\ [OrgNext]_orgVars => Rows' /\ troubles' \in 0..MaxFaults
  <1> SUFFICES ASSUME OrgInv, [OrgNext]_orgVars PROVE Rows' /\ troubles' \in 0..MaxFaults
    OBVIOUS
  <1>1. Rows /\ troubles \in 0..MaxFaults /\ Reading
    BY TypeInParts DEF OrgInv
  <1>2. ASSUME NEW k \in Clients, NEW u \in Users,
               (\E r \in OrgRoles : LoadAdd(k, u, r) \/ LoadChange(k, u, r)) \/ LoadRemove(k, u) \/ LoadTeamAdd(k, u)
        PROVE  Rows' /\ troubles' \in 0..MaxFaults
    <2>1. UNCHANGED <<member, onTeam, grant, collab, watching, public, troubles, stale, late, kept>>
      BY <1>2, LoadKeeps
    <2> QED
      BY <1>1, <2>1 DEF Rows
  <1>3. ASSUME NEW k \in Clients,
               AddMember(k) \/ ChangeRole(k) \/ RemoveMember(k) \/ AddToTeam(k) \/ Watch(k) \/ Unwatch(k) \/ Prune(k)
        PROVE  Rows' /\ troubles' \in 0..MaxFaults
    <2>0. job[k].pc # "new" => job[k].user \in Users
      BY <1>1 DEF Reading, WellRead
    <2>1. ASSUME AddMember(k) PROVE Rows' /\ UNCHANGED troubles
      <3>1. job[k].role \in OrgRoles
        BY <1>1, <2>1 DEF AddMember, Reading, WellRead
      <3> QED
        BY <1>1, <2>1, <2>0, <3>1 DEF AddMember, Rows, Strands
    <2>2. ASSUME ChangeRole(k) PROVE Rows' /\ UNCHANGED troubles
      <3>1. job[k].role \in OrgRoles
        BY <1>1, <2>2 DEF ChangeRole, Reading, WellRead
      <3> QED
        BY <1>1, <2>2, <2>0, <3>1 DEF ChangeRole, TakesOwner, Rows, Strands
    <2>3. ASSUME RemoveMember(k) PROVE Rows' /\ UNCHANGED troubles
      BY <1>1, <2>3, <2>0 DEF RemoveMember, TakesOwner, Rows, Strands
    <2>4. ASSUME AddToTeam(k) PROVE Rows' /\ UNCHANGED troubles
      BY <1>1, <2>4, <2>0 DEF AddToTeam, Rows
    <2>5. ASSUME Watch(k) PROVE Rows' /\ (Trouble \/ UNCHANGED troubles)
      BY <1>1, <2>5, <2>0 DEF Watch, Rows
    <2>6. ASSUME Unwatch(k) PROVE Rows' /\ (Trouble \/ UNCHANGED troubles)
      BY <1>1, <2>6, <2>0 DEF Unwatch, Rows
    <2>7. ASSUME Prune(k) PROVE Rows' /\ UNCHANGED troubles
      BY <1>1, <2>7 DEF Prune, Rows
    <2>8. Trouble => troubles' \in 0..MaxFaults
      BY <1>1, FaultBound DEF Trouble
    <2> QED
      BY <1>1, <1>3, <2>1, <2>2, <2>3, <2>4, <2>5, <2>6, <2>7, <2>8
  <1>4. ASSUME NEW k \in Clients, NEW u \in Users,
               RemoveCollaborator(k, u) \/ \E role \in Granted : AddCollaborator(k, u, role)
        PROVE  Rows' /\ troubles' \in 0..MaxFaults
    BY <1>1, <1>4 DEF RemoveCollaborator, AddCollaborator, Rows
  <1>5. ASSUME NEW u \in Users, LeaveTeam(u) PROVE Rows' /\ troubles' \in 0..MaxFaults
    BY <1>1, <1>5 DEF LeaveTeam, Strands, Rows
  <1>6. ASSUME NEW role \in Granted \cup {None}, SetGrant(role) PROVE Rows' /\ troubles' \in 0..MaxFaults
    BY <1>1, <1>6 DEF SetGrant, Strands, Rows
  <1>7. CASE DeleteTeam
    BY <1>1, <1>7 DEF DeleteTeam, Strands, Rows
  <1>8. CASE SetVisibility
    BY <1>1, <1>8 DEF SetVisibility, Strands, Rows
  <1>9. CASE UNCHANGED orgVars
    BY <1>1, <1>9 DEF orgVars, Rows
  <1> QED
    BY <1>2, <1>3, <1>4, <1>5, <1>6, <1>7, <1>8, <1>9 DEF OrgNext

-----------------------------------------------------------------------------
(***************************************************************************)
(* Owners and the team                                                     *)
(***************************************************************************)
LEMMA MembershipStep == OrgInv /\ [OrgNext]_orgVars => MembershipHolds'
  <1> SUFFICES ASSUME OrgInv, [OrgNext]_orgVars PROVE MembershipHolds'
    OBVIOUS
  <1>1. Rows /\ Reading /\ OwnerUnlessStale /\ TeamWithinOrg
    BY TypeInParts DEF OrgInv, MembershipHolds
  <1>2. ASSUME NEW k \in Clients, AddMember(k) PROVE MembershipHolds'
    <2>1. job[k].role \in OrgRoles /\ job[k].role # None /\ job[k].user \in Users
      BY <1>1, <1>2, NoneIsNoRole DEF AddMember, Reading, WellRead, OrgRoles
    <2>2. /\ member' = [member EXCEPT ![job[k].user] = job[k].role]
          /\ stale' = (stale \/ (member[job[k].user] = "OWNER" /\ job[k].role # "OWNER"))
          /\ UNCHANGED <<onTeam, late>>
      BY <1>2 DEF AddMember
    <2>3. TeamWithinOrg'
      BY <1>1, <2>1, <2>2 DEF Rows, TeamWithinOrg, Members
    <2>4. OwnerUnlessStale'
      BY <1>1, <2>1, <2>2 DEF Rows, OwnerUnlessStale, Owners
    <2> QED
      BY <2>3, <2>4 DEF MembershipHolds
  <1>3. ASSUME NEW k \in Clients, ChangeRole(k) PROVE MembershipHolds'
    <2>1. job[k].role \in OrgRoles /\ job[k].role # None /\ job[k].user \in Users
      BY <1>1, <1>3, NoneIsNoRole DEF ChangeRole, Reading, WellRead, OrgRoles
    <2>2. job[k].role # "OWNER" => \E o \in job[k].owners : o # job[k].user
      BY <1>1, <1>3 DEF ChangeRole, Reading, WellRead
    <2>3. CASE UNCHANGED <<member, onTeam, stale, late>>
      BY <1>1, <2>3 DEF MembershipHolds, OwnerUnlessStale, Owners, TeamWithinOrg, Members
    <2>4. CASE /\ member' = [member EXCEPT ![job[k].user] = job[k].role]
               /\ IF job[k].role = "OWNER" THEN UNCHANGED stale ELSE TakesOwner(k)
               /\ UNCHANGED <<onTeam, late>>
      <3>1. TeamWithinOrg'
        BY <1>1, <2>1, <2>4 DEF Rows, TeamWithinOrg, Members
      <3>2. OwnerUnlessStale'
        BY <1>1, <2>1, <2>2, <2>4 DEF Rows, OwnerUnlessStale, Owners, TakesOwner
      <3> QED
        BY <3>1, <3>2 DEF MembershipHolds
    <2> QED
      BY <1>3, <2>3, <2>4 DEF ChangeRole
  <1>4. ASSUME NEW k \in Clients, RemoveMember(k) PROVE MembershipHolds'
    <2>1. job[k].role = None /\ job[k].user \in Users /\ \E o \in job[k].owners : o # job[k].user
      BY <1>1, <1>4, NoneIsNoRole DEF RemoveMember, Reading, WellRead
    <2>2. CASE UNCHANGED <<member, onTeam, stale, late>>
      BY <1>1, <2>2 DEF MembershipHolds, OwnerUnlessStale, Owners, TeamWithinOrg, Members
    <2>3. CASE /\ member' = [member EXCEPT ![job[k].user] = None] /\ TakesOwner(k)
               /\ onTeam' = onTeam \ {job[k].user} /\ UNCHANGED late
      <3>1. TeamWithinOrg'
        BY <1>1, <2>1, <2>3 DEF Rows, TeamWithinOrg, Members
      <3>2. OwnerUnlessStale'
        BY <1>1, <2>1, <2>3, NoneIsNoRole DEF Rows, OwnerUnlessStale, Owners, TakesOwner
      <3> QED
        BY <3>1, <3>2 DEF MembershipHolds
    <2> QED
      BY <1>4, <2>2, <2>3 DEF RemoveMember
  <1>5. ASSUME NEW k \in Clients, AddToTeam(k) PROVE MembershipHolds'
    BY <1>1, <1>5 DEF AddToTeam, MembershipHolds, OwnerUnlessStale, Owners, TeamWithinOrg, Members
  <1>6. ASSUME NEW u \in Users, LeaveTeam(u) PROVE MembershipHolds'
    BY <1>1, <1>6 DEF LeaveTeam, MembershipHolds, OwnerUnlessStale, Owners, TeamWithinOrg, Members
  <1>7. CASE DeleteTeam
    BY <1>1, <1>7 DEF DeleteTeam, MembershipHolds, OwnerUnlessStale, Owners, TeamWithinOrg, Members
  <1>8. CASE UNCHANGED <<member, onTeam, stale, late>>
    BY <1>1, <1>8 DEF MembershipHolds, OwnerUnlessStale, Owners, TeamWithinOrg, Members
  <1>9. ASSUME NEW k \in Clients, Watch(k) \/ Prune(k) \/ Unwatch(k) PROVE UNCHANGED <<member, onTeam, stale, late>>
    BY <1>9 DEF Watch, Prune, Unwatch
  <1>10. ASSUME NEW k \in Clients, NEW u \in Users,
                (\E r \in OrgRoles : LoadAdd(k, u, r) \/ LoadChange(k, u, r)) \/ LoadRemove(k, u) \/ LoadTeamAdd(k, u)
         PROVE  UNCHANGED <<member, onTeam, stale, late>>
    BY <1>10, LoadKeeps
  <1>11. ASSUME NEW k \in Clients, NEW u \in Users,
                RemoveCollaborator(k, u) \/ \E role \in Granted : AddCollaborator(k, u, role)
         PROVE  UNCHANGED <<member, onTeam, stale, late>>
    BY <1>11 DEF RemoveCollaborator, AddCollaborator
  <1>12. ASSUME (\E role \in Granted \cup {None} : SetGrant(role)) \/ SetVisibility \/ UNCHANGED orgVars
         PROVE  UNCHANGED <<member, onTeam, stale, late>>
    BY <1>12 DEF SetGrant, SetVisibility, orgVars
  <1> QED
    BY <1>2, <1>3, <1>4, <1>5, <1>6, <1>7, <1>8, <1>9, <1>10, <1>11, <1>12 DEF OrgNext

-----------------------------------------------------------------------------
(***************************************************************************)
(* Subscriptions                                                           *)
(***************************************************************************)
\* Whoever loses access by a step that notes it is excused.
LEMMA StrandsKeeps ==
  ASSUME Rows, Watched, Strands, UNCHANGED watching,
         \A u \in Users : Pruning(u) => Pruning(u)'
  PROVE  Watched'
  <1> SUFFICES ASSUME NEW u \in watching \ kept', ~CanRead(u)' PROVE Pruning(u)'
    BY DEF Watched
  <1>1. u \in Users /\ u \in watching \ kept
    BY DEF Rows, Strands
  <1>2. ~CanRead(u)
    BY <1>1 DEF Strands
  <1> QED
    BY <1>1, <1>2 DEF Watched

\* A step that takes away no access, of others than those it is about.
LEMMA OthersKeep ==
  ASSUME Rows, Watched, NEW who,
         watching' \subseteq watching \cup {who}, kept \subseteq kept' \cup {who},
         \A u \in Users \ {who} : (CanRead(u) => CanRead(u)') /\ (Pruning(u) => Pruning(u)'),
         who \in watching' \ kept' => CanRead(who)' \/ Pruning(who)'
  PROVE  Watched'
  BY DEF Watched, Rows

\* Requests other than k go on as they were.
LEMMA PruningKept ==
  ASSUME Jobs, NEW k \in Clients, NEW t, Turns(k, t), NEW u,
         Pruning(u), job[k].pc \notin {"prune", "unwatch"} \/ job[k].user # u
  PROVE  Pruning(u)'
  <1>1. PICK l \in Clients : job[l].pc \in {"prune", "unwatch"} /\ job[l].user = u
    BY DEF Pruning
  <1>2. l # k /\ job'[l] = job[l]
    BY <1>1 DEF Turns, Jobs
  <1> QED
    BY <1>1, <1>2 DEF Pruning

LEMMA NextTurn == ASSUME Jobs, NEW k \in Clients, NEW t, Turns(k, t) PROVE job'[k] = t
  BY DEF Jobs, Turns

LEMMA WatchedStep == OrgInv /\ [OrgNext]_orgVars => Watched'
  <1> SUFFICES ASSUME OrgInv, [OrgNext]_orgVars PROVE Watched'
    OBVIOUS
  <1>1. Rows /\ Jobs /\ Reading /\ Watched
    BY TypeInParts DEF OrgInv
  <1>2. ASSUME NEW k \in Clients, AddMember(k) \/ ChangeRole(k) \/ RemoveMember(k) PROVE Watched'
    <2>1. job[k].pc \notin {"prune", "unwatch"} /\ Turns(k, Ready) /\ Strands /\ UNCHANGED watching
      BY <1>2 DEF AddMember, ChangeRole, RemoveMember, Ends
    <2> QED
      BY <1>1, <2>1, PruningKept, StrandsKeeps
  <1>3. ASSUME (\E u \in Users : LeaveTeam(u)) \/ (\E role \in Granted \cup {None} : SetGrant(role)) \/ SetVisibility
        PROVE  Watched'
    <2>1. UNCHANGED <<job, watching>> /\ Strands
      BY <1>3 DEF LeaveTeam, SetGrant, SetVisibility
    <2>2. \A u \in Users : Pruning(u) => Pruning(u)'
      BY <2>1 DEF Pruning
    <2> QED
      BY <1>1, <2>1, <2>2, StrandsKeeps
  <1>4. CASE DeleteTeam
    <2>1. \A u \in Users : Pruning(u) => Pruning(u)'
      BY <1>4 DEF DeleteTeam, Pruning
    <2> QED
      BY <1>1, <1>4, <2>1, StrandsKeeps DEF DeleteTeam
  <1>5. ASSUME NEW k \in Clients, NEW u \in Users,
               (\E r \in OrgRoles : LoadAdd(k, u, r) \/ LoadChange(k, u, r)) \/ LoadRemove(k, u) \/ LoadTeamAdd(k, u)
        PROVE  Watched'
    <2>1. /\ UNCHANGED <<member, onTeam, grant, collab, watching, public, kept>>
          /\ job[k].pc = "new" /\ \E t : Turns(k, t)
      BY <1>5, LoadKeeps
    <2>2. \A w \in Users : Pruning(w) => Pruning(w)'
      BY <1>1, <2>1, PruningKept
    <2>3. \A w \in Users : CanRead(w) => CanRead(w)'
      BY <2>1 DEF CanRead, CanWrite, CanAdmin
    <2> QED
      BY <1>1, <2>1, <2>2, <2>3 DEF Watched, Rows
  <1>6. ASSUME NEW k \in Clients, AddToTeam(k) PROVE Watched'
    <2>1. UNCHANGED <<member, grant, collab, watching, public, kept>> /\ onTeam \subseteq onTeam'
          /\ job[k].pc = "team" /\ Turns(k, Ready)
      BY <1>6 DEF AddToTeam, Ends
    <2>2. \A w \in Users : Pruning(w) => Pruning(w)'
      BY <1>1, <2>1, PruningKept
    <2>3. \A w \in Users : CanRead(w) => CanRead(w)'
      BY <2>1 DEF CanRead, CanWrite, CanAdmin
    <2> QED
      BY <1>1, <2>1, <2>2, <2>3 DEF Watched, Rows
  <1>7. ASSUME NEW k \in Clients, NEW u \in Users, NEW role \in Granted, AddCollaborator(k, u, role) PROVE Watched'
    <2>1. /\ job[k].pc = "new" /\ Turns(k, [Ready EXCEPT !.pc = "watch", !.user = u])
          /\ collab' = [collab EXCEPT ![u] = role]
          /\ UNCHANGED <<member, onTeam, grant, watching, public, kept>>
      BY <1>7 DEF AddCollaborator
    <2>2. \A w \in Users : Pruning(w) => Pruning(w)'
      BY <1>1, <2>1, PruningKept
    <2>3. \A w \in Users \ {u} : CanRead(w) => CanRead(w)'
      BY <1>1, <2>1 DEF CanRead, CanWrite, CanAdmin, Rows
    <2>4. CanRead(u)'
      BY <1>1, <2>1, GrantedRoles DEF CanRead, CanWrite, Rows
    <2> QED
      BY <1>1, <2>1, <2>2, <2>3, <2>4, OthersKeep
  <1>8. ASSUME NEW k \in Clients, NEW u \in Users, RemoveCollaborator(k, u) PROVE Watched'
    <2>1. /\ job[k].pc = "new" /\ Turns(k, [Ready EXCEPT !.pc = "prune", !.user = u])
          /\ collab' = [collab EXCEPT ![u] = None]
          /\ UNCHANGED <<member, onTeam, grant, watching, public, kept>>
      BY <1>8 DEF RemoveCollaborator
    <2>2. \A w \in Users : Pruning(w) => Pruning(w)'
      BY <1>1, <2>1, PruningKept
    <2>3. \A w \in Users \ {u} : CanRead(w) => CanRead(w)'
      BY <1>1, <2>1 DEF CanRead, CanWrite, CanAdmin, Rows
    <2>4. job'[k] = [Ready EXCEPT !.pc = "prune", !.user = u]
      BY <1>1, <2>1, NextTurn
    <2>5. Pruning(u)'
      BY <2>4 DEF Pruning, Ready
    <2> QED
      BY <1>1, <2>1, <2>2, <2>3, <2>5, OthersKeep
  <1>9. ASSUME NEW k \in Clients, Watch(k) \/ Prune(k) \/ Unwatch(k) PROVE Watched'
    <2>0. PICK u : u = job[k].user
      OBVIOUS
    <2>1. /\ UNCHANGED <<member, onTeam, grant, collab, public>> /\ \E t : Turns(k, t)
      BY <1>9 DEF Watch, Prune, Unwatch, Ends
    <2>2. \A w \in Users \ {u} : Pruning(w) => Pruning(w)'
      BY <1>1, <2>0, <2>1, PruningKept
    <2>3. \A w : CanRead(w) => CanRead(w)'
      BY <2>1 DEF CanRead, CanWrite, CanAdmin
    <2>4. watching' \subseteq watching \cup {u} /\ kept \subseteq kept' \cup {u}
      BY <1>9, <2>0 DEF Watch, Prune, Unwatch
    <2>5. u \in watching' \ kept' => CanRead(u)' \/ Pruning(u)'
      <3>1. CASE Watch(k)
        <4>1. job[k].pc = "watch" /\ Turns(k, Ready)
          BY <3>1 DEF Watch, Ends
        <4>2. Pruning(u) => Pruning(u)'
          BY <1>1, <4>1, PruningKept
        <4>3. u \in watching' \ kept' => CanRead(u) \/ Pruning(u)
          BY <1>1, <2>0, <3>1 DEF Watch, Watched
        <4> QED
          BY <4>2, <4>3, <2>3
      <3>2. CASE Prune(k)
        <4>1. CASE CanRead(u)
          BY <4>1, <2>3
        <4>2. CASE ~CanRead(u)
          <5>1. Turns(k, [job[k] EXCEPT !.pc = "unwatch"]) /\ job[k] \in Turn
            BY <1>1, <2>0, <3>2, <4>2 DEF Prune, Jobs
          <5>2. job'[k] = [job[k] EXCEPT !.pc = "unwatch"]
            BY <1>1, <5>1, NextTurn
          <5>3. job'[k].pc = "unwatch" /\ job'[k].user = u
            BY <2>0, <5>1, <5>2 DEF Turn
          <5> QED
            BY <5>3 DEF Pruning
        <4> QED
          BY <4>1, <4>2
      <3>3. CASE Unwatch(k)
        BY <2>0, <3>3 DEF Unwatch
      <3> QED
        BY <1>9, <3>1, <3>2, <3>3
    <2> QED
      BY <1>1, <2>2, <2>3, <2>4, <2>5, OthersKeep
  <1>10. CASE UNCHANGED orgVars
    BY <1>1, <1>10 DEF orgVars, Watched, CanRead, CanWrite, CanAdmin, Pruning
  <1> QED
    BY <1>2, <1>3, <1>4, <1>5, <1>6, <1>7, <1>8, <1>9, <1>10 DEF OrgNext

-----------------------------------------------------------------------------
LEMMA OrgInvStep == OrgInv /\ [OrgNext]_orgVars => OrgInv'
  <1> SUFFICES ASSUME OrgInv, [OrgNext]_orgVars PROVE OrgInv'
    OBVIOUS
  <1>1. Jobs' /\ Reading' /\ Rows' /\ troubles' \in 0..MaxFaults
    BY JobsStep, RowsStep
  <1>2. OrgTypeOK'
    BY <1>1 DEF OrgTypeOK, Rows, Jobs, Turn
  <1> QED
    BY <1>1, <1>2, MembershipStep, WatchedStep DEF OrgInv

LEMMA OrgInvHolds == OrgSpec => []OrgInv
  BY OrgInvInit, OrgInvStep, PTL DEF OrgSpec

(***************************************************************************)
(* Rows refer to users and roles that there are, and every request stands  *)
(* at a place of its handler (routes/orgs.ts).                             *)
(***************************************************************************)
THEOREM OrgTypes == OrgSpec => []OrgTypeOK
  <1>1. OrgInv => OrgTypeOK
    BY DEF OrgInv
  <1> QED
    BY <1>1, OrgInvHolds, PTL

(***************************************************************************)
(* An organization loses its last owner only by a change or a removal      *)
(* whose reading of the owners was overtaken, or by adding a member who    *)
(* was there; nobody is on a team from outside, unless put there on a      *)
(* membership that had ended (routes/orgs.ts).                             *)
(***************************************************************************)
THEOREM Membership == OrgSpec => []MembershipHolds
  <1>1. OrgInv => MembershipHolds
    BY DEF OrgInv
  <1> QED
    BY <1>1, OrgInvHolds, PTL

(***************************************************************************)
(* Once nothing is in progress, who is subscribed may read, except where   *)
(* no look at the subscriptions follows the end of access                  *)
(* (watch-service.ts, pruneWatchOnAccessLoss).                             *)
(***************************************************************************)
THEOREM Watchers == OrgSpec => []WatchersCanRead
  <1>1. OrgInv => WatchersCanRead
    <2> SUFFICES ASSUME OrgInv, AtWork = {}, NEW u \in watching \ kept PROVE CanRead(u)
      BY DEF WatchersCanRead
    <2>1. CanRead(u) \/ Pruning(u)
      BY DEF OrgInv, Watched
    <2>2. \A k \in Clients : job[k].pc = "new"
      BY DEF AtWork, Ready
    <2> QED
      BY <2>1, <2>2 DEF Pruning
  <1> QED
    BY <1>1, OrgInvHolds, PTL

-----------------------------------------------------------------------------
(***************************************************************************)
(* Protection rules, their files and the pushes (PushRules)                *)
(***************************************************************************)
Call == [pc: {"new", "read", "open", "write", "receive", "act", "landed", "done"},
         kind: {None, "push", "rule", "write"}, file: Files,
         rows: [Refs -> Rules], open: BOOLEAN, updates: SUBSET Updates, stood: [Refs -> Rules]]

Busied(c) == c.pc \notin {"new", "landed", "done"}

\* What a request knows: rows that were read, rules that stood from its beginning on.
Aware(c, standing) ==
  /\ c.open => c.pc = "write"
  /\ \A r \in Refs : c.rows[r] # {} => r \in In(c.file) /\ c.pc \in {"open", "write"}
  /\ c.pc \in {"read", "open", "write"} => c.kind \in {"push", "rule"}
  /\ c.pc = "receive" => c.kind = "push"
  /\ c.pc = "act" => c.kind = "write" /\ \A u \in c.updates : ~Breaks(c.stood[u.ref], u)
  /\ Busied(c) => \A r \in Refs : c.stood[r] \subseteq standing[r]
  /\ c.kind = "push" /\ c.pc \in {"open", "write"} =>
       \A r \in Refs : r \in In(c.file) => c.stood[r] \subseteq c.rows[r]

\* A file that holds a push's own copy has all the rules that have stood since the push began.
Holds(c, f, flags) ==
  /\ c.pc # "new"
  /\ c.kind = "push" => \A r \in Refs : r \in In(f) => c.stood[r] \subseteq flags[r]

RulesPlain ==
  /\ rules \in [Refs -> Rules] /\ listed \in [Refs -> Rules]
  /\ exists \subseteq Refs /\ slips \in 0..MaxFaults
  /\ author \in [Files -> Requests \cup {None}]

Calls == call \in [Requests -> Call] /\ \A q \in Requests : Aware(call[q], rules)

Copies == \A f \in Files, q \in Requests : author[f] = q => Holds(call[q], f, listed)

RulesInv == RulesPlain /\ Calls /\ Copies

LEMMA UnservedIsCall ==
  /\ NoRules \in [Refs -> Rules] /\ Unserved \in Call
  /\ \A pc \in {"landed", "done"} : Served(pc) \in Call
  /\ \A pc \in {"landed", "done"} : \A standing : Aware(Served(pc), standing)
  /\ \A standing : Aware(Unserved, standing)
  /\ \A r \in Refs : NoRules[r] = {}
  <1>1. NoRules \in [Refs -> Rules] /\ \A r \in Refs : NoRules[r] = {}
    BY DEF NoRules, Rules
  <1>2. Unserved \in Call
    BY <1>1 DEF Unserved, Call, Files
  <1>3. ASSUME NEW pc \in {"landed", "done"}
        PROVE  Served(pc) \in Call /\ Served(pc).pc = pc /\ Served(pc).rows = NoRules /\ ~Served(pc).open
    <2>1. Served(pc).pc = pc /\ Served(pc).rows = NoRules /\ Served(pc).open = FALSE
      BY DEF Served, Unserved
    <2>2. Served(pc) \in Call
      BY <1>2 DEF Served, Call
    <2> QED
      BY <2>1, <2>2
  <1>4. ASSUME NEW pc \in {"landed", "done"}, NEW standing PROVE Aware(Served(pc), standing)
    BY <1>1, <1>3 DEF Aware, Busied
  <1>5. ASSUME NEW standing PROVE Aware(Unserved, standing)
    <2>1. Unserved.pc = "new" /\ Unserved.open = FALSE /\ Unserved.rows = NoRules
      BY DEF Unserved
    <2> QED
      BY <1>1, <2>1 DEF Aware, Busied
  <1> QED
    BY <1>1, <1>2, <1>3, <1>4, <1>5

LEMMA RulesTypesFollow == RulesPlain /\ Calls => RulesTypeOK
  BY DEF RulesPlain, Calls, RulesTypeOK, Call, Aware

LEMMA RulesInvInit == RulesInit => RulesInv
  <1> SUFFICES ASSUME RulesInit PROVE RulesInv
    OBVIOUS
  <1>1. RulesPlain
    BY UnservedIsCall, RefsAreApart, FaultBound DEF RulesInit, RulesPlain, Refs
  <1>2. Calls
    BY UnservedIsCall DEF RulesInit, Calls
  <1>3. Copies
    BY NoneIsNoRequest DEF RulesInit, Copies
  <1> QED
    BY <1>1, <1>2, <1>3 DEF RulesInv

\* What the hook refuses and a rule forbids grows with the rule.
LEMMA MoreIsForbidden ==
  ASSUME NEW less, NEW more, less \subseteq more, NEW u
  PROVE  /\ Breaks(less, u) => Breaks(more, u)
         /\ HookRefuses(less, u) => HookRefuses(more, u)
  BY DEF Breaks, HookRefuses

LEMMA HookKnowsTheRules ==
  ASSUME NEW flags \in Rules, NEW u \in Updates, Breaks(flags, u)
  PROVE  HookRefuses(flags, u)
  <1>1. u.ref \in Refs /\ (flags # {} => "listed" \in flags)
    BY DEF Updates, Rules
  <1> QED
    BY <1>1, RefsAreApart DEF Breaks, HookRefuses

LEMMA RulesMeet == \A f, g \in Rules : f \cap g \in Rules
  BY DEF Rules

-----------------------------------------------------------------------------
\* One request turns to c; the others keep what they know of the rules.
LEMMA OneCalls ==
  ASSUME Calls, NEW q \in Requests, NEW c \in Call, Aware(c, rules),
         call' = [call EXCEPT ![q] = c], UNCHANGED rules
  PROVE  Calls' /\ call'[q] = c /\ \A p \in Requests \ {q} : call'[p] = call[p]
  BY DEF Calls, Aware

LEMMA CopiedIsAware ==
  ASSUME Calls, NEW q \in Requests, call[q].pc \in {"read", "open", "write"}
  PROVE  /\ Copied(call[q]) \in Call /\ Aware(Copied(call[q]), rules)
         /\ Copied(call[q]).pc # "new"
         /\ Copied(call[q]).kind = "push" => call[q].kind = "push" /\ Copied(call[q]).stood = call[q].stood
  <1> DEFINE c == call[q]
             d == [c EXCEPT !.pc = IF c.file = "branches" THEN "read" ELSE "receive",
                            !.file = "tags", !.rows = NoRules, !.open = FALSE]
  <1>1. c \in Call /\ Aware(c, rules)
    BY DEF Calls
  <1>2. CASE c.kind = "rule"
    <2>1. Copied(c) = Served("done")
      BY <1>2 DEF Copied
    <2>2. Served("done").kind = None /\ Served("done").pc = "done"
      BY DEF Served, Unserved
    <2>3. Served("done").kind # "push"
      BY <2>2, NoneIsNoRequest
    <2> QED
      BY <2>1, <2>2, <2>3, UnservedIsCall
  <1>3. CASE c.kind # "rule"
    <2>1. Copied(c) = d
      BY <1>3 DEF Copied
    <2>2. /\ d.pc = (IF c.file = "branches" THEN "read" ELSE "receive")
          /\ d.kind = c.kind /\ d.file = "tags" /\ d.rows = NoRules /\ d.open = FALSE
          /\ d.updates = c.updates /\ d.stood = c.stood
      BY <1>1 DEF Call
    <2>5. d \in Call
      <3>1. NoRules \in [Refs -> Rules] /\ "tags" \in Files
        BY UnservedIsCall DEF Files
      <3>2. (IF c.file = "branches" THEN "read" ELSE "receive") \in {"read", "receive"}
        OBVIOUS
      <3> QED
        BY <1>1, <3>1, <3>2 DEF Call
    <2>3. c.kind = "push"
      BY <1>1, <1>3 DEF Aware
    <2> HIDE DEF d
    <2>4. Aware(d, rules)
      BY <1>1, <2>2, <2>3, UnservedIsCall DEF Aware, Busied
    <2> QED
      BY <2>1, <2>2, <2>3, <2>4, <2>5
  <1> QED
    BY <1>2, <1>3

\* The files stay as they are: whose copy they hold stays true of one who turns.
LEMMA CopiesKept ==
  ASSUME Copies, NEW q \in Requests, NEW c, call'[q] = c, \A p \in Requests \ {q} : call'[p] = call[p],
         UNCHANGED <<listed, author>>,
         call[q].pc # "new" => c.pc # "new",
         call[q].pc # "new" /\ c.kind = "push" => call[q].kind = "push" /\ c.stood = call[q].stood
  PROVE  Copies'
  <1> SUFFICES ASSUME NEW f \in Files, NEW p \in Requests, author[f] = p PROVE Holds(call'[p], f, listed)
    BY DEF Copies, Holds
  <1>1. Holds(call[p], f, listed)
    BY DEF Copies
  <1> QED
    BY <1>1 DEF Holds

LEMMA ReadKeeps ==
  ASSUME RulesInv, NEW q \in Requests, ReadRules(q) \/ ReadFails(q) \/ WriteFails(q)
  PROVE  RulesInv'
  <1> USE DEF RulesInv
  <1>1. UNCHANGED <<rules, listed, exists, author>>
    BY DEF ReadRules, ReadFails, WriteFails
  <1>2. CASE ReadRules(q)
    <2> DEFINE old == call[q]
               rows == [r \in Refs |-> IF r \in In(old.file) THEN rules[r] ELSE {}]
               c == [old EXCEPT !.pc = "open", !.rows = rows]
    <2>1. old \in Call /\ Aware(old, rules) /\ old.pc = "read"
      BY <1>2 DEF Calls, ReadRules
    <2>2. call' = [call EXCEPT ![q] = c]
      BY <1>2 DEF ReadRules
    <2>3. rows \in [Refs -> Rules]
      BY DEF RulesPlain, Rules
    <2>4. /\ c.pc = "open" /\ c.rows = rows /\ c.kind = old.kind /\ c.file = old.file /\ c.open = old.open
          /\ c.stood = old.stood
      BY <2>1 DEF Call
    <2>5. c \in Call
      BY <2>1, <2>3 DEF Call
    <2>6. \A r \in Refs : rows[r] = IF r \in In(old.file) THEN rules[r] ELSE {}
      OBVIOUS
    <2> HIDE DEF c, rows
    <2>7. Aware(c, rules)
      BY <2>1, <2>4, <2>6 DEF Aware, Busied
    <2>8. Calls' /\ call'[q] = c /\ \A p \in Requests \ {q} : call'[p] = call[p]
      BY <1>1, <2>2, <2>5, <2>7, OneCalls
    <2>9. Copies'
      BY <1>1, <2>4, <2>8, CopiesKept
    <2> QED
      BY <1>1, <1>2, <2>8, <2>9 DEF RulesPlain, ReadRules
  <1>3. CASE ReadFails(q) \/ WriteFails(q)
    <2> DEFINE c == Copied(call[q])
    <2>1. call' = [call EXCEPT ![q] = c] /\ call[q].pc \in {"read", "write"} /\ slips < MaxFaults /\ slips' = slips + 1
      BY <1>3 DEF ReadFails, WriteFails
    <2>2. /\ c \in Call /\ Aware(c, rules) /\ c.pc # "new"
          /\ c.kind = "push" => call[q].kind = "push" /\ c.stood = call[q].stood
      BY <2>1, CopiedIsAware
    <2> HIDE DEF c
    <2>3. Calls' /\ call'[q] = c /\ \A p \in Requests \ {q} : call'[p] = call[p]
      BY <1>1, <2>1, <2>2, OneCalls
    <2>4. Copies'
      BY <1>1, <2>2, <2>3, CopiesKept
    <2>5. slips' \in 0..MaxFaults
      BY <2>1, FaultBound DEF RulesPlain
    <2> QED
      BY <1>1, <2>3, <2>4, <2>5 DEF RulesPlain
  <1> QED
    BY <1>2, <1>3

LEMMA EmptiedIsRules ==
  ASSUME RulesPlain, NEW f \in Files
  PROVE  /\ Emptied(f) \in [Refs -> Rules]
         /\ \A r \in Refs : Emptied(f)[r] = IF r \in In(f) THEN {} ELSE listed[r]
  BY DEF RulesPlain, Emptied, Rules

LEMMA FilesAreApart == \A f, g \in Files, r \in Refs : r \in In(f) /\ r \in In(g) => f = g
  BY RefsAreApart DEF Files, In

LEMMA OpenKeeps ==
  ASSUME RulesInv, NEW q \in Requests, Open(q)
  PROVE  RulesInv'
  <1> USE DEF RulesInv
  <1> DEFINE old == call[q]
             f == old.file
             c == [old EXCEPT !.pc = "write", !.open = TRUE]
  <1>1. old \in Call /\ Aware(old, rules) /\ old.pc = "open" /\ f \in Files
    BY DEF Calls, Open, Call
  <1>2. /\ call' = [call EXCEPT ![q] = c] /\ listed' = Emptied(f)
        /\ author' = [author EXCEPT ![f] = None] /\ UNCHANGED <<rules, exists, slips>>
    BY DEF Open
  <1>3. c.pc = "write" /\ c.rows = old.rows /\ c.kind = old.kind /\ c.file = f /\ c.stood = old.stood
    BY <1>1 DEF Call
  <1>4. c \in Call
    BY <1>1 DEF Call
  <1> HIDE DEF c
  <1>5. Aware(c, rules)
    BY <1>1, <1>3 DEF Aware, Busied
  <1>6. Calls' /\ call'[q] = c /\ \A p \in Requests \ {q} : call'[p] = call[p]
    BY <1>2, <1>4, <1>5, OneCalls
  <1>7. RulesPlain'
    BY <1>1, <1>2, EmptiedIsRules DEF RulesPlain
  <1>8. Copies'
    <2> SUFFICES ASSUME NEW g \in Files, NEW p \in Requests, author'[g] = p PROVE Holds(call'[p], g, listed')
      BY DEF Copies, Holds
    <2>1. g # f /\ author[g] = p
      BY <1>1, <1>2, NoneIsNoRequest DEF RulesPlain
    <2>2. \A r \in Refs : r \in In(g) => listed'[r] = listed[r]
      BY <1>1, <1>2, <2>1, EmptiedIsRules, FilesAreApart
    <2>3. Holds(call[p], g, listed)
      BY <2>1 DEF Copies
    <2> QED
      BY <1>1, <1>3, <1>6, <2>2, <2>3 DEF Holds
  <1> QED
    BY <1>6, <1>7, <1>8

LEMMA RemoveFileKeeps ==
  ASSUME RulesInv, NEW q \in Requests, RemoveFile(q)
  PROVE  RulesInv'
  <1> USE DEF RulesInv
  <1> DEFINE f == call[q].file
             c == Copied(call[q])
             shut(p) == [call[p] EXCEPT !.open = FALSE]
  <1>1. call[q] \in Call /\ Aware(call[q], rules) /\ call[q].pc = "open" /\ f \in Files
    BY DEF Calls, RemoveFile, Call
  <1>2. /\ call' = [p \in Requests |-> IF p = q THEN c ELSE IF call[p].file = f THEN shut(p) ELSE call[p]]
        /\ listed' = Emptied(f) /\ author' = [author EXCEPT ![f] = q] /\ UNCHANGED <<rules, exists, slips>>
        /\ call[q].rows = NoRules
    BY DEF RemoveFile
  <1>3. /\ c \in Call /\ Aware(c, rules) /\ c.pc # "new"
        /\ c.kind = "push" => call[q].kind = "push" /\ c.stood = call[q].stood
    BY <1>1, CopiedIsAware
  <1>4. ASSUME NEW p \in Requests
        PROVE  /\ shut(p) \in Call /\ Aware(shut(p), rules)
               /\ shut(p).pc = call[p].pc /\ shut(p).kind = call[p].kind /\ shut(p).stood = call[p].stood
    <2>1. call[p] \in Call /\ Aware(call[p], rules)
      BY DEF Calls
    <2>2. /\ shut(p).pc = call[p].pc /\ shut(p).kind = call[p].kind /\ shut(p).stood = call[p].stood
          /\ shut(p).rows = call[p].rows /\ shut(p).file = call[p].file /\ shut(p).updates = call[p].updates
          /\ shut(p).open = FALSE
      BY <2>1 DEF Call
    <2>3. shut(p) \in Call
      BY <2>1 DEF Call
    <2> HIDE DEF shut
    <2>4. Aware(shut(p), rules)
      BY <2>1, <2>2 DEF Aware, Busied
    <2> QED
      BY <2>2, <2>3, <2>4
  <1> HIDE DEF c, shut
  <1>5. Calls'
    <2>1. \A p \in Requests : call'[p] \in Call /\ Aware(call'[p], rules)
      BY <1>2, <1>3, <1>4 DEF Calls
    <2>2. call' \in [Requests -> Call]
      BY <1>2, <2>1
    <2> QED
      BY <1>2, <2>1, <2>2 DEF Calls
  <1>6. RulesPlain'
    BY <1>1, <1>2, EmptiedIsRules DEF RulesPlain
  <1>7. Copies'
    <2> SUFFICES ASSUME NEW g \in Files, NEW p \in Requests, author'[g] = p PROVE Holds(call'[p], g, listed')
      BY DEF Copies, Holds
    <2>1. CASE g = f
      <3>1. p = q /\ call'[p] = c
        BY <1>1, <1>2, <2>1 DEF RulesPlain
      <3>2. c.kind = "push" => \A r \in Refs : r \in In(f) => c.stood[r] = {}
        BY <1>1, <1>2, <1>3, UnservedIsCall DEF Aware
      <3> QED
        BY <1>3, <2>1, <3>1, <3>2 DEF Holds
    <2>2. CASE g # f
      <3>1. author[g] = p
        BY <1>1, <1>2, <2>2 DEF RulesPlain
      <3>2. \A r \in Refs : r \in In(g) => listed'[r] = listed[r]
        BY <1>1, <1>2, <2>2, EmptiedIsRules, FilesAreApart
      <3>3. Holds(call[p], g, listed)
        BY <3>1 DEF Copies
      <3>4. /\ call'[p].pc = "new" => call[p].pc = "new"
            /\ call'[p].kind = "push" => call[p].kind = "push" /\ call'[p].stood = call[p].stood
        BY <1>2, <1>3, <1>4
      <3> QED
        BY <3>2, <3>3, <3>4 DEF Holds
    <2> QED
      BY <2>1, <2>2
  <1> QED
    BY <1>5, <1>6, <1>7

LEMMA WriteKeeps ==
  ASSUME RulesInv, NEW q \in Requests, Write(q)
  PROVE  RulesInv'
  <1> USE DEF RulesInv
  <1> DEFINE f == call[q].file
             c == Copied(call[q])
  <1>1. call[q] \in Call /\ Aware(call[q], rules) /\ call[q].pc = "write" /\ f \in Files
    BY DEF Calls, Write, Call
  <1>2. call' = [call EXCEPT ![q] = c] /\ UNCHANGED <<rules, exists, slips>>
    BY DEF Write
  <1>3. /\ c \in Call /\ Aware(c, rules) /\ c.pc # "new"
        /\ c.kind = "push" => call[q].kind = "push" /\ c.stood = call[q].stood
    BY <1>1, CopiedIsAware
  <1> HIDE DEF c
  <1>4. Calls' /\ call'[q] = c /\ \A p \in Requests \ {q} : call'[p] = call[p]
    BY <1>2, <1>3, OneCalls
  <1>5. CASE call[q].open
    <2>1. PICK left \in SUBSET {r \in In(f) : listed[r] # {}} : listed' = Written(q, left)
      BY <1>5 DEF Write
    <2>2. author' = [author EXCEPT ![f] = q]
      BY <1>5 DEF Write
    <2>3. ASSUME NEW r \in Refs
          PROVE  /\ listed'[r] \in Rules
                 /\ r \notin In(f) => listed'[r] = listed[r]
                 /\ r \in In(f) => call[q].rows[r] \subseteq listed'[r]
      <3>1. /\ listed'[r] = IF r \notin In(f) THEN listed[r]
                            ELSE IF call[q].rows[r] # {} THEN call[q].rows[r]
                            ELSE IF r \in left THEN listed[r] ELSE {}
        BY <2>1 DEF Written
      <3>2. listed[r] \in Rules /\ call[q].rows[r] \in Rules /\ {} \in Rules
        BY <1>1 DEF RulesPlain, Call, Rules
      <3> QED
        BY <3>1, <3>2
    <2>4. RulesPlain'
      <3>1. listed' \in [Refs -> Rules]
        BY <2>1, <2>3 DEF Written
      <3> QED
        BY <1>1, <1>2, <2>2, <3>1 DEF RulesPlain
    <2>5. Copies'
      <3> SUFFICES ASSUME NEW g \in Files, NEW p \in Requests, author'[g] = p PROVE Holds(call'[p], g, listed')
        BY DEF Copies, Holds
      <3>1. CASE g = f
        <4>1. p = q /\ call'[p] = c
          BY <1>1, <1>4, <2>2, <3>1 DEF RulesPlain
        <4>2. c.kind = "push" => \A r \in Refs : r \in In(f) => c.stood[r] \subseteq listed'[r]
          BY <1>1, <1>3, <2>3 DEF Aware
        <4> QED
          BY <1>3, <3>1, <4>1, <4>2 DEF Holds
      <3>2. CASE g # f
        <4>1. author[g] = p
          BY <1>1, <2>2, <3>2 DEF RulesPlain
        <4>2. \A r \in Refs : r \in In(g) => listed'[r] = listed[r]
          BY <1>1, <2>3, <3>2, FilesAreApart
        <4>3. Holds(call[p], g, listed)
          BY <4>1 DEF Copies
        <4>4. /\ call'[p].pc = "new" => call[p].pc = "new"
              /\ call'[p].kind = "push" => call[p].kind = "push" /\ call'[p].stood = call[p].stood
          BY <1>3, <1>4
        <4> QED
          BY <4>2, <4>3, <4>4 DEF Holds
      <3> QED
        BY <3>1, <3>2
    <2> QED
      BY <1>4, <2>4, <2>5
  <1>6. CASE ~call[q].open
    <2>1. UNCHANGED <<listed, author>>
      BY <1>6 DEF Write
    <2>2. Copies'
      BY <1>3, <1>4, <2>1, CopiesKept
    <2> QED
      BY <1>2, <1>4, <2>1, <2>2 DEF RulesPlain
  <1> QED
    BY <1>5, <1>6

\* A change of a rule: what has stood since a request began shrinks with it.
LEMMA SetRuleKeeps ==
  ASSUME RulesInv, NEW q \in Requests, NEW r \in Refs, NEW flags \in Settings, SetRule(q, r, flags)
  PROVE  RulesInv'
  <1> USE DEF RulesInv
  <1> DEFINE c == [Unserved EXCEPT !.pc = "read", !.kind = "rule", !.file = FileOf(r)]
             d(p) == [call[p] EXCEPT !.stood = Standing(r, flags)[p]]
  <1>1. /\ call' = [p \in Requests |-> IF p = q THEN c ELSE d(p)]
        /\ rules' = [rules EXCEPT ![r] = flags] /\ UNCHANGED <<listed, exists, slips, author>>
        /\ call[q].pc = "new"
    BY DEF SetRule
  <1>2. flags \in Rules
    BY SettingsAreRules
  <1>3. /\ c.pc = "read" /\ c.kind = "rule" /\ c.rows = NoRules /\ c.open = FALSE
        /\ c.stood = NoRules
    BY DEF Unserved
  <1>4. c \in Call
    <2>1. FileOf(r) \in Files
      BY DEF FileOf, Files
    <2> QED
      BY <2>1, UnservedIsCall DEF Call
  <1> HIDE DEF c
  <1>5. Aware(c, rules')
    BY <1>3, UnservedIsCall DEF Aware, Busied
  <1>6. ASSUME NEW p \in Requests
        PROVE  /\ d(p) \in Call /\ Aware(d(p), rules')
               /\ d(p).pc = call[p].pc /\ d(p).kind = call[p].kind
               /\ \A s \in Refs : d(p).stood[s] \subseteq call[p].stood[s]
    <2> DEFINE stood == Standing(r, flags)[p]
    <2>1. call[p] \in Call /\ Aware(call[p], rules)
      BY DEF Calls
    <2>2. stood = IF Busied(call[p]) THEN [call[p].stood EXCEPT ![r] = @ \cap flags] ELSE call[p].stood
      BY DEF Standing, Serving, Busied
    <2>3. call[p].stood \in [Refs -> Rules]
      BY <2>1 DEF Call
    <2>4. stood \in [Refs -> Rules]
      <3>1. call[p].stood[r] \cap flags \in Rules
        BY <1>2, <2>3, RulesMeet
      <3> QED
        BY <2>2, <2>3, <3>1
    <2>5. \A s \in Refs : stood[s] \subseteq call[p].stood[s]
      BY <2>2, <2>3
    <2>6. Busied(call[p]) => \A s \in Refs : stood[s] \subseteq rules'[s]
      BY <1>1, <2>1, <2>2, <2>3 DEF Aware, RulesPlain
    <2> HIDE DEF stood
    <2>7. /\ d(p).pc = call[p].pc /\ d(p).kind = call[p].kind /\ d(p).stood = stood /\ d(p).file = call[p].file
          /\ d(p).rows = call[p].rows /\ d(p).open = call[p].open /\ d(p).updates = call[p].updates
      BY <2>1 DEF Call, stood
    <2>8. d(p) \in Call
      BY <2>1, <2>4 DEF Call, stood
    <2> HIDE DEF d
    <2>9. \A u \in call[p].updates : Breaks(stood[u.ref], u) => Breaks(call[p].stood[u.ref], u)
      <3> SUFFICES ASSUME NEW u \in call[p].updates PROVE Breaks(stood[u.ref], u) => Breaks(call[p].stood[u.ref], u)
        OBVIOUS
      <3>1. u.ref \in Refs
        BY <2>1 DEF Call, Updates
      <3> QED
        BY <2>5, <3>1, MoreIsForbidden
    <2>10. Aware(d(p), rules')
      BY <2>1, <2>5, <2>6, <2>7, <2>9 DEF Aware, Busied
    <2> QED
      BY <2>5, <2>7, <2>8, <2>10
  <1> HIDE DEF d
  <1>7. Calls'
    <2>1. \A p \in Requests : call'[p] \in Call /\ Aware(call'[p], rules')
      BY <1>1, <1>4, <1>5, <1>6
    <2>2. call' \in [Requests -> Call]
      BY <1>1, <2>1
    <2> QED
      BY <2>1, <2>2 DEF Calls
  <1>8. RulesPlain'
    BY <1>1, <1>2 DEF RulesPlain
  <1>9. Copies'
    <2> SUFFICES ASSUME NEW f \in Files, NEW p \in Requests, author[f] = p PROVE Holds(call'[p], f, listed)
      BY <1>1 DEF Copies, Holds
    <2>1. Holds(call[p], f, listed)
      BY DEF Copies
    <2>2. call'[p] = d(p)
      BY <1>1, <2>1 DEF Holds
    <2> QED
      BY <1>6, <2>1, <2>2 DEF Holds
  <1> QED
    BY <1>7, <1>8, <1>9

LEMMA BeginKeeps ==
  ASSUME RulesInv, NEW q \in Requests, NEW updates \in Pushed, Begin(q, updates)
  PROVE  RulesInv'
  <1> USE DEF RulesInv
  <1> DEFINE c == [Unserved EXCEPT !.pc = "read", !.kind = "push", !.updates = updates, !.stood = rules]
  <1>1. call' = [call EXCEPT ![q] = c] /\ UNCHANGED <<rules, listed, exists, slips, author>> /\ call[q].pc = "new"
    BY DEF Begin
  <1>2. c.pc = "read" /\ c.kind = "push" /\ c.rows = NoRules /\ c.open = FALSE /\ c.stood = rules
    BY DEF Unserved
  <1>3. c \in Call
    <2>1. updates \in SUBSET Updates /\ rules \in [Refs -> Rules]
      BY PushesUpdateRefs DEF RulesPlain
    <2> QED
      BY <2>1, UnservedIsCall DEF Call
  <1> HIDE DEF c
  <1>4. Aware(c, rules)
    BY <1>2, UnservedIsCall DEF Aware, Busied
  <1>5. Calls' /\ call'[q] = c /\ \A p \in Requests \ {q} : call'[p] = call[p]
    BY <1>1, <1>3, <1>4, OneCalls
  <1>6. Copies'
    BY <1>1, <1>5, CopiesKept
  <1> QED
    BY <1>1, <1>5, <1>6 DEF RulesPlain

LEMMA ServerWriteKeeps ==
  ASSUME RulesInv, NEW q \in Requests, NEW u \in Updates, ServerWrite(q, u)
  PROVE  RulesInv'
  <1> USE DEF RulesInv
  <1> DEFINE c == [Unserved EXCEPT !.pc = "act", !.kind = "write", !.updates = {u}, !.stood = rules]
  <1>1. call' = [call EXCEPT ![q] = c] /\ UNCHANGED <<rules, listed, exists, slips, author>> /\ call[q].pc = "new"
    BY DEF ServerWrite
  <1>2. /\ c.pc = "act" /\ c.kind = "write" /\ c.rows = NoRules /\ c.open = FALSE /\ c.stood = rules
        /\ c.updates = {u}
    BY DEF Unserved
  <1>3. c \in Call
    <2>1. {u} \in SUBSET Updates /\ rules \in [Refs -> Rules]
      BY DEF RulesPlain
    <2> QED
      BY <2>1, UnservedIsCall DEF Call
  <1> HIDE DEF c
  <1>4. ~Breaks(rules[u.ref], u)
    <2>1. rules[u.ref] # {} => "listed" \in rules[u.ref]
      BY DEF RulesPlain, Updates, Rules
    <2>2. u.ref \in Refs /\ u.change \in {"create", "forward", "rewrite", "delete"}
      BY DEF Updates
    <2> QED
      BY <2>1, <2>2 DEF ServerWrite, ServerRefuses, Breaks, Refs
  <1>5. Aware(c, rules)
    BY <1>2, <1>4, UnservedIsCall DEF Aware, Busied
  <1>6. Calls' /\ call'[q] = c /\ \A p \in Requests \ {q} : call'[p] = call[p]
    BY <1>1, <1>3, <1>5, OneCalls
  <1>7. Copies'
    BY <1>1, <1>6, CopiesKept
  <1> QED
    BY <1>1, <1>6, <1>7 DEF RulesPlain

LEMMA LandKeeps ==
  ASSUME RulesInv, NEW q \in Requests, Receive(q) \/ Act(q)
  PROVE  RulesInv'
  <1> USE DEF RulesInv
  <1>1. UNCHANGED <<rules, listed, slips, author>> /\ call[q] \in Call
    BY DEF Receive, Act, Calls
  <1>2. PICK pc \in {"landed", "done"} : call' = [call EXCEPT ![q] = Served(pc)]
    BY DEF Receive, Act
  <1>3. Result(call[q].updates) \subseteq Refs
    BY <1>1 DEF Result, Call, Updates, RulesPlain
  <1>4. exists' \subseteq Refs
    BY <1>3 DEF Receive, Act, RulesPlain
  <1>5. Calls' /\ call'[q] = Served(pc) /\ \A p \in Requests \ {q} : call'[p] = call[p]
    BY <1>1, <1>2, UnservedIsCall, OneCalls
  <1>6. Served(pc).pc # "new" /\ Served(pc).kind # "push"
    BY NoneIsNoRequest DEF Served, Unserved
  <1>7. Copies'
    BY <1>1, <1>5, <1>6, CopiesKept
  <1> QED
    BY <1>1, <1>4, <1>5, <1>7 DEF RulesPlain

LEMMA RulesInvStep == RulesInv /\ [RulesNext]_rulesVars => RulesInv'
  <1> SUFFICES ASSUME RulesInv, [RulesNext]_rulesVars PROVE RulesInv'
    OBVIOUS
  <1>1. CASE UNCHANGED rulesVars
    BY <1>1 DEF rulesVars, RulesInv, RulesPlain, Calls, Copies
  <1>2. ASSUME NEW b \in Branches, CreateBranch(b) PROVE RulesInv'
    BY <1>2 DEF CreateBranch, RulesInv, RulesPlain, Calls, Copies, Refs
  <1> QED
    BY <1>1, <1>2, ReadKeeps, OpenKeeps, RemoveFileKeeps, WriteKeeps, SetRuleKeeps, BeginKeeps, ServerWriteKeeps,
       LandKeeps DEF RulesNext

LEMMA RulesInvHolds == RulesSpec => []RulesInv
  BY RulesInvInit, RulesInvStep, PTL DEF RulesSpec

\* Who lands by this step, and how.
LEMMA WhoLands ==
  ASSUME RulesInv, [RulesNext]_rulesVars, NEW q \in Requests, Lands(q)
  PROVE  /\ call[q] \in Call /\ Aware(call[q], rules)
         /\ \/ Act(q)
            \/ Receive(q) /\ \A u \in call[q].updates : ~HookRefuses(listed[u.ref], u)
  <1> USE DEF RulesInv
  <1>1. call[q].pc # "landed" /\ call'[q].pc = "landed"
    BY DEF Lands
  <1>2. call[q] \in Call /\ Aware(call[q], rules)
    BY DEF Calls
  <1>3. ASSUME NEW p \in Requests, NEW c, call' = [call EXCEPT ![p] = c], c.pc # "landed" PROVE FALSE
    BY <1>1, <1>3 DEF Calls
  <1>4. ASSUME NEW p \in Requests PROVE ~ReadRules(p) /\ ~Open(p)
    <2> DEFINE r == [call[p] EXCEPT !.pc = "open",
                       !.rows = [s \in Refs |-> IF s \in In(call[p].file) THEN rules[s] ELSE {}]]
               w == [call[p] EXCEPT !.pc = "write", !.open = TRUE]
    <2>1. r.pc = "open" /\ w.pc = "write"
      BY DEF Calls, Call
    <2>2. /\ ReadRules(p) => call' = [call EXCEPT ![p] = r]
          /\ Open(p) => call' = [call EXCEPT ![p] = w]
      BY DEF ReadRules, Open
    <2> HIDE DEF r, w
    <2> QED
      BY <1>3, <2>1, <2>2
  <1>5. ASSUME NEW p \in Requests, call[p].pc \in {"read", "open", "write"} PROVE Copied(call[p]).pc # "landed"
    BY <1>5 DEF Calls, Call, Copied, Served, Unserved
  <1>6. ASSUME NEW p \in Requests PROVE ~ReadFails(p) /\ ~Write(p) /\ ~WriteFails(p)
    BY <1>3, <1>5 DEF ReadFails, Write, WriteFails
  <1>7. ASSUME NEW p \in Requests PROVE ~RemoveFile(p)
    <2> SUFFICES ASSUME RemoveFile(p) PROVE FALSE
      OBVIOUS
    <2>1. call'[q] = IF q = p THEN Copied(call[p])
                     ELSE IF call[q].file = call[p].file THEN [call[q] EXCEPT !.open = FALSE] ELSE call[q]
      BY DEF RemoveFile
    <2>2. [call[q] EXCEPT !.open = FALSE].pc = call[q].pc
      BY <1>2 DEF Call
    <2>3. call[p].pc = "open"
      BY DEF RemoveFile
    <2> QED
      BY <1>1, <1>5, <2>1, <2>2, <2>3
  <1>8. ASSUME NEW p \in Requests, NEW r \in Refs, NEW flags \in Settings PROVE ~SetRule(p, r, flags)
    <2> SUFFICES ASSUME SetRule(p, r, flags) PROVE FALSE
      OBVIOUS
    <2> DEFINE c == [Unserved EXCEPT !.pc = "read", !.kind = "rule", !.file = FileOf(r)]
               d == [call[q] EXCEPT !.stood = Standing(r, flags)[q]]
    <2>1. call'[q] = IF q = p THEN c ELSE d
      BY DEF SetRule
    <2>2. c.pc = "read" /\ d.pc = call[q].pc
      BY <1>2 DEF Unserved, Call
    <2> HIDE DEF c, d
    <2> QED
      BY <1>1, <2>1, <2>2
  <1>9. ASSUME NEW p \in Requests PROVE /\ \A updates \in Pushed : ~Begin(p, updates)
                                      /\ \A u \in Updates : ~ServerWrite(p, u)
    <2>1. ASSUME NEW updates, Begin(p, updates) PROVE FALSE
      <3> DEFINE c == [Unserved EXCEPT !.pc = "read", !.kind = "push", !.updates = updates, !.stood = rules]
      <3>1. c.pc = "read" /\ call' = [call EXCEPT ![p] = c]
        BY <2>1 DEF Unserved, Begin
      <3> HIDE DEF c
      <3> QED
        BY <1>3, <3>1
    <2>2. ASSUME NEW u, ServerWrite(p, u) PROVE FALSE
      <3> DEFINE c == [Unserved EXCEPT !.pc = "act", !.kind = "write", !.updates = {u}, !.stood = rules]
      <3>1. c.pc = "act" /\ call' = [call EXCEPT ![p] = c]
        BY <2>2 DEF Unserved, ServerWrite
      <3> HIDE DEF c
      <3> QED
        BY <1>3, <3>1
    <2> QED
      BY <2>1, <2>2
  <1>10. ~(\E b \in Branches : CreateBranch(b)) /\ call' # call
    BY <1>1 DEF CreateBranch
  <1>11. PICK p \in Requests : Receive(p) \/ Act(p)
    BY <1>4, <1>6, <1>7, <1>8, <1>9, <1>10 DEF RulesNext, rulesVars
  <1>12. p = q
    <2>1. \E pc : call' = [call EXCEPT ![p] = Served(pc)]
      BY <1>11 DEF Receive, Act
    <2> QED
      BY <1>1, <2>1 DEF Calls
  <1>13. Receive(q) => \A u \in call[q].updates : ~HookRefuses(listed[u.ref], u)
    <2> SUFFICES ASSUME Receive(q), call' = [call EXCEPT ![q] = Served("done")] PROVE FALSE
      BY DEF Receive
    <2>1. Served("done").pc = "done"
      BY DEF Served, Unserved
    <2>2. call'[q] = Served("done")
      BY DEF Calls
    <2> QED
      BY <1>1, <2>1, <2>2
  <1> QED
    BY <1>2, <1>11, <1>12, <1>13

LEMMA LandingsAreAllowed ==
  ASSUME RulesInv, [RulesNext]_rulesVars, NEW q \in Requests, Lands(q), NEW u \in call[q].updates,
         Breaks(call[q].stood[u.ref], u)
  PROVE  call[q].kind = "push" /\ author[FileOf(u.ref)] # q
  <1>1. call[q] \in Call /\ Aware(call[q], rules) /\ u \in Updates /\ u.ref \in Refs
    BY WhoLands DEF Call, Updates
  <1>2. ~Act(q)
    BY <1>1 DEF Act, Aware
  <1>3. call[q].pc = "receive" /\ call[q].kind = "push" /\ ~HookRefuses(listed[u.ref], u)
    BY <1>1, <1>2, WhoLands DEF Receive, Aware
  <1>4. ASSUME author[FileOf(u.ref)] = q PROVE FALSE
    <2>1. FileOf(u.ref) \in Files /\ u.ref \in In(FileOf(u.ref))
      BY <1>1 DEF FileOf, Files, In, Refs
    <2>2. call[q].stood[u.ref] \subseteq listed[u.ref]
      BY <1>1, <1>3, <1>4, <2>1 DEF RulesInv, Copies, Holds
    <2>3. call[q].stood[u.ref] \in Rules
      BY <1>1 DEF Call
    <2> QED
      BY <1>1, <1>3, <2>2, <2>3, HookKnowsTheRules, MoreIsForbidden
  <1> QED
    BY <1>3, <1>4

(***************************************************************************)
(* A file holds whole rows of its kind of ref, and a request has it open   *)
(* only while it writes it (branch-protection.ts, writeRules).             *)
(***************************************************************************)
THEOREM RulesTypes == RulesSpec => []RulesTypeOK
  <1>1. RulesInv => RulesTypeOK
    BY RulesTypesFollow DEF RulesInv
  <1> QED
    BY <1>1, RulesInvHolds, PTL

(***************************************************************************)
(* What lands breaks no rule that stood since its request began, except    *)
(* for a push whose copy of the rules somebody else has overwritten        *)
(* (branch-protection.ts, tag-protection.ts, the pre-receive hook).        *)
(***************************************************************************)
THEOREM RulesAreKept == RulesSpec => StandingRuleHolds
  <1>1. RulesInv /\ [RulesNext]_rulesVars =>
          [\A q \in Requests : Lands(q) =>
             \A u \in call[q].updates : Breaks(call[q].stood[u.ref], u) =>
               call[q].kind = "push" /\ author[FileOf(u.ref)] # q]_rulesVars
    BY LandingsAreAllowed
  <1> QED
    BY <1>1, RulesInvHolds, PTL DEF RulesSpec, StandingRuleHolds

-----------------------------------------------------------------------------
(***************************************************************************)
(* Repositories, their directories and former names (Repositories)         *)
(***************************************************************************)
Task == [pc: {"new", "claim", "init", "insert", "undo", "clone", "insertFork", "access",
              "move", "commit", "back", "drop", "rm"},
         repo: Repos \cup {None}, old: Names \cup {None}, key: Keys \cup {None},
         name: Names \cup {None}, legacy: BOOLEAN]

Making == {"claim", "init", "insert", "undo", "clone", "insertFork"}
Renaming == {"access", "move", "commit", "back"}
Away == {"commit", "back"}

\* What a request has in hand at each of its awaits.
Equipped(t) ==
  /\ t.pc = "new" => t = Resting
  /\ t.pc # "new" => t.repo \in ids /\ t.key \in Keys /\ (t.key \in Repos => t.key = t.repo)
  /\ t.pc \in {"claim", "init", "insert"} => t.key = t.name
  /\ t.pc \in {"clone", "insertFork"} => t.key \in Repos
  /\ t.pc \in Making \cup Renaming => t.name \in Names
  /\ t.pc \in Renaming => t.old \in Names /\ t.key # t.name
  /\ t.pc = "rm" => t.repo \notin HasRow

Tasks == op \in [Clients -> Task] /\ \A q \in Clients : Equipped(op[q])

RepoRows ==
  /\ repo \in [Repos -> [name: Names, key: Keys] \cup {None}]
  /\ redirect \in [Names -> Repos \cup {None}]
  /\ former \in [Names -> Repos \cup {None}]
  /\ mishaps \in 0..MaxFaults
  /\ ids \subseteq Repos /\ HasRow \subseteq ids /\ severed \subseteq ids /\ crossed \in BOOLEAN
  /\ \A r \in HasRow : repo[r].key \in {repo[r].name, r}

\* A repository that is being made is nobody else's.
MakersAlone == \A q \in Clients : op[q].pc \in Making =>
  /\ op[q].repo \notin HasRow
  /\ \A p \in Clients \ {q} : op[p].pc # "new" => op[p].repo # op[q].repo

\* The data of a repository is at one place, and at none before it is made.
OnePlace ==
  /\ dir \in [Keys -> Repos \cup {"empty", None}]
  /\ \A k, l \in Keys : dir[k] = dir[l] /\ dir[k] \in Repos => k = l
  /\ \A k \in Keys : dir[k] \in Repos => dir[k] \in ids
  /\ \A q \in Clients : op[q].pc \in {"claim", "init", "clone"} => \A k \in Keys : dir[k] # op[q].repo

\* What a request made is where it made it, and what it moved is where it moved it.
Placed(t) ==
  /\ t.pc = "init" => dir[t.key] = "empty"
  /\ t.pc \in {"insert", "undo", "insertFork"} => dir[t.key] = t.repo
  /\ t.pc \in Away /\ t.repo \in HasRow => dir[t.name] = t.repo
  /\ t.pc \in Away /\ t.repo \in HasRow \ severed => repo[t.repo].key = t.key

DirsInHand ==
  /\ \A q \in Clients : Placed(op[q])
  /\ \A q, p \in Clients : q # p /\ op[q].pc = "init" /\ op[p].pc = "init" => op[q].key # op[p].key
  /\ \A q, p \in Clients : q # p /\ op[q].pc \in Away /\ op[p].pc \in Away => op[q].repo # op[p].repo
  /\ \A r \in HasRow \ severed :
       dir[repo[r].key] = r \/ \E q \in Clients : op[q].pc \in Away /\ op[q].repo = r

ReposInv ==
  /\ Tasks /\ RepoRows /\ MakersAlone /\ OnePlace
  /\ ~crossed => DirsInHand
  /\ OldNamesLeadOn

LEMMA RestingIsTask == Resting \in Task /\ Resting.pc = "new" /\ Equipped(Resting)
  BY DEF Resting, Task, Equipped, Making, Renaming

LEMMA ReposTypesFollow == ReposInv => ReposTypeOK
  BY DEF ReposInv, Tasks, RepoRows, OnePlace, ReposTypeOK, Task

LEMMA ReposInvInit == ReposInit => ReposInv
  <1> SUFFICES ASSUME ReposInit PROVE ReposInv
    OBVIOUS
  <1> USE DEF ReposInit
  <1>1. HasRow = {} /\ Names \subseteq Keys /\ Repos \subseteq Keys
    BY DEF HasRow, Keys
  <1>2. \A q \in Clients : op[q].pc = "new"
    BY RestingIsTask
  <1>3. Tasks
    BY RestingIsTask DEF Tasks
  <1>4. RepoRows
    <2>1. /\ repo \in [Repos -> [name: Names, key: Keys] \cup {None}]
          /\ redirect \in [Names -> Repos \cup {None}] /\ former \in [Names -> Repos \cup {None}]
      OBVIOUS
    <2>2. mishaps \in 0..MaxFaults
      BY FaultBound
    <2> QED
      BY <1>1, <2>1, <2>2 DEF RepoRows
  <1>5. MakersAlone
    BY <1>2 DEF MakersAlone, Making
  <1>6. OnePlace
    BY <1>2, KeysAreApart DEF OnePlace
  <1>7. DirsInHand
    BY <1>1, <1>2 DEF DirsInHand, Placed, Away
  <1>8. OldNamesLeadOn
    BY DEF OldNamesLeadOn
  <1> QED
    BY <1>3, <1>4, <1>5, <1>6, <1>7, <1>8 DEF ReposInv

-----------------------------------------------------------------------------
LEMMA InHand ==
  ASSUME ReposInv, NEW q \in Clients, op[q].pc # "new"
  PROVE  /\ op[q] \in Task /\ Equipped(op[q])
         /\ op[q].repo \in ids /\ op[q].repo \in Repos /\ op[q].key \in Keys
         /\ op[q].repo # None /\ op[q].repo # "empty"
         /\ op[q].pc \in Making \cup Renaming => op[q].name \in Names /\ op[q].name \in Keys
  BY KeysAreApart DEF ReposInv, Tasks, Equipped, RepoRows, Keys

LEMMA PcOnly ==
  ASSUME ReposInv, NEW q \in Clients, NEW t, t = [op[q] EXCEPT !.pc = t.pc],
         t.pc \in Making \cup Renaming \cup {"new", "drop", "rm"}
  PROVE  /\ t \in Task /\ t.repo = op[q].repo /\ t.key = op[q].key /\ t.name = op[q].name /\ t.old = op[q].old
         /\ t.legacy = op[q].legacy
  BY DEF ReposInv, Tasks, Task, Making, Renaming

LEMMA ToPc ==
  ASSUME ReposInv, NEW q \in Clients, NEW pc \in Making \cup Renaming \cup {"new", "drop", "rm"}, Next_pc(q, pc)
  PROVE  \E t \in Task :
           /\ Step(q, t) /\ t.pc = pc
           /\ t.repo = op[q].repo /\ t.key = op[q].key /\ t.name = op[q].name /\ t.old = op[q].old
  <1> DEFINE t == [op[q] EXCEPT !.pc = pc]
  <1>1. op[q] \in Task
    BY DEF ReposInv, Tasks
  <1>2. t.pc = pc
    BY <1>1 DEF Task
  <1>3. Step(q, t)
    BY DEF Next_pc
  <1>4. t = [op[q] EXCEPT !.pc = t.pc]
    BY <1>2
  <1> HIDE DEF t
  <1> QED
    BY <1>2, <1>3, <1>4, PcOnly

\* One request turns to t; a row is only added for what it has made.
Adds(q, rows) == \A r \in rows \ HasRow : op[q].pc \in Making /\ r = op[q].repo

LEMMA OneTurns ==
  ASSUME ReposInv, NEW q \in Clients, NEW t \in Task, Equipped(t)', Step(q, t), ids \subseteq ids',
         Adds(q, HasRow')
  PROVE  Tasks' /\ op'[q] = t /\ \A p \in Clients \ {q} : op'[p] = op[p]
  <1>1. op' \in [Clients -> Task] /\ op'[q] = t /\ \A p \in Clients \ {q} : op'[p] = op[p]
    BY DEF ReposInv, Tasks, Step
  <1>2. ASSUME NEW p \in Clients \ {q} PROVE Equipped(op[p])'
    <2>1. Equipped(op[p]) /\ op'[p] = op[p]
      BY <1>1 DEF ReposInv, Tasks
    <2>2. op[p].pc = "rm" => op[p].repo \notin HasRow'
      BY <2>1 DEF Equipped, ReposInv, MakersAlone, Adds
    <2> QED
      BY <2>1, <2>2 DEF Equipped
  <1> QED
    BY <1>1, <1>2 DEF Tasks

LEMMA MakersKeep ==
  ASSUME ReposInv, NEW q \in Clients, NEW t \in Task,
         op'[q] = t, \A p \in Clients \ {q} : op'[p] = op[p], Adds(q, HasRow'),
         t.pc # "new" => (op[q].pc # "new" /\ t.repo = op[q].repo) \/ t.repo \in HasRow \/ t.repo \notin ids,
         t.pc \in Making => \/ op[q].pc \in Making /\ t.repo = op[q].repo /\ HasRow' \subseteq HasRow
                            \/ t.repo \notin ids /\ HasRow' \subseteq HasRow
  PROVE  MakersAlone'
  <1> USE DEF ReposInv
  <1>1. HasRow \subseteq ids /\ \A p \in Clients : op[p].pc # "new" => op[p].repo \in ids
    BY InHand DEF RepoRows
  <1> SUFFICES ASSUME NEW p \in Clients, op'[p].pc \in Making
               PROVE  /\ op'[p].repo \notin HasRow'
                      /\ \A s \in Clients \ {p} : op'[s].pc # "new" => op'[s].repo # op'[p].repo
    BY DEF MakersAlone
  <1>2. "new" \notin Making
    BY DEF Making
  <1>3. CASE p = q
    <2>1. op'[p].repo \notin HasRow'
      BY <1>1, <1>3 DEF MakersAlone
    <2>2. ASSUME NEW s \in Clients \ {p}, op'[s].pc # "new" PROVE op'[s].repo # t.repo
      BY <1>1, <1>2, <1>3, <2>2 DEF MakersAlone
    <2> QED
      BY <1>3, <2>1, <2>2
  <1>4. CASE p # q
    <2>1. op'[p] = op[p] /\ op[p].pc \in Making
      BY <1>4
    <2>2. op[p].repo \notin HasRow'
      BY <1>2, <1>4, <2>1 DEF MakersAlone, Adds
    <2>3. ASSUME NEW s \in Clients \ {p}, op'[s].pc # "new" PROVE op'[s].repo # op[p].repo
      BY <1>1, <1>2, <1>4, <2>1, <2>3 DEF MakersAlone
    <2> QED
      BY <2>1, <2>2, <2>3
  <1> QED
    BY <1>3, <1>4

\* Nothing is put anywhere.
LEMMA FewerPlaces ==
  ASSUME ReposInv, NEW q \in Clients, NEW t, op'[q] = t, \A p \in Clients \ {q} : op'[p] = op[p],
         dir' \in [Keys -> Repos \cup {"empty", None}],
         \A k \in Keys : dir'[k] = dir[k] \/ dir'[k] \in {"empty", None},
         ids \subseteq ids',
         t.pc \in {"claim", "init", "clone"} =>
           \/ op[q].pc \in {"claim", "init", "clone"} /\ t.repo = op[q].repo
           \/ t.repo \in Repos \ ids
  PROVE  OnePlace'
  <1> USE DEF ReposInv
  <1>1. None \notin Repos /\ "empty" \notin Repos
    BY KeysAreApart
  <1>2. \A k, l \in Keys : dir'[k] = dir'[l] /\ dir'[k] \in Repos => k = l
    BY <1>1 DEF OnePlace
  <1>3. \A k \in Keys : dir'[k] \in Repos => dir'[k] \in ids'
    BY <1>1 DEF OnePlace
  <1>4. ASSUME NEW p \in Clients, op'[p].pc \in {"claim", "init", "clone"}, NEW k \in Keys PROVE dir'[k] # op'[p].repo
    <2>1. CASE op'[p].repo \in Repos \ ids
      BY <2>1, <1>1 DEF OnePlace
    <2>2. CASE op[p].pc \in {"claim", "init", "clone"} /\ op'[p].repo = op[p].repo
      BY <1>1, <2>2, InHand DEF OnePlace
    <2> QED
      BY <1>4, <2>1, <2>2
  <1> QED
    BY <1>2, <1>3, <1>4 DEF OnePlace

-----------------------------------------------------------------------------
(***************************************************************************)
(* Requests that begin, go on or end, and touch neither row nor directory  *)
(***************************************************************************)
GoesOn(s, t) ==
  /\ t.pc # "new" => (s.pc # "new" /\ t.repo = s.repo) \/ t.repo \in HasRow \/ t.repo \in Repos \ ids
  /\ t.pc \in {"claim", "clone"} => t.repo \in Repos \ ids
  /\ t.pc # "init"
  /\ t.pc \in {"insert", "undo", "insertFork"} =>
       s.pc \in {"insert", "undo", "insertFork"} /\ t.repo = s.repo /\ t.key = s.key
  /\ t.pc \in Away => s.pc \in Away /\ t.repo = s.repo /\ t.key = s.key /\ t.name = s.name
  /\ s.pc \in Away /\ t.pc \notin Away => s.repo \in severed'

LEMMA OnlyTurns ==
  ASSUME ReposInv, RepoRows', NEW q \in Clients, NEW t \in Task, Equipped(t)', Step(q, t), GoesOn(op[q], t),
         UNCHANGED <<repo, redirect, former, dir, crossed>>, ids \subseteq ids', severed \subseteq severed'
  PROVE  ReposInv'
  <1> USE DEF ReposInv
  <1>1. HasRow' = HasRow
    BY DEF HasRow
  <1>2. Tasks' /\ op'[q] = t /\ \A p \in Clients \ {q} : op'[p] = op[p]
    BY <1>1, OneTurns DEF Adds
  <1>3. MakersAlone'
    <2>1. t.pc \in Making => (op[q].pc \in Making /\ t.repo = op[q].repo) \/ t.repo \notin ids
      BY DEF GoesOn, Making
    <2> QED
      BY <1>1, <1>2, <2>1, MakersKeep DEF GoesOn, Adds
  <1>4. OnePlace'
    <2>1. dir' \in [Keys -> Repos \cup {"empty", None}]
      BY DEF OnePlace
    <2> QED
      BY <1>2, <2>1, FewerPlaces DEF GoesOn
  <1>5. OldNamesLeadOn'
    BY DEF OldNamesLeadOn
  <1>6. ASSUME ~crossed PROVE DirsInHand'
    <2>1. DirsInHand
      BY <1>6
    <2>2. ASSUME NEW p \in Clients PROVE Placed(op[p])'
      <3>1. Placed(op[p])
        BY <2>1 DEF DirsInHand
      <3>2. CASE p = q
        BY <1>1, <1>2, <3>1, <3>2 DEF Placed, GoesOn
      <3>3. CASE p # q
        BY <1>1, <1>2, <3>1, <3>3 DEF Placed
      <3> QED
        BY <3>2, <3>3
    <2>3. \A p, s \in Clients : p # s /\ op'[p].pc = "init" /\ op'[s].pc = "init" => op'[p].key # op'[s].key
      BY <1>2, <2>1 DEF DirsInHand, GoesOn
    <2>4. \A p, s \in Clients : p # s /\ op'[p].pc \in Away /\ op'[s].pc \in Away => op'[p].repo # op'[s].repo
      BY <1>2, <2>1 DEF DirsInHand, GoesOn
    <2>5. ASSUME NEW r \in HasRow \ severed'
          PROVE  dir[repo[r].key] = r \/ \E p \in Clients : op'[p].pc \in Away /\ op'[p].repo = r
      <3>1. CASE dir[repo[r].key] = r
        BY <3>1
      <3>2. ASSUME NEW p \in Clients, op[p].pc \in Away, op[p].repo = r PROVE op'[p].pc \in Away /\ op'[p].repo = r
        BY <1>2, <3>2 DEF GoesOn
      <3>3. dir[repo[r].key] = r \/ \E p \in Clients : op[p].pc \in Away /\ op[p].repo = r
        BY <2>1 DEF DirsInHand
      <3> QED
        BY <3>1, <3>2, <3>3
    <2> QED
      BY <1>1, <2>2, <2>3, <2>4, <2>5 DEF DirsInHand
  <1> QED
    BY <1>2, <1>3, <1>4, <1>5, <1>6

\* The bound counts what went wrong.
LEMMA MishapsBound == RepoRows /\ (Mishap \/ UNCHANGED mishaps) => mishaps' \in 0..MaxFaults
  BY FaultBound DEF RepoRows, Mishap

LEMMA SameRows ==
  ASSUME RepoRows, UNCHANGED <<repo, redirect, former>>, Mishap \/ UNCHANGED mishaps,
         ids \subseteq ids', ids' \subseteq Repos, severed' \subseteq ids', crossed' \in BOOLEAN
  PROVE  RepoRows' /\ HasRow' = HasRow
  <1>1. HasRow' = HasRow
    BY DEF HasRow
  <1>2. mishaps' \in 0..MaxFaults
    BY MishapsBound
  <1> QED
    BY <1>1, <1>2 DEF RepoRows

LEMMA BeginMakingKeeps ==
  ASSUME ReposInv, NEW q \in Clients, NEW n \in Names, BeginCreate(q, n) \/ BeginFork(q, n)
  PROVE  ReposInv'
  <1> USE DEF ReposInv
  <1>1. PICK r \in Repos \ ids : ids' = ids \cup {r} /\ op[q].pc = "new" /\
          UNCHANGED <<repo, redirect, former, dir, mishaps, severed, crossed>> /\
          \/ Step(q, [Resting EXCEPT !.pc = "claim", !.repo = r, !.name = n, !.key = n])
          \/ \E m \in Names : Step(q, [Resting EXCEPT !.pc = "clone", !.repo = r, !.key = r, !.name = m])
    BY KeysAreApart DEF BeginCreate, BeginFork, Store
  <1>2. PICK t \in Task : /\ Step(q, t) /\ t.repo = r /\ t.name \in Names
                          /\ (t.pc = "claim" /\ t.key = t.name) \/ (t.pc = "clone" /\ t.key = r)
    <2>1. n \in Keys /\ r \in Keys
      BY DEF Keys
    <2>2. CASE Step(q, [Resting EXCEPT !.pc = "claim", !.repo = r, !.name = n, !.key = n])
      <3> DEFINE t == [Resting EXCEPT !.pc = "claim", !.repo = r, !.name = n, !.key = n]
      <3>1. t.pc = "claim" /\ t.repo = r /\ t.key = n /\ t.name = n
        BY DEF Resting
      <3>2. t \in Task
        BY <2>1, RestingIsTask DEF Task
      <3>3. Step(q, t)
        BY <2>2
      <3> HIDE DEF t
      <3> QED
        BY <3>1, <3>2, <3>3
    <2>3. ASSUME NEW m \in Names, Step(q, [Resting EXCEPT !.pc = "clone", !.repo = r, !.key = r, !.name = m])
          PROVE  \E t \in Task : /\ Step(q, t) /\ t.repo = r /\ t.name \in Names
                                 /\ (t.pc = "claim" /\ t.key = t.name) \/ (t.pc = "clone" /\ t.key = r)
      <3> DEFINE t == [Resting EXCEPT !.pc = "clone", !.repo = r, !.key = r, !.name = m]
      <3>1. t.pc = "clone" /\ t.repo = r /\ t.key = r /\ t.name = m
        BY DEF Resting
      <3>2. t \in Task
        BY <2>1, RestingIsTask DEF Task
      <3>3. Step(q, t)
        BY <2>3
      <3> HIDE DEF t
      <3> QED
        BY <3>1, <3>2, <3>3
    <2> QED
      BY <1>1, <2>2, <2>3
  <1>3. Equipped(t)'
    BY <1>1, <1>2, KeysAreApart DEF Equipped, Making, Renaming, Keys
  <1>4. GoesOn(op[q], t)
    BY <1>1, <1>2 DEF GoesOn, Away
  <1>5. RepoRows'
    BY <1>1, SameRows DEF RepoRows
  <1> QED
    BY <1>1, <1>2, <1>3, <1>4, <1>5, OnlyTurns

LEMMA RestingIsEquipped == Equipped(Resting)'
  BY RestingIsTask DEF Equipped, Making, Renaming

\* A request that ends with what it touched as it was.
LEMMA JustEnds ==
  ASSUME ReposInv, NEW q \in Clients, Answered(q), UNCHANGED <<repo, redirect, former, dir, crossed, ids>>,
         op[q].pc \in Away => op[q].repo \in severed', severed \subseteq severed', RepoRows'
  PROVE  ReposInv'
  <1>1. Step(q, Resting) /\ Resting \in Task /\ Equipped(Resting)'
    BY RestingIsTask, RestingIsEquipped DEF Answered
  <1>2. GoesOn(op[q], Resting)
    BY RestingIsTask DEF GoesOn, Away
  <1> QED
    BY <1>1, <1>2, OnlyTurns

-----------------------------------------------------------------------------
(***************************************************************************)
(* Requests that touch a row or a directory                                *)
(***************************************************************************)
\* It touches what is its own, or nobody's; the others find their own as they left it.
TouchesItsOwn(q) ==
  \A k \in Keys : dir'[k] # dir[k] =>
    dir[k] \in {None, op[q].repo} \/ k = op[q].repo \/ (op[q].pc = "init" /\ k = op[q].key)

LEMMA OneKeepsDirs ==
  ASSUME ReposInv, ~crossed, NEW q \in Clients, op[q].pc # "new", NEW t, op'[q] = t,
         \A p \in Clients \ {q} : op'[p] = op[p],
         TouchesItsOwn(q), severed \subseteq severed',
         \A r \in HasRow' : r # op[q].repo => r \in HasRow /\ repo'[r] = repo[r],
         \A p \in Clients \ {q} : op[p].pc \in Away /\ op[p].repo \in HasRow' => op[p].repo # op[q].repo,
         Placed(t)',
         t.pc = "init" => \A p \in Clients \ {q} : op[p].pc = "init" => op[p].key # t.key,
         t.pc \in Away => t.repo = op[q].repo,
         t.pc \in Away => \A p \in Clients \ {q} : op[p].pc \in Away => op[p].repo # op[q].repo,
         op[q].repo \in HasRow' \ severed' => dir'[repo'[op[q].repo].key] = op[q].repo \/ t.pc \in Away
  PROVE  DirsInHand'
  <1> USE DEF ReposInv
  <1> DEFINE mine == op[q].repo
  <1>1. mine \in Repos /\ mine # None /\ mine # "empty" /\ None # "empty" /\ mine \notin Names /\ DirsInHand
    BY InHand, KeysAreApart
  <1>2. ASSUME NEW p \in Clients \ {q} PROVE Placed(op[p])'
    <2>0. op'[p] = op[p] /\ Placed(op[p])
      BY <1>1 DEF DirsInHand
    <2>1. op[p].pc = "init" => dir'[op[p].key] = "empty"
      <3> SUFFICES ASSUME op[p].pc = "init" PROVE dir'[op[p].key] = "empty"
        OBVIOUS
      <3>1. op[p].key \in Keys /\ op[p].key \in Names
        BY InHand DEF Equipped, Making
      <3>2. dir[op[p].key] = "empty" /\ (op[q].pc = "init" => op[q].key # op[p].key)
        BY <1>1, <2>0 DEF Placed, DirsInHand
      <3> QED
        BY <1>1, <3>1, <3>2 DEF TouchesItsOwn
    <2>2. op[p].pc \in {"insert", "undo", "insertFork"} => dir'[op[p].key] = op[p].repo
      <3> SUFFICES ASSUME op[p].pc \in {"insert", "undo", "insertFork"} PROVE dir'[op[p].key] = op[p].repo
        OBVIOUS
      <3>1. /\ op[p].key \in Keys /\ op[p].repo # None /\ op[p].repo # "empty"
            /\ (op[p].key \in Repos => op[p].key = op[p].repo)
        BY InHand DEF Equipped
      <3>2. op[p].repo # mine
        BY DEF MakersAlone, Making
      <3>3. dir[op[p].key] = op[p].repo
        BY <2>0 DEF Placed
      <3>4. op[q].pc = "init" => dir[op[q].key] = "empty"
        BY <1>1 DEF DirsInHand, Placed
      <3> QED
        BY <1>1, <3>1, <3>2, <3>3, <3>4 DEF TouchesItsOwn
    <2>3. op[p].pc \in Away /\ op[p].repo \in HasRow' => dir'[op[p].name] = op[p].repo
      <3> SUFFICES ASSUME op[p].pc \in Away, op[p].repo \in HasRow' PROVE dir'[op[p].name] = op[p].repo
        OBVIOUS
      <3>1. op[p].name \in Keys /\ op[p].name \in Names /\ op[p].repo # None /\ op[p].repo # "empty"
        BY InHand DEF Away, Renaming
      <3>2. op[p].repo # mine /\ op[p].repo \in HasRow
        OBVIOUS
      <3>3. dir[op[p].name] = op[p].repo
        BY <2>0, <3>2 DEF Placed
      <3>4. op[q].pc = "init" => dir[op[q].key] = "empty"
        BY <1>1 DEF DirsInHand, Placed
      <3> QED
        BY <1>1, <3>1, <3>2, <3>3, <3>4 DEF TouchesItsOwn
    <2>4. op[p].pc \in Away /\ op[p].repo \in HasRow' \ severed' => repo'[op[p].repo].key = op[p].key
      BY <2>0 DEF Placed
    <2> QED
      BY <2>0, <2>1, <2>2, <2>3, <2>4 DEF Placed
  <1>3. Placed(op[q])'
    BY DEF Placed
  <1>4. ASSUME NEW r \in HasRow' \ severed', r # mine
        PROVE  dir'[repo'[r].key] = r \/ \E p \in Clients : op'[p].pc \in Away /\ op'[p].repo = r
    <2>1. r \in HasRow \ severed /\ repo'[r] = repo[r] /\ r \in Repos /\ r # None /\ r # "empty"
      BY <1>4, KeysAreApart DEF HasRow
    <2>2. CASE dir[repo[r].key] = r
      <3>1. repo[r].key \in Keys /\ repo[r].name \in Names /\ repo[r].key \in {repo[r].name, r}
        BY <2>1 DEF RepoRows, HasRow
      <3>2. op[q].pc = "init" => dir[op[q].key] = "empty"
        BY <1>1 DEF DirsInHand, Placed
      <3> QED
        BY <1>1, <1>4, <2>1, <2>2, <3>1, <3>2 DEF TouchesItsOwn
    <2>3. ASSUME NEW p \in Clients, op[p].pc \in Away, op[p].repo = r
          PROVE  op'[p].pc \in Away /\ op'[p].repo = r
      BY <1>4, <2>3
    <2> QED
      BY <1>1, <2>1, <2>2, <2>3 DEF DirsInHand
  <1>5. \A p, s \in Clients : p # s /\ op'[p].pc = "init" /\ op'[s].pc = "init" => op'[p].key # op'[s].key
    BY <1>1 DEF DirsInHand
  <1>6. \A p, s \in Clients : p # s /\ op'[p].pc \in Away /\ op'[s].pc \in Away => op'[p].repo # op'[s].repo
    BY <1>1 DEF DirsInHand
  <1>7. mine \in HasRow' \ severed' =>
          dir'[repo'[mine].key] = mine \/ \E p \in Clients : op'[p].pc \in Away /\ op'[p].repo = mine
    OBVIOUS
  <1>8. \A p \in Clients : Placed(op[p])'
    BY <1>2, <1>3
  <1>9. \A r \in HasRow' \ severed' :
          dir'[repo'[r].key] = r \/ \E p \in Clients : op'[p].pc \in Away /\ op'[p].repo = r
    BY <1>4, <1>7
  <1> QED
    BY <1>5, <1>6, <1>8, <1>9 DEF DirsInHand

LEMMA RestingHasNothing == Placed(Resting)'
  BY RestingIsTask DEF Placed, Away

LEMMA NoPutKeeps ==
  ASSUME ReposInv, NEW q \in Clients, op[q].pc # "new", NEW k \in Keys, NEW x \in {"empty", None},
         dir' = [dir EXCEPT ![k] = x]
  PROVE  /\ dir' \in [Keys -> Repos \cup {"empty", None}]
         /\ \A l \in Keys : dir'[l] = dir[l] \/ dir'[l] \in {"empty", None}
         /\ \A l \in Keys : l # k => dir'[l] = dir[l]
  BY DEF ReposInv, OnePlace

LEMMA ClaimKeeps ==
  ASSUME ReposInv, NEW q \in Clients, Claim(q)
  PROVE  ReposInv'
  <1> USE DEF ReposInv
  <1>1. op[q].pc = "claim" /\ UNCHANGED <<repo, redirect, former, mishaps, ids, severed, crossed>>
    BY DEF Claim, Store
  <1>2. RepoRows' /\ HasRow' = HasRow
    BY <1>1, SameRows DEF RepoRows
  <1>3. CASE dir[op[q].key] # None
    BY <1>1, <1>2, <1>3, JustEnds DEF Claim, Away
  <1>4. CASE dir[op[q].key] = None
    <2> DEFINE k == op[q].key
    <2>1. Next_pc(q, "init") /\ dir' = [dir EXCEPT ![k] = "empty"]
      BY <1>4 DEF Claim
    <2>2. PICK t \in Task : Step(q, t) /\ t.pc = "init" /\ t.repo = op[q].repo /\ t.key = k /\ t.name = op[q].name
      BY <2>1, ToPc DEF Making
    <2>3. k \in Keys /\ k \in Names /\ op[q].repo \in ids /\ op[q].name \in Names /\ k = op[q].name
      BY <1>1, InHand DEF Equipped, Making
    <2>4. Equipped(t)'
      BY <1>1, <2>2, <2>3, KeysAreApart DEF Equipped, Making, Renaming
    <2>5. Tasks' /\ op'[q] = t /\ \A p \in Clients \ {q} : op'[p] = op[p]
      BY <1>1, <1>2, <2>2, <2>4, OneTurns DEF Adds
    <2>6. MakersAlone'
      BY <1>1, <1>2, <2>2, <2>5, MakersKeep DEF Adds, Making
    <2>7. OnePlace'
      BY <1>1, <2>1, <2>2, <2>3, <2>5, NoPutKeeps, FewerPlaces
    <2>8. OldNamesLeadOn'
      BY <1>1 DEF OldNamesLeadOn
    <2>9. ASSUME ~crossed PROVE DirsInHand'
      <3>1. DirsInHand /\ None # "empty"
        BY <2>9, KeysAreApart
      <3>2. TouchesItsOwn(q)
        BY <1>1, <1>4, <2>1, <2>3, NoPutKeeps DEF TouchesItsOwn
      <3>3. Placed(t)'
        BY <2>1, <2>2, <2>3 DEF Placed, Away, OnePlace
      <3>4. \A p \in Clients \ {q} : op[p].pc = "init" => op[p].key # t.key
        BY <1>4, <2>2, <3>1 DEF DirsInHand, Placed
      <3>5. \A p \in Clients \ {q} : op[p].pc \in Away => op[p].repo # op[q].repo
        BY <1>1 DEF MakersAlone, Making, Away
      <3>6. op[q].repo \notin HasRow
        BY <1>1 DEF MakersAlone, Making
      <3>7. t.pc \notin Away
        BY <2>2 DEF Away
      <3> QED
        BY <1>1, <1>2, <2>5, <2>9, <3>2, <3>3, <3>4, <3>5, <3>6, <3>7, OneKeepsDirs
    <2> QED
      BY <1>1, <1>2, <2>5, <2>6, <2>7, <2>8, <2>9
  <1> QED
    BY <1>3, <1>4

LEMMA GitInitKeeps ==
  ASSUME ReposInv, NEW q \in Clients, GitInit(q)
  PROVE  ReposInv'
  <1> USE DEF ReposInv
  <1> DEFINE k == op[q].key
  <1>1. op[q].pc = "init" /\ UNCHANGED <<repo, redirect, former, ids, severed, crossed>> /\ (Mishap \/ UNCHANGED mishaps)
    BY DEF GitInit, Store
  <1>2. RepoRows' /\ HasRow' = HasRow
    BY <1>1, SameRows DEF RepoRows
  <1>3. /\ k \in Keys /\ k \in Names /\ op[q].repo \in ids /\ op[q].repo \in Repos
        /\ op[q].name \in Names /\ k = op[q].name
    BY <1>1, InHand DEF Equipped, Making
  <1>4. OldNamesLeadOn'
    BY <1>1 DEF OldNamesLeadOn
  <1>5. \A p \in Clients \ {q} : op[p].pc \in Away => op[p].repo # op[q].repo
    BY <1>1 DEF MakersAlone, Making, Away
  <1>6. op[q].repo \notin HasRow
    BY <1>1 DEF MakersAlone, Making
  <1>7. CASE Next_pc(q, "insert") /\ dir' = [dir EXCEPT ![k] = IF @ \in {"empty", None} THEN op[q].repo ELSE @]
    <2>1. PICK t \in Task : Step(q, t) /\ t.pc = "insert" /\ t.repo = op[q].repo /\ t.key = k /\ t.name = op[q].name
      BY <1>7, ToPc DEF Making
    <2>2. Equipped(t)'
      BY <1>1, <1>3, <2>1, KeysAreApart DEF Equipped, Making, Renaming
    <2>3. Tasks' /\ op'[q] = t /\ \A p \in Clients \ {q} : op'[p] = op[p]
      BY <1>1, <1>2, <2>1, <2>2, OneTurns DEF Adds
    <2>4. MakersAlone'
      BY <1>1, <1>2, <2>1, <2>3, MakersKeep DEF Adds, Making
    <2>5. /\ dir' \in [Keys -> Repos \cup {"empty", None}]
          /\ \A l \in Keys : dir'[l] = dir[l] \/ (l = k /\ dir'[l] = op[q].repo)
      <3>1. dir'[k] = IF dir[k] \in {"empty", None} THEN op[q].repo ELSE dir[k]
        BY <1>3, <1>7 DEF OnePlace
      <3>2. \A l \in Keys \ {k} : dir'[l] = dir[l]
        BY <1>7 DEF OnePlace
      <3>3. dir' \in [Keys -> Repos \cup {"empty", None}]
        <4>1. (IF dir[k] \in {"empty", None} THEN op[q].repo ELSE dir[k]) \in Repos \cup {"empty", None}
          BY <1>3 DEF OnePlace
        <4> QED
          BY <1>7, <4>1 DEF OnePlace
      <3> QED
        BY <3>1, <3>2, <3>3
    <2>6. OnePlace'
      <3>1. \A l \in Keys : dir[l] # op[q].repo
        BY <1>1 DEF OnePlace
      <3>2. \A p \in Clients \ {q} : op[p].pc \in {"claim", "init", "clone"} => op[p].repo # op[q].repo
        BY <1>1 DEF MakersAlone, Making
      <3>3. \A l, m \in Keys : dir'[l] = dir'[m] /\ dir'[l] \in Repos => l = m
        BY <2>5, <3>1 DEF OnePlace
      <3>4. \A l \in Keys : dir'[l] \in Repos => dir'[l] \in ids'
        BY <1>1, <1>3, <2>5 DEF OnePlace
      <3>5. \A p \in Clients : op'[p].pc \in {"claim", "init", "clone"} => \A l \in Keys : dir'[l] # op'[p].repo
        BY <2>1, <2>3, <2>5, <3>2 DEF OnePlace
      <3> QED
        BY <2>5, <3>3, <3>4, <3>5 DEF OnePlace
    <2>7. ASSUME ~crossed PROVE DirsInHand'
      <3>1. dir[k] = "empty"
        BY <1>1, <2>7 DEF DirsInHand, Placed
      <3>2. TouchesItsOwn(q)
        BY <1>1, <2>5 DEF TouchesItsOwn
      <3>3. Placed(t)'
        BY <1>3, <1>7, <2>1, <3>1 DEF Placed, Away, OnePlace
      <3>4. t.pc # "init" /\ t.pc \notin Away
        BY <2>1 DEF Away
      <3> QED
        BY <1>1, <1>2, <1>5, <1>6, <2>3, <2>7, <3>2, <3>3, <3>4, OneKeepsDirs
    <2> QED
      BY <1>1, <1>2, <1>4, <2>3, <2>4, <2>6, <2>7
  <1>8. CASE Answered(q) /\ RemoveBareRepo(k)
    <2>1. Step(q, Resting) /\ Resting \in Task /\ Equipped(Resting)' /\ Resting.pc = "new"
      BY <1>8, RestingIsTask, RestingIsEquipped DEF Answered
    <2>2. Tasks' /\ op'[q] = Resting /\ \A p \in Clients \ {q} : op'[p] = op[p]
      BY <1>1, <1>2, <2>1, OneTurns DEF Adds
    <2>3. MakersAlone'
      BY <1>1, <1>2, <2>1, <2>2, MakersKeep DEF Adds, Making
    <2>4. /\ dir' \in [Keys -> Repos \cup {"empty", None}]
          /\ \A l \in Keys : dir'[l] = dir[l] \/ dir'[l] \in {"empty", None}
          /\ \A l \in Keys : l # k => dir'[l] = dir[l]
      BY <1>1, <1>3, <1>8, NoPutKeeps DEF RemoveBareRepo
    <2>5. OnePlace'
      BY <1>1, <2>1, <2>2, <2>4, FewerPlaces
    <2>6. ASSUME ~crossed PROVE DirsInHand'
      <3>1. TouchesItsOwn(q)
        BY <1>1, <2>4 DEF TouchesItsOwn
      <3> QED
        BY <1>1, <1>2, <1>5, <1>6, <2>1, <2>2, <2>6, <3>1, RestingHasNothing, OneKeepsDirs DEF Away
    <2> QED
      BY <1>1, <1>2, <1>4, <2>2, <2>3, <2>5, <2>6
  <1> QED
    BY <1>7, <1>8 DEF GitInit

LEMMA InsertRowKeeps ==
  ASSUME ReposInv, NEW q \in Clients, InsertRow(q)
  PROVE  ReposInv'
  <1> USE DEF ReposInv
  <1> DEFINE r == op[q].repo
  <1>1. op[q].pc \in {"insert", "insertFork"} /\ UNCHANGED <<dir, redirect, ids, severed, crossed>>
    BY DEF InsertRow
  <1>2. /\ op[q].key \in Keys /\ r \in ids /\ r \in Repos /\ op[q].name \in Names /\ Equipped(op[q])
        /\ op[q] \in Task
    BY <1>1, InHand DEF Making
  <1>3. CASE Next_pc(q, "undo") /\ UNCHANGED <<repo, former>> /\ (Mishap \/ UNCHANGED mishaps)
    <2>1. PICK t \in Task : Step(q, t) /\ t.pc = "undo" /\ t.repo = r /\ t.key = op[q].key /\ t.name = op[q].name
      BY <1>3, ToPc DEF Making
    <2>2. Equipped(t)'
      BY <1>1, <1>2, <2>1 DEF Equipped, Making, Renaming
    <2>3. GoesOn(op[q], t)
      BY <1>1, <2>1 DEF GoesOn, Away
    <2>4. RepoRows'
      BY <1>1, <1>3, SameRows DEF RepoRows
    <2> QED
      BY <1>1, <1>3, <2>1, <2>2, <2>3, <2>4, OnlyTurns
  <1>4. CASE /\ Answered(q) /\ UNCHANGED mishaps
             /\ repo' = [repo EXCEPT ![r] = [name |-> op[q].name, key |-> op[q].key]]
             /\ former' = [former EXCEPT ![op[q].name] = None]
    <2>1. Step(q, Resting) /\ Resting \in Task /\ Equipped(Resting)' /\ Resting.pc = "new"
      BY <1>4, RestingIsTask, RestingIsEquipped DEF Answered
    <2>2. repo'[r] = [name |-> op[q].name, key |-> op[q].key] /\ \A s \in Repos \ {r} : repo'[s] = repo[s]
      BY <1>2, <1>4 DEF RepoRows
    <2>3. HasRow' \subseteq HasRow \cup {r}
      BY <2>2 DEF HasRow
    <2>4. Adds(q, HasRow')
      BY <1>1, <2>3 DEF Adds, Making
    <2>5. Tasks' /\ op'[q] = Resting /\ \A p \in Clients \ {q} : op'[p] = op[p]
      BY <1>1, <2>1, <2>4, OneTurns
    <2>6. MakersAlone'
      BY <2>1, <2>4, <2>5, MakersKeep DEF Making
    <2>7. OnePlace'
      BY <1>1, <2>1, <2>5, FewerPlaces DEF OnePlace
    <2>8. RepoRows'
      <3>1. repo' \in [Repos -> [name: Names, key: Keys] \cup {None}]
        BY <1>2, <1>4 DEF RepoRows
      <3>2. op[q].key \in {op[q].name, r}
        BY <1>2, <1>1 DEF Equipped
      <3>3. ASSUME NEW s \in HasRow' PROVE repo'[s].key \in {repo'[s].name, s}
        BY <2>2, <2>3, <3>2, <3>3 DEF RepoRows, HasRow
      <3>4. former' \in [Names -> Repos \cup {None}]
        BY <1>4 DEF RepoRows
      <3> QED
        BY <1>1, <1>2, <1>4, <2>3, <3>1, <3>3, <3>4 DEF RepoRows
    <2>9. OldNamesLeadOn'
      BY <1>1, <1>4 DEF OldNamesLeadOn, RepoRows
    <2>10. ASSUME ~crossed PROVE DirsInHand'
      <3>1. TouchesItsOwn(q)
        BY <1>1 DEF TouchesItsOwn
      <3>2. \A p \in Clients \ {q} : op[p].pc \in Away => op[p].repo # r
        BY <1>1 DEF MakersAlone, Making, Away
      <3>3. dir'[repo'[r].key] = r
        BY <1>1, <2>2, <2>10 DEF DirsInHand, Placed
      <3>4. \A s \in HasRow' : s # r => s \in HasRow /\ repo'[s] = repo[s]
        BY <2>2, <2>3 DEF HasRow
      <3> QED
        BY <1>1, <2>1, <2>5, <2>10, <3>1, <3>2, <3>3, <3>4, RestingHasNothing, OneKeepsDirs DEF Away
    <2> QED
      BY <1>1, <2>5, <2>6, <2>7, <2>8, <2>9, <2>10
  <1> QED
    BY <1>3, <1>4 DEF InsertRow

LEMMA UndoKeeps ==
  ASSUME ReposInv, NEW q \in Clients, Undo(q)
  PROVE  ReposInv'
  <1> USE DEF ReposInv
  <1> DEFINE k == op[q].key
  <1>1. op[q].pc = "undo" /\ UNCHANGED <<repo, redirect, former, mishaps, ids, severed, crossed>> /\ RemoveBareRepo(k)
    BY DEF Undo, Store
  <1>2. RepoRows' /\ HasRow' = HasRow
    BY <1>1, SameRows DEF RepoRows
  <1>3. k \in Keys
    BY <1>1, InHand
  <1>4. OldNamesLeadOn'
    BY <1>1 DEF OldNamesLeadOn
  <1>5. Step(q, Resting) /\ Resting \in Task /\ Equipped(Resting)' /\ Resting.pc = "new"
    BY RestingIsTask, RestingIsEquipped DEF Answered, Undo
  <1>6. Tasks' /\ op'[q] = Resting /\ \A p \in Clients \ {q} : op'[p] = op[p]
    BY <1>1, <1>2, <1>5, OneTurns DEF Adds
  <1>7. MakersAlone'
    BY <1>1, <1>2, <1>5, <1>6, MakersKeep DEF Adds, Making
  <1>8. /\ dir' \in [Keys -> Repos \cup {"empty", None}]
        /\ \A l \in Keys : dir'[l] = dir[l] \/ dir'[l] \in {"empty", None}
        /\ \A l \in Keys : l # k => dir'[l] = dir[l]
    BY <1>1, <1>3, NoPutKeeps DEF RemoveBareRepo
  <1>9. OnePlace'
    BY <1>1, <1>5, <1>6, <1>8, FewerPlaces
  <1>10. ASSUME ~crossed PROVE DirsInHand'
    <2>1. dir[k] = op[q].repo
      BY <1>1, <1>10 DEF DirsInHand, Placed
    <2>2. TouchesItsOwn(q)
      BY <1>8, <2>1 DEF TouchesItsOwn
    <2>3. /\ op[q].repo \notin HasRow
          /\ \A p \in Clients \ {q} : op[p].pc \in Away => op[p].repo # op[q].repo
      BY <1>1 DEF MakersAlone, Making, Away
    <2> QED
      BY <1>1, <1>2, <1>5, <1>6, <1>10, <2>2, <2>3, RestingHasNothing, OneKeepsDirs DEF Away
  <1> QED
    BY <1>1, <1>2, <1>4, <1>6, <1>7, <1>9, <1>10

LEMMA CloneMirrorKeeps ==
  ASSUME ReposInv, NEW q \in Clients, CloneMirror(q)
  PROVE  ReposInv'
  <1> USE DEF ReposInv
  <1> DEFINE k == op[q].key
             r == op[q].repo
  <1>1. /\ op[q].pc = "clone" /\ UNCHANGED <<repo, redirect, former, mishaps, ids, severed, crossed>>
        /\ dir' = [dir EXCEPT ![k] = r]
    BY DEF CloneMirror, Store
  <1>2. RepoRows' /\ HasRow' = HasRow
    BY <1>1, SameRows DEF RepoRows
  <1>3. k \in Keys /\ k = r /\ r \in ids /\ r \in Repos /\ op[q].name \in Names /\ k \in Repos
    BY <1>1, InHand DEF Equipped, Making
  <1>4. OldNamesLeadOn'
    BY <1>1 DEF OldNamesLeadOn
  <1>5. PICK t \in Task : Step(q, t) /\ t.pc = "insertFork" /\ t.repo = r /\ t.key = k /\ t.name = op[q].name
    BY ToPc DEF Making, CloneMirror
  <1>6. Equipped(t)'
    BY <1>1, <1>3, <1>5 DEF Equipped, Making, Renaming
  <1>7. Tasks' /\ op'[q] = t /\ \A p \in Clients \ {q} : op'[p] = op[p]
    BY <1>1, <1>2, <1>5, <1>6, OneTurns DEF Adds
  <1>8. MakersAlone'
    BY <1>1, <1>2, <1>5, <1>7, MakersKeep DEF Adds, Making
  <1>9. /\ dir' \in [Keys -> Repos \cup {"empty", None}] /\ dir'[k] = r
        /\ \A l \in Keys : dir'[l] = dir[l] \/ (l = k /\ dir'[l] = r)
    BY <1>1, <1>3 DEF OnePlace
  <1>10. OnePlace'
    <2>1. \A l \in Keys : dir[l] # r
      BY <1>1 DEF OnePlace
    <2>2. \A p \in Clients \ {q} : op[p].pc \in {"claim", "init", "clone"} => op[p].repo # r
      BY <1>1 DEF MakersAlone, Making
    <2>3. \A l, m \in Keys : dir'[l] = dir'[m] /\ dir'[l] \in Repos => l = m
      BY <1>9, <2>1 DEF OnePlace
    <2>4. \A l \in Keys : dir'[l] \in Repos => dir'[l] \in ids'
      BY <1>1, <1>3, <1>9 DEF OnePlace
    <2>5. \A p \in Clients : op'[p].pc \in {"claim", "init", "clone"} => \A l \in Keys : dir'[l] # op'[p].repo
      BY <1>5, <1>7, <1>9, <2>2 DEF OnePlace
    <2> QED
      BY <1>9, <2>3, <2>4, <2>5 DEF OnePlace
  <1>11. ASSUME ~crossed PROVE DirsInHand'
    <2>1. TouchesItsOwn(q)
      BY <1>3, <1>9 DEF TouchesItsOwn
    <2>2. /\ op[q].repo \notin HasRow
          /\ \A p \in Clients \ {q} : op[p].pc \in Away => op[p].repo # op[q].repo
      BY <1>1 DEF MakersAlone, Making, Away
    <2>3. Placed(t)'
      BY <1>5, <1>9 DEF Placed, Away
    <2>4. t.pc # "init" /\ t.pc \notin Away
      BY <1>5 DEF Away
    <2> QED
      BY <1>1, <1>2, <1>7, <1>11, <2>1, <2>2, <2>3, <2>4, OneKeepsDirs
  <1> QED
    BY <1>1, <1>2, <1>4, <1>7, <1>8, <1>10, <1>11

-----------------------------------------------------------------------------
(***************************************************************************)
(* Renaming                                                                *)
(***************************************************************************)
LEMMA BeginRenameKeeps ==
  ASSUME ReposInv, NEW q \in Clients, NEW r \in Repos, NEW n \in Names, NEW legacy \in BOOLEAN,
         BeginRename(q, r, n, legacy)
  PROVE  ReposInv'
  <1> USE DEF ReposInv
  <1>1. /\ op[q].pc = "new" /\ r \in HasRow /\ repo[r].name # n
        /\ UNCHANGED <<repo, redirect, former, dir, mishaps, ids, severed, crossed>>
    BY DEF BeginRename, Store
  <1>2. /\ repo[r].name \in Names /\ repo[r].key \in Keys /\ repo[r].key \in {repo[r].name, r} /\ r \in ids
        /\ repo[r].key # n /\ (repo[r].key \in Repos => repo[r].key = r)
    BY <1>1, KeysAreApart DEF RepoRows, HasRow
  <1>3. PICK t \in Task : /\ Step(q, t) /\ t.pc = "access" /\ t.repo = r
                         /\ t.old = repo[r].name /\ t.key = repo[r].key /\ t.name = n
    <2> DEFINE t == [pc |-> "access", repo |-> r, old |-> repo[r].name, key |-> repo[r].key,
                     name |-> n, legacy |-> legacy]
    <2>1. t \in Task
      BY <1>2 DEF Task
    <2>2. Step(q, t)
      BY DEF BeginRename
    <2>3. /\ t.pc = "access" /\ t.repo = r /\ t.old = repo[r].name /\ t.key = repo[r].key /\ t.name = n
      OBVIOUS
    <2> HIDE DEF t
    <2> QED
      BY <2>1, <2>2, <2>3
  <1>4. Equipped(t)'
    BY <1>1, <1>2, <1>3 DEF Equipped, Making, Renaming
  <1>5. GoesOn(op[q], t)
    BY <1>1, <1>3 DEF GoesOn, Away
  <1>6. RepoRows'
    BY <1>1, SameRows DEF RepoRows
  <1> QED
    BY <1>1, <1>3, <1>4, <1>5, <1>6, OnlyTurns

LEMMA AccessKeeps ==
  ASSUME ReposInv, NEW q \in Clients, Access(q)
  PROVE  ReposInv'
  <1> USE DEF ReposInv
  <1>1. op[q].pc = "access" /\ UNCHANGED <<repo, redirect, former, dir, mishaps, ids, severed, crossed>>
    BY DEF Access, Store
  <1>2. RepoRows' /\ HasRow' = HasRow
    BY <1>1, SameRows DEF RepoRows
  <1>3. CASE Answered(q)
    BY <1>1, <1>2, <1>3, JustEnds DEF Away
  <1>4. CASE Next_pc(q, "move")
    <2>1. PICK t \in Task : /\ Step(q, t) /\ t.pc = "move" /\ t.repo = op[q].repo /\ t.key = op[q].key
                            /\ t.name = op[q].name /\ t.old = op[q].old
      BY <1>4, ToPc DEF Renaming
    <2>2. Equipped(t)'
      BY <1>1, <2>1, InHand DEF Equipped, Making, Renaming
    <2>3. GoesOn(op[q], t)
      BY <1>1, <2>1 DEF GoesOn, Away
    <2> QED
      BY <1>1, <1>2, <2>1, <2>2, <2>3, OnlyTurns
  <1> QED
    BY <1>3, <1>4 DEF Access

LEMMA SwapMoves ==
  ASSUME ReposInv, NEW from \in Keys, NEW to \in Keys, from # to, Swap(from, to)
  PROVE  /\ dir' \in [Keys -> Repos \cup {"empty", None}]
         /\ dir'[to] = dir[from] /\ dir'[from] = None
         /\ \A k \in Keys : k \notin {from, to} => dir'[k] = dir[k]
  BY DEF ReposInv, OnePlace, Swap

LEMMA SwapKeepsPlaces ==
  ASSUME ReposInv, NEW from \in Keys, NEW to \in Keys, from # to, Swap(from, to),
         NEW q \in Clients, NEW t, op'[q] = t, \A p \in Clients \ {q} : op'[p] = op[p],
         t.pc \notin {"claim", "init", "clone"}, UNCHANGED ids
  PROVE  OnePlace'
  <1> USE DEF ReposInv
  <1>1. /\ dir' \in [Keys -> Repos \cup {"empty", None}]
        /\ dir'[to] = dir[from] /\ dir'[from] = None
        /\ \A k \in Keys : k \notin {from, to} => dir'[k] = dir[k]
    BY SwapMoves
  <1>2. None \notin Repos
    BY KeysAreApart
  <1>3. \A l, m \in Keys : dir'[l] = dir'[m] /\ dir'[l] \in Repos => l = m
    BY <1>1, <1>2 DEF OnePlace
  <1>4. \A l \in Keys : dir'[l] \in Repos => dir'[l] \in ids'
    BY <1>1, <1>2 DEF OnePlace
  <1>5. ASSUME NEW p \in Clients, op'[p].pc \in {"claim", "init", "clone"}, NEW l \in Keys PROVE dir'[l] # op'[p].repo
    <2>1. p # q /\ op'[p] = op[p] /\ \A m \in Keys : dir[m] # op[p].repo
      BY <1>5 DEF OnePlace
    <2>2. op[p].repo # None
      BY <1>5, <2>1, InHand
    <2> QED
      BY <1>1, <2>1, <2>2
  <1> QED
    BY <1>1, <1>3, <1>4, <1>5 DEF OnePlace

LEMMA MoveKeeps ==
  ASSUME ReposInv, NEW q \in Clients, Move(q)
  PROVE  ReposInv'
  <1> USE DEF ReposInv
  <1> DEFINE r == op[q].repo
             from == op[q].key
             to == op[q].name
  <1>1. op[q].pc = "move" /\ UNCHANGED <<repo, redirect, former, mishaps, ids, severed>>
    BY DEF Move, Store
  <1>2. /\ from \in Keys /\ to \in Keys /\ to \in Names /\ from # to /\ Equipped(op[q]) /\ r \in Repos
        /\ r \in ids /\ r # None /\ r # "empty" /\ op[q].old \in Names /\ (from \in Repos => from = r)
    BY <1>1, InHand DEF Equipped, Renaming
  <1>3. CASE Answered(q) /\ UNCHANGED <<dir, crossed>>
    <2>1. RepoRows'
      BY <1>1, <1>3, SameRows DEF RepoRows
    <2> QED
      BY <1>1, <1>3, <2>1, JustEnds DEF Away
  <1>4. CASE ~(dir[from] = None \/ dir[to] \notin {None, "empty"})
    <2>1. /\ Next_pc(q, "commit") /\ Swap(from, to)
          /\ crossed' = (\/ crossed \/ dir[from] # r \/ dir[to] = "empty"
                         \/ \E p \in Busy \ {q} : op[p].repo = r /\ op[p].pc \in {"commit", "back"})
      BY <1>4 DEF Move
    <2>2. PICK t \in Task : /\ Step(q, t) /\ t.pc = "commit" /\ t.repo = r /\ t.key = from /\ t.name = to
                            /\ t.old = op[q].old
      BY <2>1, ToPc DEF Renaming
    <2>3. RepoRows' /\ HasRow' = HasRow
      <3>1. crossed' \in BOOLEAN
        BY <2>1
      <3> QED
        BY <1>1, <3>1, SameRows DEF RepoRows
    <2>4. Equipped(t)'
      BY <1>1, <1>2, <2>2 DEF Equipped, Making, Renaming
    <2>5. Tasks' /\ op'[q] = t /\ \A p \in Clients \ {q} : op'[p] = op[p]
      BY <1>1, <2>2, <2>3, <2>4, OneTurns DEF Adds
    <2>6. MakersAlone'
      BY <1>1, <2>2, <2>3, <2>5, MakersKeep DEF Adds, Making
    <2>7. OnePlace'
      BY <1>1, <1>2, <2>1, <2>2, <2>5, SwapKeepsPlaces
    <2>8. OldNamesLeadOn'
      BY <1>1 DEF OldNamesLeadOn
    <2>9. ASSUME ~crossed' PROVE DirsInHand'
      <3>1. /\ ~crossed /\ DirsInHand /\ dir[from] = r /\ dir[to] = None
            /\ \A p \in Busy \ {q} : op[p].repo = r => op[p].pc \notin {"commit", "back"}
        BY <1>4, <2>1, <2>9 DEF RepoRows
      <3>2. /\ dir'[to] = r /\ dir'[from] = None
            /\ \A k \in Keys : k \notin {from, to} => dir'[k] = dir[k]
        BY <1>2, <2>1, <3>1, SwapMoves
      <3>3. TouchesItsOwn(q)
        BY <3>1, <3>2 DEF TouchesItsOwn
      <3>4. \A p \in Clients \ {q} : op[p].pc \in Away => op[p].repo # r
        BY <3>1, RestingIsTask DEF Away, Busy
      <3>5. r \in HasRow \ severed => repo[r].key = from
        <4>1. SUFFICES ASSUME r \in HasRow \ severed PROVE repo[r].key = from
          OBVIOUS
        <4>2. dir[repo[r].key] = r /\ repo[r].key \in Keys
          BY <1>1, <3>1, <3>4, <4>1 DEF DirsInHand, RepoRows, HasRow, Away
        <4> QED
          BY <1>2, <3>1, <4>2 DEF OnePlace
      <3>6. Placed(t)'
        BY <1>1, <2>2, <2>3, <3>2, <3>5 DEF Placed
      <3>7. t.pc \in Away /\ t.pc # "init"
        BY <2>2 DEF Away
      <3> QED
        BY <1>1, <2>2, <2>3, <2>5, <3>1, <3>3, <3>4, <3>6, <3>7, OneKeepsDirs
    <2> QED
      BY <1>1, <2>3, <2>5, <2>6, <2>7, <2>8, <2>9
  <1> QED
    BY <1>3, <1>4 DEF Move

LEMMA CommitKeeps ==
  ASSUME ReposInv, NEW q \in Clients, Commit(q)
  PROVE  ReposInv'
  <1> USE DEF ReposInv
  <1> DEFINE r == op[q].repo
             from == op[q].key
             to == op[q].name
             old == op[q].old
  <1>1. op[q].pc = "commit" /\ UNCHANGED <<dir, ids, severed, crossed>>
    BY DEF Commit
  <1>2. /\ from \in Keys /\ to \in Keys /\ to \in Names /\ from # to /\ Equipped(op[q]) /\ r \in Repos
        /\ r \in ids /\ r # None /\ r # "empty" /\ old \in Names
    BY <1>1, InHand DEF Equipped, Renaming
  <1>3. CASE Next_pc(q, "back") /\ UNCHANGED <<repo, redirect, former>> /\ (Mishap \/ UNCHANGED mishaps)
    <2>1. PICK t \in Task : Step(q, t) /\ t.pc = "back" /\ t.repo = r /\ t.key = from /\ t.name = to /\ t.old = old
      BY <1>3, ToPc DEF Renaming
    <2>2. Equipped(t)'
      BY <1>1, <1>2, <2>1 DEF Equipped, Making, Renaming
    <2>3. GoesOn(op[q], t)
      BY <1>1, <2>1 DEF GoesOn, Away
    <2>4. RepoRows'
      BY <1>1, <1>3, SameRows DEF RepoRows
    <2> QED
      BY <1>1, <1>3, <2>1, <2>2, <2>3, <2>4, OnlyTurns
  <1>4. CASE /\ r \in HasRow /\ Answered(q)
             /\ repo' = [repo EXCEPT ![r] = [name |-> to, key |-> to]]
             /\ redirect' = (IF op[q].legacy THEN redirect ELSE Redirects(op[q], r))
             /\ former' = [former EXCEPT ![to] = None, ![old] = IF op[q].legacy THEN None ELSE r]
             /\ UNCHANGED mishaps
    <2>1. Step(q, Resting) /\ Resting \in Task /\ Equipped(Resting)' /\ Resting.pc = "new"
      BY <1>4, RestingIsTask, RestingIsEquipped DEF Answered
    <2>2. repo'[r] = [name |-> to, key |-> to] /\ \A s \in Repos \ {r} : repo'[s] = repo[s]
      BY <1>2, <1>4 DEF RepoRows
    <2>3. HasRow' \subseteq HasRow
      BY <1>4, <2>2 DEF HasRow
    <2>4. Tasks' /\ op'[q] = Resting /\ \A p \in Clients \ {q} : op'[p] = op[p]
      BY <1>1, <2>1, <2>3, OneTurns DEF Adds
    <2>5. MakersAlone'
      BY <2>1, <2>3, <2>4, MakersKeep DEF Making, Adds
    <2>6. OnePlace'
      BY <1>1, <2>1, <2>4, FewerPlaces DEF OnePlace
    <2>7. RepoRows'
      <3>1. repo' \in [Repos -> [name: Names, key: Keys] \cup {None}]
        BY <1>2, <1>4 DEF RepoRows
      <3>2. ASSUME NEW s \in HasRow' PROVE repo'[s].key \in {repo'[s].name, s}
        BY <2>2, <2>3, <3>2 DEF RepoRows, HasRow
      <3>3. former' \in [Names -> Repos \cup {None}]
        BY <1>2, <1>4 DEF RepoRows
      <3>4. redirect' \in [Names -> Repos \cup {None}]
        BY <1>2, <1>4 DEF RepoRows, Redirects
      <3> QED
        BY <1>1, <1>4, <2>3, <3>1, <3>2, <3>3, <3>4 DEF RepoRows
    <2>8. OldNamesLeadOn'
      BY <1>2, <1>4 DEF OldNamesLeadOn, RepoRows, Redirects
    <2>9. ASSUME ~crossed PROVE DirsInHand'
      <3>1. TouchesItsOwn(q)
        BY <1>1 DEF TouchesItsOwn
      <3>2. \A p \in Clients \ {q} : op[p].pc \in Away => op[p].repo # r
        BY <1>1, <2>9 DEF DirsInHand, Away
      <3>3. dir'[repo'[r].key] = r
        <4>1. dir[to] = r
          BY <1>1, <1>4, <2>9 DEF DirsInHand, Placed, Away
        <4>2. repo'[r].key = to
          BY <2>2
        <4> QED
          BY <1>1, <4>1, <4>2
      <3>4. \A s \in HasRow' : s # r => s \in HasRow /\ repo'[s] = repo[s]
        BY <2>2, <2>3 DEF HasRow
      <3> QED
        BY <1>1, <2>1, <2>4, <2>9, <3>1, <3>2, <3>3, <3>4, RestingHasNothing, OneKeepsDirs DEF Away
    <2> QED
      BY <1>1, <2>4, <2>5, <2>6, <2>7, <2>8, <2>9
  <1> QED
    BY <1>3, <1>4 DEF Commit, Store

LEMMA MoveBackKeeps ==
  ASSUME ReposInv, NEW q \in Clients, MoveBack(q)
  PROVE  ReposInv'
  <1> USE DEF ReposInv
  <1> DEFINE r == op[q].repo
             from == op[q].key
             to == op[q].name
  <1>1. op[q].pc = "back" /\ Answered(q) /\ UNCHANGED <<repo, redirect, former, mishaps, ids>>
    BY DEF MoveBack, Store
  <1>2. /\ from \in Keys /\ to \in Keys /\ from # to /\ r \in Repos /\ r \in ids /\ r # None /\ r # "empty"
    BY <1>1, InHand DEF Equipped, Renaming
  <1>3. CASE UNCHANGED <<dir, crossed>> /\ severed' = severed \cup {r}
    <2>1. RepoRows'
      BY <1>1, <1>2, <1>3, SameRows DEF RepoRows
    <2> QED
      BY <1>1, <1>3, <2>1, JustEnds
  <1>4. CASE /\ dir[from] = None /\ dir[to] # None /\ Swap(to, from) /\ UNCHANGED severed
             /\ crossed' = (crossed \/ dir[to] # r)
    <2>1. Step(q, Resting) /\ Resting \in Task /\ Equipped(Resting)' /\ Resting.pc = "new"
      BY <1>1, RestingIsTask, RestingIsEquipped DEF Answered
    <2>2. RepoRows' /\ HasRow' = HasRow
      <3>1. crossed' \in BOOLEAN
        BY <1>4
      <3> QED
        BY <1>1, <1>4, <3>1, SameRows DEF RepoRows
    <2>3. Tasks' /\ op'[q] = Resting /\ \A p \in Clients \ {q} : op'[p] = op[p]
      BY <1>1, <2>1, <2>2, OneTurns DEF Adds
    <2>4. MakersAlone'
      BY <2>1, <2>2, <2>3, MakersKeep DEF Making, Adds
    <2>5. OnePlace'
      BY <1>1, <1>2, <1>4, <2>1, <2>3, SwapKeepsPlaces
    <2>6. OldNamesLeadOn'
      BY <1>1 DEF OldNamesLeadOn
    <2>7. ASSUME ~crossed' PROVE DirsInHand'
      <3>1. ~crossed /\ DirsInHand /\ dir[to] = r
        BY <1>4, <2>7 DEF RepoRows
      <3>2. /\ dir'[from] = r /\ dir'[to] = None
            /\ \A k \in Keys : k \notin {from, to} => dir'[k] = dir[k]
        BY <1>2, <1>4, <3>1, SwapMoves
      <3>3. TouchesItsOwn(q)
        BY <1>4, <3>1, <3>2 DEF TouchesItsOwn
      <3>4. \A p \in Clients \ {q} : op[p].pc \in Away => op[p].repo # r
        BY <1>1, <3>1 DEF DirsInHand, Away
      <3>5. r \in HasRow' \ severed' => dir'[repo'[r].key] = r
        BY <1>1, <1>4, <2>2, <3>1, <3>2 DEF DirsInHand, Placed, Away
      <3> QED
        BY <1>1, <1>4, <2>1, <2>2, <2>3, <3>1, <3>3, <3>4, <3>5, RestingHasNothing, OneKeepsDirs DEF Away
    <2> QED
      BY <1>1, <2>2, <2>3, <2>4, <2>5, <2>6, <2>7
  <1> QED
    BY <1>3, <1>4 DEF MoveBack

-----------------------------------------------------------------------------
(***************************************************************************)
(* Deleting, and being cut short                                           *)
(***************************************************************************)
LEMMA BeginDeleteRepoKeeps ==
  ASSUME ReposInv, NEW q \in Clients, NEW r \in Repos, BeginDeleteRepo(q, r)
  PROVE  ReposInv'
  <1> USE DEF ReposInv
  <1>1. /\ op[q].pc = "new" /\ r \in HasRow
        /\ UNCHANGED <<repo, redirect, former, dir, mishaps, ids, severed, crossed>>
    BY DEF BeginDeleteRepo, Store
  <1>2. repo[r].key \in Keys /\ r \in ids /\ (repo[r].key \in Repos => repo[r].key = r)
    BY <1>1, KeysAreApart DEF RepoRows, HasRow
  <1>3. PICK t \in Task : Step(q, t) /\ t.pc = "drop" /\ t.repo = r /\ t.key = repo[r].key
    <2> DEFINE t == [Resting EXCEPT !.pc = "drop", !.repo = r, !.key = repo[r].key]
    <2>1. t \in Task
      BY <1>2, RestingIsTask DEF Task
    <2>2. Step(q, t)
      BY DEF BeginDeleteRepo
    <2>3. t.pc = "drop" /\ t.repo = r /\ t.key = repo[r].key
      BY DEF Resting
    <2> HIDE DEF t
    <2> QED
      BY <2>1, <2>2, <2>3
  <1>4. Equipped(t)'
    BY <1>1, <1>2, <1>3 DEF Equipped, Making, Renaming
  <1>5. GoesOn(op[q], t)
    BY <1>1, <1>3 DEF GoesOn, Away
  <1>6. RepoRows'
    BY <1>1, SameRows DEF RepoRows
  <1> QED
    BY <1>1, <1>3, <1>4, <1>5, <1>6, OnlyTurns

LEMMA DropRowKeeps ==
  ASSUME ReposInv, NEW q \in Clients, DropRow(q)
  PROVE  ReposInv'
  <1> USE DEF ReposInv
  <1> DEFINE r == op[q].repo
  <1>1. op[q].pc = "drop" /\ UNCHANGED <<dir, mishaps, ids, severed, crossed>>
    BY DEF DropRow
  <1>2. /\ op[q].key \in Keys /\ r \in Repos /\ r \in ids /\ r # None
        /\ (op[q].key \in Repos => op[q].key = r)
    BY <1>1, InHand DEF Equipped
  <1>3. CASE r \notin HasRow
    <2>1. Answered(q) /\ UNCHANGED <<repo, redirect, former>>
      BY <1>3 DEF DropRow, Store
    <2>2. RepoRows'
      BY <1>1, <2>1, SameRows DEF RepoRows
    <2> QED
      BY <1>1, <2>1, <2>2, JustEnds DEF Away
  <1>4. CASE r \in HasRow
    <2>1. /\ Next_pc(q, "rm")
          /\ repo' = [repo EXCEPT ![r] = None]
          /\ redirect' = [n \in Names |-> IF redirect[n] = r THEN None ELSE redirect[n]]
          /\ former' = [n \in Names |-> IF former[n] = r THEN None ELSE former[n]]
      BY <1>4 DEF DropRow
    <2>2. PICK t \in Task : Step(q, t) /\ t.pc = "rm" /\ t.repo = r /\ t.key = op[q].key
      BY <2>1, ToPc
    <2>3. repo'[r] = None /\ (\A s \in Repos \ {r} : repo'[s] = repo[s]) /\ HasRow' = HasRow \ {r}
      BY <1>2, <2>1 DEF RepoRows, HasRow
    <2>4. Equipped(t)'
      BY <1>1, <1>2, <2>2, <2>3 DEF Equipped, Making, Renaming
    <2>5. Tasks' /\ op'[q] = t /\ \A p \in Clients \ {q} : op'[p] = op[p]
      BY <1>1, <2>2, <2>3, <2>4, OneTurns DEF Adds
    <2>6. MakersAlone'
      BY <1>1, <2>2, <2>3, <2>5, MakersKeep DEF Adds, Making
    <2>7. OnePlace'
      BY <1>1, <2>2, <2>5, FewerPlaces DEF OnePlace
    <2>8. RepoRows'
      <3>1. repo' \in [Repos -> [name: Names, key: Keys] \cup {None}]
        BY <1>2, <2>1 DEF RepoRows
      <3>2. ASSUME NEW s \in HasRow' PROVE repo'[s].key \in {repo'[s].name, s}
        BY <2>3, <3>2 DEF RepoRows, HasRow
      <3>3. redirect' \in [Names -> Repos \cup {None}] /\ former' \in [Names -> Repos \cup {None}]
        BY <2>1 DEF RepoRows
      <3> QED
        BY <1>1, <2>3, <3>1, <3>2, <3>3 DEF RepoRows
    <2>9. OldNamesLeadOn'
      <3>1. ASSUME NEW n \in Names, former'[n] # None PROVE redirect'[n] = former'[n]
        BY <2>1, <3>1 DEF OldNamesLeadOn
      <3> QED
        BY <3>1 DEF OldNamesLeadOn
    <2>10. ASSUME ~crossed PROVE DirsInHand'
      <3>1. TouchesItsOwn(q)
        BY <1>1 DEF TouchesItsOwn
      <3>2. Placed(t)' /\ t.pc # "init" /\ t.pc \notin Away
        BY <2>2 DEF Placed, Away
      <3>3. \A s \in HasRow' : s # r /\ s \in HasRow /\ repo'[s] = repo[s]
        BY <2>3 DEF HasRow
      <3> QED
        BY <1>1, <2>3, <2>5, <2>10, <3>1, <3>2, <3>3, OneKeepsDirs
    <2> QED
      BY <1>1, <2>5, <2>6, <2>7, <2>8, <2>9, <2>10
  <1> QED
    BY <1>3, <1>4

LEMMA RemoveStorageKeeps ==
  ASSUME ReposInv, NEW q \in Clients, RemoveStorage(q)
  PROVE  ReposInv'
  <1> USE DEF ReposInv
  <1> DEFINE k == op[q].key
  <1>1. /\ op[q].pc = "rm" /\ UNCHANGED <<repo, redirect, former, mishaps, ids, severed>> /\ RemoveBareRepo(k)
        /\ crossed' = (crossed \/ dir[k] \notin {op[q].repo, None})
    BY DEF RemoveStorage, Store
  <1>2. RepoRows' /\ HasRow' = HasRow
    <2>1. crossed' \in BOOLEAN
      BY <1>1
    <2> QED
      BY <1>1, <2>1, SameRows DEF RepoRows
  <1>3. k \in Keys /\ op[q].repo \notin HasRow
    BY <1>1, InHand DEF Equipped
  <1>4. OldNamesLeadOn'
    BY <1>1 DEF OldNamesLeadOn
  <1>5. Step(q, Resting) /\ Resting \in Task /\ Equipped(Resting)' /\ Resting.pc = "new"
    BY RestingIsTask, RestingIsEquipped DEF Answered, RemoveStorage
  <1>6. Tasks' /\ op'[q] = Resting /\ \A p \in Clients \ {q} : op'[p] = op[p]
    BY <1>1, <1>2, <1>5, OneTurns DEF Adds
  <1>7. MakersAlone'
    BY <1>1, <1>2, <1>5, <1>6, MakersKeep DEF Adds, Making
  <1>8. /\ dir' \in [Keys -> Repos \cup {"empty", None}]
        /\ \A l \in Keys : dir'[l] = dir[l] \/ dir'[l] \in {"empty", None}
        /\ \A l \in Keys : l # k => dir'[l] = dir[l]
    BY <1>1, <1>3, NoPutKeeps DEF RemoveBareRepo
  <1>9. OnePlace'
    BY <1>1, <1>5, <1>6, <1>8, FewerPlaces
  <1>10. ASSUME ~crossed' PROVE DirsInHand'
    <2>1. ~crossed /\ dir[k] \in {op[q].repo, None}
      BY <1>1, <1>10 DEF RepoRows
    <2>2. TouchesItsOwn(q)
      BY <1>8, <2>1 DEF TouchesItsOwn
    <2>3. \A p \in Clients \ {q} : op[p].pc \in Away /\ op[p].repo \in HasRow' => op[p].repo # op[q].repo
      BY <1>2, <1>3
    <2> QED
      BY <1>1, <1>2, <1>3, <1>5, <1>6, <2>1, <2>2, <2>3, RestingHasNothing, OneKeepsDirs DEF Away
  <1> QED
    BY <1>1, <1>2, <1>4, <1>6, <1>7, <1>9, <1>10

LEMMA CutShortKeeps ==
  ASSUME ReposInv, NEW q \in Clients, CutShort(q)
  PROVE  ReposInv'
  <1> USE DEF ReposInv
  <1>1. /\ op[q] # Resting /\ Mishap /\ Answered(q) /\ severed' = severed \cup {op[q].repo}
        /\ UNCHANGED <<repo, redirect, former, dir, ids, crossed>>
    BY DEF CutShort, Busy, Store
  <1>2. op[q].repo \in ids
    BY <1>1, InHand DEF Tasks, Equipped
  <1>3. RepoRows'
    BY <1>1, <1>2, SameRows DEF RepoRows
  <1> QED
    BY <1>1, <1>3, JustEnds

LEMMA ReposInvStep == ReposInv /\ [ReposNext]_repoVars => ReposInv'
  <1> SUFFICES ASSUME ReposInv, [ReposNext]_repoVars PROVE ReposInv'
    OBVIOUS
  <1>1. CASE UNCHANGED repoVars
    <2>1. UNCHANGED <<repo, dir, redirect, op, mishaps, ids, former, severed, crossed>>
      BY <1>1 DEF repoVars
    <2>2. HasRow' = HasRow
      BY <2>1 DEF HasRow
    <2>3. Tasks' /\ RepoRows'
      BY <2>1, <2>2 DEF ReposInv, Tasks, RepoRows, Equipped
    <2>4. MakersAlone' /\ OnePlace' /\ OldNamesLeadOn'
      BY <2>1, <2>2 DEF ReposInv, MakersAlone, OnePlace, OldNamesLeadOn
    <2>5. DirsInHand => DirsInHand'
      BY <2>1, <2>2 DEF DirsInHand, Placed
    <2> QED
      BY <2>1, <2>3, <2>4, <2>5 DEF ReposInv
  <1>2. ASSUME NEW q \in Clients, NEW n \in Names, BeginCreate(q, n) \/ BeginFork(q, n) PROVE ReposInv'
    BY <1>2, BeginMakingKeeps
  <1>3. ASSUME NEW q \in Clients, NEW r \in Repos, NEW n \in Names, NEW legacy \in BOOLEAN,
               BeginRename(q, r, n, legacy)
        PROVE  ReposInv'
    BY <1>3, BeginRenameKeeps
  <1>4. ASSUME NEW q \in Clients, NEW r \in Repos, BeginDeleteRepo(q, r) PROVE ReposInv'
    BY <1>4, BeginDeleteRepoKeeps
  <1>5. ASSUME NEW q \in Clients, Claim(q) \/ GitInit(q) \/ InsertRow(q) \/ Undo(q) \/ CloneMirror(q)
        PROVE  ReposInv'
    BY <1>5, ClaimKeeps, GitInitKeeps, InsertRowKeeps, UndoKeeps, CloneMirrorKeeps
  <1>6. ASSUME NEW q \in Clients, Access(q) \/ Move(q) \/ Commit(q) \/ MoveBack(q) PROVE ReposInv'
    BY <1>6, AccessKeeps, MoveKeeps, CommitKeeps, MoveBackKeeps
  <1>7. ASSUME NEW q \in Clients, DropRow(q) \/ RemoveStorage(q) \/ CutShort(q) PROVE ReposInv'
    BY <1>7, DropRowKeeps, RemoveStorageKeeps, CutShortKeeps
  <1> QED
    BY <1>1, <1>2, <1>3, <1>4, <1>5, <1>6, <1>7 DEF ReposNext

LEMMA ReposInvHolds == ReposSpec => []ReposInv
  BY ReposInvInit, ReposInvStep, PTL DEF ReposSpec

(***************************************************************************)
(* The two stores hold rows, directories and redirects of the right kind,  *)
(* whatever request was cut short (repos.ts, git-utils.ts).                *)
(***************************************************************************)
THEOREM ReposTypes == ReposSpec => []ReposTypeOK
  BY ReposTypesFollow, ReposInvHolds, PTL

(***************************************************************************)
(* With nothing in progress and no step that got hold of a directory of    *)
(* another, every repository that no request was cut short over has its    *)
(* own data at its key (repos.ts, createBareRepo, moveBareRepo).           *)
(***************************************************************************)
THEOREM RowsAreStored == ReposSpec => []RowsHaveTheirStorage
  <1>1. ReposInv => RowsHaveTheirStorage
    <2> SUFFICES ASSUME ReposInv, Busy = {}, ~crossed, NEW r \in HasRow \ severed PROVE dir[repo[r].key] = r
      BY DEF RowsHaveTheirStorage
    <2>1. \A q \in Clients : op[q].pc \notin Away
      BY RestingIsTask DEF Busy, Away
    <2> QED
      BY <2>1 DEF ReposInv, DirsInHand
  <1> QED
    BY <1>1, ReposInvHolds, PTL

(***************************************************************************)
(* A name that a repository gave up leads to it until another takes it     *)
(* (repos.ts, the rename route and its redirects).                         *)
(***************************************************************************)
THEOREM RedirectsLeadOn == ReposSpec => []OldNamesLeadOn
  <1>1. ReposInv => OldNamesLeadOn
    BY DEF ReposInv
  <1> QED
    BY <1>1, ReposInvHolds, PTL

-----------------------------------------------------------------------------
(***************************************************************************)
(* The three together (MCAccess)                                           *)
(***************************************************************************)
LEMMA PartsAreTheirOwn == MCSpec => RulesSpec /\ ReposSpec /\ OrgSpec
  <1>1. MCInit => RulesInit /\ ReposInit /\ OrgInit
    BY DEF MCInit
  <1> DEFINE vars == <<part, rulesVars, repoVars, orgVars>>
  <1>2. [MCNext]_vars => [RulesNext]_rulesVars
    BY DEF MCNext
  <1>3. [MCNext]_vars => [ReposNext]_repoVars
    BY DEF MCNext
  <1>4. [MCNext]_vars => [OrgNext]_orgVars
    BY DEF MCNext
  <1> QED
    BY <1>1, <1>2, <1>3, <1>4, PTL DEF MCSpec, RulesSpec, ReposSpec, OrgSpec

(***************************************************************************)
(* The rules, the repositories and the organization together keep the      *)
(* types that the schema and the handlers promise.                         *)
(***************************************************************************)
THEOREM AccessTypes == MCSpec => []AccessTypeOK
  <1>1. RulesTypeOK /\ ReposTypeOK /\ OrgTypeOK => AccessTypeOK
    BY DEF AccessTypeOK
  <1> QED
    BY <1>1, PartsAreTheirOwn, RulesTypes, ReposTypes, OrgTypes, PTL
=============================================================================

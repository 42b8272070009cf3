-------------------------------- MODULE Orgs --------------------------------
(***************************************************************************)
(* One organization, a team of it, and who may do what in a repository it  *)
(* owns.  Every handler decides on the memberships as it read them, and    *)
(* writes later; a collaborator comes and goes with a subscription.        *)
(***************************************************************************)
EXTENDS Handlers

CONSTANTS
  Users,
  Granted,     \* roles handed out in the repository
  Creator      \* of the organization and of the repository

ASSUME CreatorIsUser == Creator \in Users
ASSUME GrantedRoles == Granted \subseteq {"READER", "WRITER"}
ASSUME NoneIsNoRole == None \notin {"MEMBER", "OWNER"}

VARIABLES
  member,      \* OrgMembership of each user
  onTeam,      \* TeamMembership rows
  grant,       \* TeamRepoAccess of the team
  collab,      \* RepoCollaborator of each user
  watching,    \* users with a Watch row for the repository
  public,      \* visibility
  job,         \* requests: what the handler read, and what it is about to write
  troubles,    \* bound
  stale,       \* history: a write that took an owner's role relied on owners who no longer are
  late,        \* history: users put on the team after they had left
  kept         \* history: users who may have kept a subscription without access

orgVars == <<member, onTeam, grant, collab, watching, public, job, troubles, stale, late, kept>>

OrgRoles == {"MEMBER", "OWNER"}
Ready == [pc |-> "new", user |-> None, role |-> None, owners |-> {}]
AtWork == {k \in Clients : job[k] # Ready}
Owners == {u \in Users : member[u] = "OWNER"}
Members == {u \in Users : member[u] # None}

OrgTypeOK ==
  /\ member \in [Users -> OrgRoles \cup {None}] /\ onTeam \subseteq Users
  /\ grant \in Granted \cup {None} /\ collab \in [Users -> Granted \cup {None}]
  /\ watching \subseteq Users /\ public \in BOOLEAN
  /\ job \in [Clients -> [pc: {"new", "setRole", "change", "remove", "team", "watch", "prune", "unwatch"},
                          user: Users \cup {None}, role: OrgRoles \cup {None}, owners: SUBSET Users]]
  /\ troubles \in 0..MaxFaults
  /\ stale \in BOOLEAN /\ late \subseteq Users /\ kept \subseteq Users

OrgInit ==
  /\ member = [u \in Users |-> IF u = Creator THEN "OWNER" ELSE None]
  /\ onTeam = {} /\ grant = None /\ collab = [u \in Users |-> None]
  /\ watching = {Creator} /\ public \in BOOLEAN
  /\ job = [k \in Clients |-> Ready]
  /\ troubles = 0 /\ stale = FALSE /\ late = {} /\ kept = {}

Turns(k, t) == job' = [job EXCEPT ![k] = t]
Ends(k) == Turns(k, Ready)
\* loadOrgForManage: an owner asks, and the memberships are read.
Loads(k, pc, u, r) ==
  /\ job[k].pc = "new" /\ Owners # {}
  /\ Turns(k, [pc |-> pc, user |-> u, role |-> r, owners |-> IF pc \in {"change", "remove"} THEN Owners ELSE {}])
  /\ UNCHANGED <<member, onTeam, grant, collab, watching, public, troubles, stale, late, kept>>

-----------------------------------------------------------------------------
(***************************************************************************)
(* Access to the repository: what may be read, written, administered       *)
(***************************************************************************)
CanAdmin(u) == member[u] = "OWNER"
CanWrite(u) == u = Creator \/ collab[u] = "WRITER" \/ CanAdmin(u) \/ (u \in onTeam /\ grant = "WRITER")
CanRead(u) == public \/ CanWrite(u) \/ collab[u] = "READER" \/ (u \in onTeam /\ grant = "READER")

\* Who loses access by a step that does not look at subscriptions.
Strands == kept' = kept \cup {u \in Users : CanRead(u) /\ ~CanRead(u)'}

-----------------------------------------------------------------------------
(***************************************************************************)
(* Members                                                                 *)
(***************************************************************************)
\* mutant: the guard counts one too few
CountsBelow(u, r) == u \in Owners /\ Owners = {} /\ r # "OWNER"
\* An organization must always have at least one owner.
LastOwner(u, r) == u \in Owners /\ Owners = {u} /\ r # "OWNER"

LoadAdd(k, u, r) == Loads(k, "setRole", u, r)
LoadChange(k, u, r) == u \in Members /\ ~LastOwner(u, r) /\ Loads(k, "change", u, r)
LoadRemove(k, u) == u \in Members /\ ~LastOwner(u, None) /\ Loads(k, "remove", u, None)

TakesOwner(k) == LET t == job[k] IN
  stale' = (stale \/ (member[t.user] = "OWNER" /\ ~(t.owners \subseteq Owners)))

\* POST .../members is an upsert that asks nothing of the role it replaces.
AddMember(k) == LET t == job[k] IN
  /\ t.pc = "setRole" /\ Ends(k)
  /\ member' = [member EXCEPT ![t.user] = t.role]
  /\ stale' = (stale \/ (member[t.user] = "OWNER" /\ t.role # "OWNER"))
  /\ UNCHANGED <<onTeam, grant, collab, watching, public, troubles, late>>
  /\ Strands

ChangeRole(k) == LET t == job[k] IN
  /\ t.pc = "change" /\ Ends(k)
  /\ IF t.user \notin Members THEN UNCHANGED <<member, stale>>
     ELSE /\ member' = [member EXCEPT ![t.user] = t.role]
          /\ IF t.role = "OWNER" THEN UNCHANGED stale ELSE TakesOwner(k)
  /\ UNCHANGED <<onTeam, grant, collab, watching, public, troubles, late>>
  /\ Strands

\* The teams and the membership in one transaction.
RemoveMember(k) == LET t == job[k] IN
  /\ t.pc = "remove" /\ Ends(k)
  /\ IF t.user \notin Members THEN UNCHANGED <<member, onTeam, stale>>
     ELSE /\ member' = [member EXCEPT ![t.user] = None] /\ TakesOwner(k)
          /\ onTeam' = onTeam \ {t.user}
  /\ UNCHANGED <<grant, collab, watching, public, troubles, late>>
  /\ Strands

-----------------------------------------------------------------------------
(***************************************************************************)
(* The team and its grant                                                  *)
(***************************************************************************)
LoadTeamAdd(k, u) == u \in Members /\ Loads(k, "team", u, None)

AddToTeam(k) == LET u == job[k].user IN
  /\ job[k].pc = "team" /\ Ends(k)
  /\ onTeam' = onTeam \cup {u}
  /\ late' = IF u \in Members THEN late ELSE late \cup {u}
  /\ UNCHANGED <<member, grant, collab, watching, public, troubles, stale, kept>>

\* Each of these writes what it does, whatever it read.
LeaveTeam(u) ==
  /\ u \in onTeam /\ Owners # {}
  /\ onTeam' = onTeam \ {u} /\ late' = late \ {u}
  /\ UNCHANGED <<member, grant, collab, watching, public, job, troubles, stale>>
  /\ Strands

SetGrant(role) ==
  /\ Owners # {} /\ grant' = role /\ grant' # grant
  /\ UNCHANGED <<member, onTeam, collab, watching, public, job, troubles, stale, late>>
  /\ Strands

\* An addition to the team that is under way fails on the row that is gone.
DeleteTeam ==
  /\ Owners # {} /\ (onTeam # {} \/ grant # None)
  /\ onTeam' = {} /\ grant' = None /\ late' = {}
  /\ job' = [k \in Clients |-> IF job[k].pc = "team" THEN Ready ELSE job[k]]
  /\ UNCHANGED <<member, collab, watching, public, troubles, stale>>
  /\ Strands

SetVisibility ==
  /\ Owners # {} /\ public' = ~public
  /\ UNCHANGED <<member, onTeam, grant, collab, watching, job, troubles, stale, late>>
  /\ Strands

-----------------------------------------------------------------------------
(***************************************************************************)
(* Collaborators, and the subscription that comes with the grant           *)
(***************************************************************************)
AddCollaborator(k, u, role) ==
  /\ job[k].pc = "new" /\ Owners # {} /\ u # Creator
  /\ collab' = [collab EXCEPT ![u] = role]
  /\ Turns(k, [Ready EXCEPT !.pc = "watch", !.user = u])
  /\ UNCHANGED <<member, onTeam, grant, watching, public, troubles, stale, late, kept>>

Trouble == troubles < MaxFaults /\ troubles' = troubles + 1

\* ensureImplicitWatch, best effort: the subscription of who may have gone since stays.
Watch(k) == LET u == job[k].user IN
  /\ job[k].pc = "watch" /\ Ends(k)
  /\ \/ /\ watching' = watching \cup {u} /\ UNCHANGED troubles
        /\ kept' = IF CanRead(u) THEN kept ELSE kept \cup {u}
     \/ Trouble /\ UNCHANGED <<watching, kept>>
  /\ UNCHANGED <<member, onTeam, grant, collab, public, stale, late>>

RemoveCollaborator(k, u) ==
  /\ job[k].pc = "new" /\ Owners # {} /\ collab[u] # None
  /\ collab' = [collab EXCEPT ![u] = None]
  /\ Turns(k, [Ready EXCEPT !.pc = "prune", !.user = u])
  /\ UNCHANGED <<member, onTeam, grant, watching, public, troubles, stale, late, kept>>

\* mutant: who is on the team keeps the subscription, whatever the team may read
PruneUnlessOnTeam(k) == LET u == job[k].user IN
  /\ job[k].pc = "prune"
  /\ IF CanRead(u) \/ u \in onTeam THEN Ends(k) ELSE Turns(k, [job[k] EXCEPT !.pc = "unwatch"])
  /\ UNCHANGED <<member, onTeam, grant, collab, watching, public, troubles, stale, late, kept>>

\* pruneWatchOnAccessLoss: access is read again, and then the row goes.
Prune(k) == LET u == job[k].user IN
  /\ job[k].pc = "prune"
  /\ IF CanRead(u) THEN Ends(k) ELSE Turns(k, [job[k] EXCEPT !.pc = "unwatch"])
  /\ UNCHANGED <<member, onTeam, grant, collab, watching, public, troubles, stale, late, kept>>

Unwatch(k) == LET u == job[k].user IN
  /\ job[k].pc = "unwatch" /\ Ends(k)
  /\ \/ watching' = watching \ {u} /\ kept' = kept \ {u} /\ UNCHANGED troubles
     \/ Trouble /\ kept' = kept \cup {u} /\ UNCHANGED watching
  /\ UNCHANGED <<member, onTeam, grant, collab, public, stale, late>>

OrgNext ==
  \/ \E k \in Clients, u \in Users :
       \/ \E r \in OrgRoles : LoadAdd(k, u, r) \/ LoadChange(k, u, r)
       \/ LoadRemove(k, u) \/ LoadTeamAdd(k, u) \/ RemoveCollaborator(k, u)
       \/ \E role \in Granted : AddCollaborator(k, u, role)
  \/ \E k \in Clients : AddMember(k) \/ ChangeRole(k) \/ RemoveMember(k) \/ AddToTeam(k)
                        \/ Watch(k) \/ Prune(k) \/ Unwatch(k)
  \/ \E u \in Users : LeaveTeam(u)
  \/ \E role \in Granted \cup {None} : SetGrant(role)
  \/ DeleteTeam \/ SetVisibility

OrgSpec == OrgInit /\ [][OrgNext]_orgVars

-----------------------------------------------------------------------------
(***************************************************************************)
(* An organization is without an owner only after a role was taken away on *)
(* a reading of the owners that was out of date, or by adding a member who *)
(* was there already; and who was removed from the organization is on none *)
(* of its teams, unless an addition to a team had read the membership      *)
(* before.                                                                 *)
(***************************************************************************)
OwnerUnlessStale == Owners = {} => stale
TeamWithinOrg == onTeam \subseteq Members \cup late
MembershipHolds == OwnerUnlessStale /\ TeamWithinOrg

(***************************************************************************)
(* Once nothing is in progress, a subscription implies access, except of   *)
(* users whose access ended in a way that is not followed by a look at     *)
(* their subscriptions, or while one was being stored.                     *)
(***************************************************************************)
WatchersCanRead == AtWork = {} => \A u \in watching \ kept : CanRead(u)

(***************************************************************************)
(* The guard of the handlers, in their words: an organization must always  *)
(* have at least one owner.                                                *)
(***************************************************************************)
OrgHasOwner == Owners # {}
=============================================================================

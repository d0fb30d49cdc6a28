------------------------------- MODULE Access -------------------------------
(***************************************************************************)
(* Who may do what with a project.  A role comes from the project's        *)
(* members and from a team it is shared with; every handler first reads    *)
(* what it needs to decide and then writes with another statement, so that *)
(* any other request may come between the decision and the write.          *)
(***************************************************************************)
EXTENDS Naturals

CONSTANTS
  Users,
  Owner,           \* who has created the project (owner_id never changes)
  TeamCreator,     \* who has created the team (nor does created_by)
  InstanceAdmins,  \* users with is_admin
  GivenRoles,      \* roles that can be handed out
  Requests         \* requests handled concurrently

ASSUME AccessConstants ==
  /\ Owner \in Users /\ TeamCreator \in Users /\ InstanceAdmins \subseteq Users
  /\ GivenRoles \subseteq {"viewer", "suggester", "editor"}

VARIABLES
  accounts,   \* the users whose accounts exist
  project,    \* live, trashed or gone
  member,     \* project_members: the role of each user
  link,       \* the share link: the role it gives, unused before and ended after
  locked,     \* the lock flag of a file
  text,       \* its text: all that matters is when it changes
  team,       \* team_members: none, member or admin
  teamExists,
  grant,      \* project_teams: the role the team has in the project
  req,        \* what each request has decided to do
  disturbed   \* requests whose decision others may have overtaken

projectVars == <<project, member, link, locked, text>>
teamVars    == <<team, teamExists, grant>>
vars == <<accounts, project, member, link, locked, text, team, teamExists, grant, req, disturbed>>

Roles     == {"none", "viewer", "suggester", "editor", "owner"}
TeamRoles == {"none", "member", "admin"}

roleRank == [none |-> 0, viewer |-> 1, suggester |-> 2, editor |-> 3, owner |-> 4]

Idle == [op |-> "idle", step |-> "write", by |-> Owner, on |-> Owner, role |-> "none"]

\* A project with its owner, and a team with the one who has created it.
Init ==
  /\ accounts = Users
  /\ project = "live" /\ link = "unused" /\ locked = FALSE /\ text = FALSE
  /\ member = [u \in Users |-> IF u = Owner THEN "owner" ELSE "none"]
  /\ team = [u \in Users |-> IF u = TeamCreator THEN "admin" ELSE "none"]
  /\ teamExists = TRUE /\ grant = "none"
  /\ req = [r \in Requests |-> Idle] /\ disturbed = {}

-----------------------------------------------------------------------------
(* Decisions.                                                               *)

\* The highest of the direct membership and the team's grant counts.
Grants(u) == {member[u]} \cup (IF team[u] = "none" THEN {} ELSE {grant})

projectAccess(u, min) ==
  project = "live" /\ \E role \in Grants(u) : roleRank[role] >= roleRank[min]

fileLockedFor(u) == locked /\ ~projectAccess(u, "owner")

teamAccess(u, min) == team[u] # "none" /\ (min = "admin" => team[u] = "admin")

\* Mutant: any role of the table will do.
anyRole(role) == role \in Roles \ {"none"}
validMemberRole(role) == role \in GivenRoles

TeamAdmins == {u \in Users : team[u] = "admin"}

\* Sessions and API tokens end with the account.
Admit(r, op, step, u, x, role) ==
  /\ req[r] = Idle /\ u \in accounts
  /\ req' = [req EXCEPT ![r] = [op |-> op, step |-> step, by |-> u, on |-> x, role |-> role]]
  /\ UNCHANGED <<accounts, projectVars, teamVars, disturbed>>

\* Mutant: the owner's role can be changed like any other.
AddAnyMember(r, u, x, role) ==
  /\ projectAccess(u, "owner")
  /\ validMemberRole(role)
  /\ Admit(r, "addMember", "write", u, x, role)

\* handleUpdateMember decides and writes just the same.
handleAddMember(r, u, x, role) ==
  /\ projectAccess(u, "owner")
  /\ validMemberRole(role) /\ x # Owner
  /\ Admit(r, "addMember", "write", u, x, role)

handleRemoveMember(r, u, x) ==
  /\ projectAccess(u, IF x = u THEN "viewer" ELSE "owner")
  /\ x # Owner
  /\ Admit(r, IF x = u THEN "leave" ELSE "removeMember", "write", u, x, "none")

handleCreateLink(r, u, role) ==
  /\ projectAccess(u, "owner") /\ validMemberRole(role)
  /\ Admit(r, "createLink", "write", u, u, role)

handleRevokeLink(r, u) ==
  /\ link # "unused" /\ projectAccess(u, "owner")
  /\ Admit(r, "revokeLink", "write", u, u, "none")

\* Whether the project is in the trash is not looked at.
handleJoinLink(r, u) ==
  /\ link \in GivenRoles
  /\ Admit(r, "join", "write", u, u, link)

handleShareProjectWithTeam(r, u, role) ==
  /\ projectAccess(u, "owner") /\ validMemberRole(role)
  /\ Admit(r, "share", "check", u, u, role)

handleUnshareProjectTeam(r, u) ==
  /\ projectAccess(u, "owner")
  /\ Admit(r, "unshare", "write", u, u, "none")

handleDeleteProject(r, u) ==
  /\ projectAccess(u, "owner")
  /\ Admit(r, "trash", "write", u, u, "none")

\* Mutant: the owner may do it to any project.
ownsProject(u) == project # "gone" /\ (u = Owner \/ u \in InstanceAdmins)
ownsTrashed(u) == project = "trashed" /\ (u = Owner \/ u \in InstanceAdmins)

handleRestoreProject(r, u) ==
  ownsTrashed(u) /\ Admit(r, "restore", "write", u, u, "none")

handlePermanentDeleteProject(r, u) ==
  ownsTrashed(u) /\ Admit(r, "delete", "write", u, u, "none")

handleSetFileLock(r, u, op) ==
  /\ projectAccess(u, "owner")
  /\ Admit(r, op, "write", u, u, "none")

\* So do renaming, deleting, and the token of a connection that may write.
handleApplyEdit(r, u) ==
  /\ projectAccess(u, "editor") /\ ~fileLockedFor(u)
  /\ Admit(r, "edit", "write", u, u, "none")

\* Accepting a suggestion, and restoring a version.
handleResolveSuggestion(r, u) ==
  /\ projectAccess(u, "editor")
  /\ Admit(r, "accept", "write", u, u, "none")

handleAddTeamMember(r, u, x, role) ==
  /\ teamAccess(u, "admin")
  /\ Admit(r, "addTeamMember", "write", u, x, role)

handleUpdateTeamMember(r, u, x, role) ==
  /\ teamAccess(u, "admin")
  /\ Admit(r, "updateTeamMember", IF role = "member" THEN "check" ELSE "write", u, x, role)

handleRemoveTeamMember(r, u, x) ==
  /\ teamAccess(u, IF x = u THEN "member" ELSE "admin")
  /\ Admit(r, "removeTeamMember", "check", u, x, "none")

handleDeleteTeam(r, u) ==
  teamAccess(u, "admin") /\ Admit(r, "deleteTeam", "write", u, u, "none")

handleAdminDeleteUser(r, u, x) ==
  /\ u \in InstanceAdmins /\ x # u
  /\ Admit(r, "deleteUser", "write", u, x, "none")

-----------------------------------------------------------------------------
(* Second looks, after which a request goes on or is refused.               *)

Checks(r, op, passed) ==
  /\ req[r].op = op /\ req[r].step = "check"
  /\ req' = [req EXCEPT ![r] = IF passed THEN [@ EXCEPT !.step = "write"] ELSE Idle]
  /\ disturbed' = disturbed \ {r}
  /\ UNCHANGED <<accounts, projectVars, teamVars>>

IsTeamMember(r) == Checks(r, "share", team[req[r].by] # "none")

CountTeamAdmins(r) ==
  Checks(r, "updateTeamMember", \E u, v \in TeamAdmins : u # v)

\* Mutant: administrators may always leave.
AnyoneMayLeave(r) == Checks(r, "removeTeamMember", TRUE)

ListTeamMembers(r) == Checks(r, "removeTeamMember", TeamAdmins # {req[r].on})

-----------------------------------------------------------------------------
(* Writes.                                                                  *)

\* The decisions a write may have made stale: those that rest on the administrators
\* of the team, and the deletion of a project that is in the trash.
Overtaken(op) ==
  CASE op = "restore" -> {"delete"}
    [] op \in {"addTeamMember", "updateTeamMember", "removeTeamMember", "deleteUser"}
         -> {"updateTeamMember", "removeTeamMember"}
    [] OTHER -> {}

\* The request writes and is over.
Writes(r, op) ==
  /\ req[r].op = op /\ req[r].step = "write"
  /\ req' = [req EXCEPT ![r] = Idle]
  /\ disturbed' = (disturbed \cup {q \in Requests : req[q].op \in Overtaken(op)}) \ {r}

\* Foreign keys: rows of a project or a user that is gone cannot be written.
SetMember(r, x, role) ==
  /\ member' = IF project = "gone" \/ x \notin accounts THEN member
               ELSE [member EXCEPT ![x] = role]
  /\ UNCHANGED <<accounts, project, link, locked, text, teamVars>>

UpsertMember(r) == Writes(r, "addMember") /\ SetMember(r, req[r].on, req[r].role)

RemoveMember(r) ==
  /\ Writes(r, "removeMember") \/ Writes(r, "leave")
  /\ SetMember(r, req[r].on, "none")

AddMemberIfAbsent(r) ==
  /\ Writes(r, "join")
  /\ SetMember(r, req[r].on, IF member[req[r].on] = "none" THEN req[r].role ELSE member[req[r].on])

\* Bound: one link in the life of the project.
CreateShareLink(r) ==
  /\ Writes(r, "createLink")
  /\ link' = IF link = "unused" /\ project # "gone" THEN req[r].role ELSE link
  /\ UNCHANGED <<accounts, project, member, locked, text, teamVars>>

RevokeShareLink(r) ==
  /\ Writes(r, "revokeLink")
  /\ link' = "ended"
  /\ UNCHANGED <<accounts, project, member, locked, text, teamVars>>

LinkExpires ==
  /\ link \in GivenRoles
  /\ link' = "ended"
  /\ UNCHANGED <<accounts, project, member, locked, text, teamVars, req, disturbed>>

UpsertProjectTeam(r) ==
  /\ Writes(r, "share")
  /\ grant' = IF project # "gone" /\ teamExists THEN req[r].role ELSE grant
  /\ UNCHANGED <<accounts, projectVars, team, teamExists>>

RemoveProjectTeam(r) ==
  /\ Writes(r, "unshare")
  /\ grant' = "none"
  /\ UNCHANGED <<accounts, projectVars, team, teamExists>>

SoftDeleteProject(r) ==
  /\ Writes(r, "trash")
  /\ project' = IF project = "gone" THEN project ELSE "trashed"
  /\ UNCHANGED <<accounts, member, link, locked, text, teamVars>>

RestoreProject(r) ==
  /\ Writes(r, "restore")
  /\ project' = IF project = "gone" THEN project ELSE "live"
  /\ UNCHANGED <<accounts, member, link, locked, text, teamVars>>

\* Mutant: the team's grant stays.
HardDeleteKeepsGrant(r) ==
  /\ Writes(r, "delete")
  /\ project' = "gone" /\ link' = "ended" /\ locked' = FALSE
  /\ member' = [u \in Users |-> "none"]
  /\ UNCHANGED <<accounts, text, teamVars>>

\* Whatever refers to the project goes with it.
HardDeleteProject(r) ==
  /\ Writes(r, "delete")
  /\ project' = "gone" /\ link' = "ended" /\ locked' = FALSE
  /\ member' = [u \in Users |-> "none"] /\ grant' = "none"
  /\ UNCHANGED <<accounts, text, team, teamExists>>

SetFileLocked(r) ==
  /\ Writes(r, "lock") \/ Writes(r, "unlock")
  /\ locked' = (project # "gone" /\ req[r].op = "lock")
  /\ UNCHANGED <<accounts, project, member, link, text, teamVars>>

ChangeFile(r) ==
  /\ Writes(r, "edit") \/ Writes(r, "accept")
  /\ text' = IF project = "gone" THEN text ELSE ~text
  /\ UNCHANGED <<accounts, project, member, link, locked, teamVars>>

UpsertTeamMember(r) ==
  /\ Writes(r, "addTeamMember") \/ Writes(r, "updateTeamMember")
  /\ team' = IF teamExists /\ req[r].on \in accounts
             THEN [team EXCEPT ![req[r].on] = req[r].role] ELSE team
  /\ UNCHANGED <<accounts, projectVars, teamExists, grant>>

RemoveTeamMember(r) ==
  /\ Writes(r, "removeTeamMember")
  /\ team' = [team EXCEPT ![req[r].on] = "none"]
  /\ UNCHANGED <<accounts, projectVars, teamExists, grant>>

DeleteTeam(r) ==
  /\ Writes(r, "deleteTeam")
  /\ teamExists' = FALSE /\ team' = [u \in Users |-> "none"] /\ grant' = "none"
  /\ UNCHANGED <<accounts, projectVars>>

\* Foreign keys without a cascade: who owns a project or has created a team stays, until
\* these are gone.  (An author of versions or annotations stays as well: the statement
\* fails, as in Cancelled.)
Deletable(x) == ~(x = Owner /\ project # "gone") /\ ~(x = TeamCreator /\ teamExists)

\* ON DELETE CASCADE: with the account go its rows in projects and teams, the row of a
\* team's only administrator like any other.
DeleteUser(r) ==
  LET x == req[r].on IN
  /\ Writes(r, "deleteUser")
  /\ IF Deletable(x)
     THEN /\ accounts' = accounts \ {x}
          /\ member' = [member EXCEPT ![x] = "none"] /\ team' = [team EXCEPT ![x] = "none"]
     ELSE UNCHANGED <<accounts, member, team>>
  /\ UNCHANGED <<project, link, locked, text, teamExists, grant>>

\* The client leaves or a statement fails: nothing is written.
Cancelled(r) ==
  /\ req[r] # Idle
  /\ req' = [req EXCEPT ![r] = Idle]
  /\ disturbed' = disturbed \ {r}
  /\ UNCHANGED <<accounts, projectVars, teamVars>>

-----------------------------------------------------------------------------

Decide(r) ==
  \E u \in Users :
    \/ \E x \in Users, role \in Roles : handleAddMember(r, u, x, role)
    \/ \E role \in Roles : handleCreateLink(r, u, role) \/ handleShareProjectWithTeam(r, u, role)
    \/ \E x \in Users : handleRemoveMember(r, u, x) \/ handleRemoveTeamMember(r, u, x)
    \/ handleRevokeLink(r, u) \/ handleJoinLink(r, u) \/ handleUnshareProjectTeam(r, u)
    \/ handleDeleteProject(r, u) \/ handleRestoreProject(r, u) \/ handlePermanentDeleteProject(r, u)
    \/ \E op \in {"lock", "unlock"} : handleSetFileLock(r, u, op)
    \/ handleApplyEdit(r, u) \/ handleResolveSuggestion(r, u)
    \/ \E x \in Users, role \in {"member", "admin"} :
         handleAddTeamMember(r, u, x, role) \/ handleUpdateTeamMember(r, u, x, role)
    \/ handleDeleteTeam(r, u)
    \/ \E x \in Users : handleAdminDeleteUser(r, u, x)

Write(r) ==
  \/ UpsertMember(r) \/ RemoveMember(r) \/ AddMemberIfAbsent(r)
  \/ CreateShareLink(r) \/ RevokeShareLink(r) \/ UpsertProjectTeam(r) \/ RemoveProjectTeam(r)
  \/ SoftDeleteProject(r) \/ RestoreProject(r) \/ HardDeleteProject(r)
  \/ SetFileLocked(r) \/ ChangeFile(r)
  \/ UpsertTeamMember(r) \/ RemoveTeamMember(r) \/ DeleteTeam(r) \/ DeleteUser(r)

Next ==
  \/ \E r \in Requests : \/ Decide(r)
                         \/ IsTeamMember(r) \/ CountTeamAdmins(r) \/ ListTeamMembers(r)
                         \/ Write(r) \/ Cancelled(r)
  \/ LinkExpires

Spec == Init /\ [][Next]_vars

-----------------------------------------------------------------------------
(* Properties.                                                              *)

\* What only the owner may do.
OwnerOps == {"addMember", "removeMember", "createLink", "revokeLink", "share", "unshare",
             "trash", "lock", "unlock"}
Ops == OwnerOps \cup {"idle", "leave", "join", "restore", "delete", "edit", "accept",
                      "addTeamMember", "updateTeamMember", "removeTeamMember", "deleteTeam",
                      "deleteUser"}

Request == [op : Ops, step : {"check", "write"}, by : Users, on : Users,
            role : Roles \cup TeamRoles]

\* Rows hold the roles the schema allows, and none is left of a project, a team or an
\* account that is gone.
TypeOK ==
  /\ accounts \subseteq Users
  /\ project \in {"live", "trashed", "gone"}
  /\ member \in [Users -> Roles]
  /\ link \in GivenRoles \cup {"unused", "ended"} /\ locked \in BOOLEAN /\ text \in BOOLEAN
  /\ team \in [Users -> TeamRoles] /\ teamExists \in BOOLEAN
  /\ grant \in GivenRoles \cup {"none"}
  /\ req \in [Requests -> Request] /\ disturbed \subseteq Requests
  /\ project = "gone" => grant = "none" /\ member = [u \in Users |-> "none"]
  /\ ~teamExists => grant = "none" /\ team = [u \in Users |-> "none"]
  /\ \A u \in Users \ accounts : member[u] = "none" /\ team[u] = "none"

\* Whatever is shared, revoked, joined and restored in whatever order, the one who
\* created a project is its owner as long as it exists, and nobody else ever is.
SoleOwner ==
  project # "gone" => \A u \in Users : ("owner" \in Grants(u)) = (u = Owner)

\* Between the decision and the write of what only the owner may do, the owner has
\* not ceased to be the owner: these decisions never go stale.
OwnerDecisionsHold ==
  \A r \in Requests :
    req[r].op \in OwnerOps /\ project # "gone" => "owner" \in Grants(req[r].by)

\* teams_handlers.go:170, :200: of a team's last administrators one stays.  The ways past
\* it: two requests overlap, an administrator is added once more, as a member, or the
\* account of the only administrator is deleted, who is then not the team's creator.
TeamKeepsAdmin ==
  [][TeamAdmins # {} /\ TeamAdmins' = {} /\ teamExists'
       => \E r \in Requests :
            /\ req'[r] # req[r]
            /\ \/ r \in disturbed \/ req[r].op = "addTeamMember"
               \/ req[r].op = "deleteUser" /\ TeamAdmins = {req[r].on} \ {TeamCreator}]_vars

\* projects_handlers.go:49-50: a project is deleted for good only out of the trash,
\* unless it was restored after the deletion had been admitted.
DeletedFromTrash ==
  [][project' = "gone" /\ project # "gone"
       => project = "trashed" \/ \E r \in disturbed : req[r].op = "delete" /\ req'[r] = Idle]_vars

\* roleauth.go:80: "Locked files are editable only by the project owner."
LockedForOthers ==
  [][\A r \in Requests :
       ChangeFile(r) /\ text' # text /\ locked => "owner" \in Grants(req[r].by)]_vars
=============================================================================

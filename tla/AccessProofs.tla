---------------------------- MODULE AccessProofs ----------------------------
(***************************************************************************)
(* The ownership of a project, for any number of users and requests.  The  *)
(* invariant needs what every admitted request carries: owner's requests   *)
(* come from the owner, and nobody can hand out or take away the owner's   *)
(* role.                                                                    *)
(***************************************************************************)
EXTENDS Access, TLAPS

\* What the handlers have made sure of before they write.
Pending(q) ==
  /\ q.op \in OwnerOps => q.by = Owner
  /\ q.op \in {"addMember", "removeMember", "leave"} => q.on # Owner
  /\ q.op \in {"addMember", "createLink", "share", "join"} => q.role \in GivenRoles
  /\ q.op \in {"addTeamMember", "updateTeamMember"} => q.role \in {"member", "admin"}

OwnerRow == project # "gone" => \A u \in Users : (member[u] = "owner") = (u = Owner)

IInv == TypeOK /\ OwnerRow /\ \A r \in Requests : Pending(req[r])

\* No role that is handed out is the owner's, and the owner's outranks all.
LEMMA Ranks ==
  /\ GivenRoles \subseteq Roles /\ "owner" \notin GivenRoles /\ "none" \notin GivenRoles
  /\ \A role \in Roles : roleRank[role] >= roleRank["owner"] => role = "owner"
BY AccessConstants DEF Roles, roleRank

\* With the invariant, only the owner has the owner's access.
LEMMA OwnersOnly ==
  ASSUME IInv, NEW u \in Users, projectAccess(u, "owner")
  PROVE  u = Owner
<1>1. PICK role \in Grants(u) : roleRank[role] >= roleRank["owner"]
  BY DEF projectAccess
<1>2. project # "gone"
  BY DEF projectAccess
<1>3. Grants(u) \subseteq {member[u], grant} /\ member[u] \in Roles /\ grant \in GivenRoles \cup {"none"}
  BY DEF Grants, IInv, TypeOK
<1>4. role = "owner"
  BY <1>1, <1>3, Ranks DEF Roles
<1>5. member[u] = "owner"
  BY <1>1, <1>3, <1>4, Ranks
<1> QED
  BY <1>2, <1>5 DEF IInv, OwnerRow

\* The invariant implies what the runs check.
LEMMA Consequences == IInv => TypeOK /\ SoleOwner /\ OwnerDecisionsHold
<1> SUFFICES ASSUME IInv PROVE SoleOwner /\ OwnerDecisionsHold
  BY DEF IInv
<1>1. SoleOwner
  <2> SUFFICES ASSUME project # "gone", NEW u \in Users
               PROVE  ("owner" \in Grants(u)) = (u = Owner)
    BY DEF SoleOwner
  <2>1. grant # "owner"
    BY Ranks DEF IInv, TypeOK
  <2> QED
    BY <2>1 DEF Grants, IInv, OwnerRow
<1>2. OwnerDecisionsHold
  BY AccessConstants DEF IInv, OwnerRow, Pending, OwnerDecisionsHold, Grants
<1> QED
  BY <1>1, <1>2

\* A project and a team that have just been created satisfy it.
LEMMA InitIInv == Init => IInv
<1> SUFFICES ASSUME Init PROVE IInv
  OBVIOUS
<1>1. TypeOK
  BY AccessConstants DEF Init, TypeOK, Roles, TeamRoles, Idle, Request, Ops
<1>2. OwnerRow
  BY DEF Init, OwnerRow
<1>3. \A r \in Requests : Pending(req[r])
  BY DEF Init, Pending, Idle, OwnerOps
<1> QED
  BY <1>1, <1>2, <1>3 DEF IInv

\* Admitting a request changes nothing but the request.
LEMMA AdmitStep ==
  ASSUME IInv, NEW r \in Requests, NEW op \in Ops, NEW step \in {"check", "write"},
         NEW u \in Users, NEW x \in Users, NEW role \in Roles \cup TeamRoles,
         Admit(r, op, step, u, x, role),
         op \in OwnerOps => u = Owner,
         op \in {"addMember", "removeMember", "leave"} => x # Owner,
         op \in {"addMember", "createLink", "share", "join"} => role \in GivenRoles,
         op \in {"addTeamMember", "updateTeamMember"} => role \in {"member", "admin"}
  PROVE  IInv'
<1> DEFINE q == [op |-> op, step |-> step, by |-> u, on |-> x, role |-> role]
<1>1. q \in Request /\ Pending(q)
  BY DEF Request, Pending
<1> HIDE DEF q
<1>2. req' = [req EXCEPT ![r] = q] /\ UNCHANGED <<accounts, projectVars, teamVars, disturbed>>
  BY DEF Admit, q
<1>3. req' \in [Requests -> Request] /\ \A p \in Requests : Pending(req'[p])
  BY <1>1, <1>2 DEF IInv, TypeOK
<1>4. TypeOK'
  BY <1>2, <1>3 DEF IInv, TypeOK, projectVars, teamVars
<1>5. OwnerRow'
  BY <1>2 DEF IInv, OwnerRow, projectVars
<1>6. (\A p \in Requests : Pending(req[p]))'
  BY <1>3 DEF Pending
<1> QED
  BY <1>4, <1>5, <1>6 DEF IInv

\* Every handler admits its request with what Pending asks for.
LEMMA DecideStep ==
  ASSUME IInv, NEW r \in Requests, Decide(r)
  PROVE  IInv'
<1> PICK u \in Users :
      \/ \E x \in Users, role \in Roles : handleAddMember(r, u, x, role)
      \/ \E role \in Roles : handleCreateLink(r, u, role) \/ handleShareProjectWithTeam(r, u, role)
      \/ \E x \in Users : handleRemoveMember(r, u, x) \/ handleRemoveTeamMember(r, u, x)
      \/ handleRevokeLink(r, u) \/ handleJoinLink(r, u) \/ handleUnshareProjectTeam(r, u)
      \/ handleDeleteProject(r, u) \/ handleRestoreProject(r, u) \/ handlePermanentDeleteProject(r, u)
      \/ \E op \in {"lock", "unlock"} : handleSetFileLock(r, u, op)
      \/ handleApplyEdit(r, u) \/ handleResolveSuggestion(r, u)
      \/ \E x \in Users, role \in {"member", "admin"} :
           handleAddTeamMember(r, u, x, role) \/ handleUpdateTeamMember(r, u, x, role)
      \/ handleDeleteTeam(r, u)
      \/ \E x \in Users : handleAdminDeleteUser(r, u, x)
  BY DEF Decide
<1> USE Ranks DEF Ops, OwnerOps, TeamRoles
<1>0. "none" \in Roles
  BY DEF Roles
<1>1. ASSUME NEW x \in Users, NEW role \in Roles, handleAddMember(r, u, x, role)
      PROVE  IInv'
  BY <1>1, AdmitStep, OwnersOnly DEF handleAddMember, validMemberRole
<1>2. ASSUME NEW role \in Roles, handleCreateLink(r, u, role)
      PROVE  IInv'
  BY <1>2, AdmitStep, OwnersOnly DEF handleCreateLink, validMemberRole
<1>3. ASSUME NEW role \in Roles, handleShareProjectWithTeam(r, u, role)
      PROVE  IInv'
  BY <1>3, AdmitStep, OwnersOnly DEF handleShareProjectWithTeam, validMemberRole
<1>4. ASSUME NEW x \in Users, handleRemoveMember(r, u, x)
      PROVE  IInv'
  <2>1. CASE x = u
    BY <1>0, <1>4, <2>1, AdmitStep DEF handleRemoveMember
  <2>2. CASE x # u
    BY <1>0, <1>4, <2>2, AdmitStep, OwnersOnly DEF handleRemoveMember
  <2> QED
    BY <2>1, <2>2
<1>5. ASSUME NEW x \in Users, handleRemoveTeamMember(r, u, x)
      PROVE  IInv'
  BY <1>0, <1>5, AdmitStep DEF handleRemoveTeamMember
<1>6. CASE handleRevokeLink(r, u)
  BY <1>0, <1>6, AdmitStep, OwnersOnly DEF handleRevokeLink
<1>7. CASE handleJoinLink(r, u)
  BY <1>7, AdmitStep DEF handleJoinLink
<1>8. CASE handleUnshareProjectTeam(r, u)
  BY <1>0, <1>8, AdmitStep, OwnersOnly DEF handleUnshareProjectTeam
<1>9. CASE handleDeleteProject(r, u)
  BY <1>0, <1>9, AdmitStep, OwnersOnly DEF handleDeleteProject
<1>10. CASE handleRestoreProject(r, u) \/ handlePermanentDeleteProject(r, u)
  BY <1>0, <1>10, AdmitStep DEF handleRestoreProject, handlePermanentDeleteProject
<1>11. ASSUME NEW op \in {"lock", "unlock"}, handleSetFileLock(r, u, op)
       PROVE  IInv'
  BY <1>0, <1>11, AdmitStep, OwnersOnly DEF handleSetFileLock
<1>12. CASE handleApplyEdit(r, u) \/ handleResolveSuggestion(r, u)
  BY <1>0, <1>12, AdmitStep DEF handleApplyEdit, handleResolveSuggestion
<1>13. ASSUME NEW x \in Users, NEW role \in {"member", "admin"},
              handleAddTeamMember(r, u, x, role) \/ handleUpdateTeamMember(r, u, x, role)
       PROVE  IInv'
  <2>1. CASE handleAddTeamMember(r, u, x, role)
    BY <2>1, AdmitStep DEF handleAddTeamMember
  <2>2. CASE handleUpdateTeamMember(r, u, x, role)
    <3> DEFINE step == IF role = "member" THEN "check" ELSE "write"
    <3>1. step \in {"check", "write"}
      OBVIOUS
    <3>2. Admit(r, "updateTeamMember", step, u, x, role)
      BY <2>2 DEF handleUpdateTeamMember
    <3> HIDE DEF step
    <3> QED
      BY <3>1, <3>2, AdmitStep
  <2> QED
    BY <1>13, <2>1, <2>2
<1>14. CASE handleDeleteTeam(r, u)
  BY <1>0, <1>14, AdmitStep DEF handleDeleteTeam
<1>15. ASSUME NEW x \in Users, handleAdminDeleteUser(r, u, x)
       PROVE  IInv'
  BY <1>0, <1>15, AdmitStep DEF handleAdminDeleteUser
<1> QED
  BY <1>1, <1>2, <1>3, <1>4, <1>5, <1>6, <1>7, <1>8, <1>9, <1>10, <1>11, <1>12, <1>13, <1>14, <1>15

\* A request that has been checked or is over is still what it was, or idle.
LEMMA RequestStep ==
  ASSUME IInv, NEW r \in Requests,
         req' = [req EXCEPT ![r] = Idle] \/ req' = [req EXCEPT ![r] = [@ EXCEPT !.step = "write"]]
  PROVE  req' \in [Requests -> Request] /\ \A p \in Requests : Pending(req'[p])
<1>1. Idle \in Request /\ Pending(Idle)
  BY AccessConstants DEF Idle, Request, Ops, OwnerOps, Roles, Pending
<1> DEFINE q == [req[r] EXCEPT !.step = "write"]
<1>2. q \in Request /\ Pending(q)
  BY DEF IInv, TypeOK, Request, Pending
<1> HIDE DEF q
<1>3. req' = [req EXCEPT ![r] = Idle] \/ req' = [req EXCEPT ![r] = q]
  BY DEF q
<1> QED
  BY <1>1, <1>2, <1>3 DEF IInv, TypeOK

LEMMA CheckStep ==
  ASSUME IInv, NEW r \in Requests,
         IsTeamMember(r) \/ CountTeamAdmins(r) \/ ListTeamMembers(r) \/ Cancelled(r)
  PROVE  IInv'
<1>1. /\ req' = [req EXCEPT ![r] = Idle] \/ req' = [req EXCEPT ![r] = [@ EXCEPT !.step = "write"]]
      /\ disturbed' = disturbed \ {r}
      /\ UNCHANGED <<accounts, projectVars, teamVars>>
  BY DEF IsTeamMember, CountTeamAdmins, ListTeamMembers, Checks, Cancelled
<1>2. req' \in [Requests -> Request] /\ \A p \in Requests : Pending(req'[p])
  BY <1>1, RequestStep
<1>3. TypeOK'
  BY <1>1, <1>2 DEF IInv, TypeOK, projectVars, teamVars
<1>4. OwnerRow'
  BY <1>1 DEF IInv, OwnerRow, projectVars
<1> QED
  BY <1>2, <1>3, <1>4 DEF IInv, Pending

\* A write keeps the types, the owner's row and what is pending.
LEMMA WriteStep ==
  ASSUME IInv, NEW r \in Requests, Write(r)
  PROVE  IInv'
<1> DEFINE q == req[r]
<1>0. q \in Request /\ Pending(q)
  BY DEF IInv, TypeOK
<1> HIDE DEF q
<1>1. /\ req' = [req EXCEPT ![r] = Idle]
      /\ disturbed' \subseteq Requests
  <2>1. \E op \in Ops : Writes(r, op)
    BY DEF Write, UpsertMember, RemoveMember, AddMemberIfAbsent, CreateShareLink, RevokeShareLink,
       UpsertProjectTeam, RemoveProjectTeam, SoftDeleteProject, RestoreProject, HardDeleteProject,
       SetFileLocked, ChangeFile, UpsertTeamMember, RemoveTeamMember, DeleteTeam, DeleteUser,
       Ops, OwnerOps
  <2> QED
    BY <2>1 DEF Writes, IInv, TypeOK
<1>2. req' \in [Requests -> Request] /\ \A p \in Requests : Pending(req'[p])
  BY <1>1, RequestStep
<1> SUFFICES TypeOK' /\ OwnerRow'
  BY <1>2 DEF IInv, Pending
<1> USE <1>0, <1>1, <1>2, Ranks DEF IInv, TypeOK, OwnerRow
<1>3. ASSUME NEW x \in Users, NEW role \in Roles, SetMember(r, x, role),
             (x = Owner) = (role = "owner")
      PROVE  TypeOK' /\ OwnerRow'
  BY <1>3 DEF SetMember, teamVars
<1>4. CASE UpsertMember(r)
  <2>1. q.op = "addMember" /\ SetMember(r, q.on, q.role)
    BY <1>4 DEF UpsertMember, Writes, q
  <2>2. q.on \in Users /\ q.on # Owner /\ q.role \in Roles /\ q.role # "owner"
    BY <2>1 DEF Request, Pending
  <2> QED
    BY <1>3, <2>1, <2>2
<1>5. CASE RemoveMember(r)
  <2>1. q.op \in {"removeMember", "leave"} /\ SetMember(r, q.on, "none")
    BY <1>5 DEF RemoveMember, Writes, q
  <2>2. q.on \in Users /\ q.on # Owner
    BY <2>1 DEF Request, Pending
  <2>3. "none" \in Roles
    BY DEF Roles
  <2> QED
    BY <1>3, <2>1, <2>2, <2>3
<1>6. CASE AddMemberIfAbsent(r)
  <2>1. q.op = "join" /\ SetMember(r, q.on, IF member[q.on] = "none" THEN q.role ELSE member[q.on])
    BY <1>6 DEF AddMemberIfAbsent, Writes, q
  <2>2. q.on \in Users /\ q.role \in GivenRoles
    BY <2>1 DEF Request, Pending
  <2>3. CASE project = "gone" \/ q.on \notin accounts
    BY <2>1, <2>3 DEF SetMember, teamVars
  <2>4. CASE project # "gone" /\ q.on \in accounts /\ member[q.on] = "none"
    BY <1>3, <2>1, <2>2, <2>4
  <2>5. CASE project # "gone" /\ q.on \in accounts /\ member[q.on] # "none"
    BY <1>3, <2>1, <2>2, <2>5
  <2> QED
    BY <2>3, <2>4, <2>5
<1>7. CASE CreateShareLink(r)
  <2>1. q.op = "createLink"
    BY <1>7 DEF CreateShareLink, Writes, q
  <2>2. q.role \in GivenRoles
    BY <2>1 DEF Pending
  <2> QED
    BY <1>7, <2>2 DEF CreateShareLink, teamVars, q
<1>8. CASE RevokeShareLink(r)
  BY <1>8 DEF RevokeShareLink, teamVars
<1>9. CASE UpsertProjectTeam(r)
  <2>1. q.op = "share"
    BY <1>9 DEF UpsertProjectTeam, Writes, q
  <2>2. q.role \in GivenRoles
    BY <2>1 DEF Pending
  <2> QED
    BY <1>9, <2>2 DEF UpsertProjectTeam, projectVars, q
<1>10. CASE RemoveProjectTeam(r)
  BY <1>10 DEF RemoveProjectTeam, projectVars
<1>11. CASE SoftDeleteProject(r) \/ RestoreProject(r)
  BY <1>11 DEF SoftDeleteProject, RestoreProject, teamVars
<1>12. CASE HardDeleteProject(r)
  BY <1>12 DEF HardDeleteProject, Roles
<1>13. CASE SetFileLocked(r)
  BY <1>13 DEF SetFileLocked, teamVars
<1>14. CASE ChangeFile(r)
  BY <1>14 DEF ChangeFile, teamVars
<1>15. CASE UpsertTeamMember(r)
  <2>1. q.op \in {"addTeamMember", "updateTeamMember"}
    BY <1>15 DEF UpsertTeamMember, Writes, q
  <2>2. q.role \in TeamRoles /\ q.on \in Users
    BY <2>1 DEF Pending, Request, TeamRoles
  <2> QED
    BY <1>15, <2>2 DEF UpsertTeamMember, projectVars, q
<1>16. CASE RemoveTeamMember(r)
  <2>1. q.on \in Users
    BY DEF Request
  <2> QED
    BY <1>16, <2>1 DEF RemoveTeamMember, projectVars, TeamRoles, q
<1>17. CASE DeleteTeam(r)
  BY <1>17 DEF DeleteTeam, projectVars, TeamRoles
<1>18. CASE DeleteUser(r)
  <2> DEFINE x == req[r].on
  <2>1. x \in Users
    BY DEF Request
  <2>2. CASE Deletable(x)
    <3>1. /\ accounts' = accounts \ {x}
          /\ member' = [member EXCEPT ![x] = "none"] /\ team' = [team EXCEPT ![x] = "none"]
          /\ UNCHANGED <<project, link, locked, text, teamExists, grant>>
      BY <1>18, <2>2 DEF DeleteUser
    <3>2. x = Owner => project = "gone"
      BY <2>2 DEF Deletable
    <3> HIDE DEF x
    <3>3. TypeOK'
      <4>1. member' \in [Users -> Roles] /\ team' \in [Users -> TeamRoles]
        BY <2>1, <3>1 DEF Roles, TeamRoles
      <4>2. project' = "gone" => member' = [u \in Users |-> "none"]
        BY <2>1, <3>1
      <4>3. ~teamExists' => team' = [u \in Users |-> "none"]
        BY <2>1, <3>1
      <4>4. \A u \in Users \ accounts' : member'[u] = "none" /\ team'[u] = "none"
        BY <2>1, <3>1
      <4> QED
        BY <3>1, <4>1, <4>2, <4>3, <4>4
    <3>4. OwnerRow'
      BY <2>1, <3>1, <3>2
    <3> QED
      BY <3>3, <3>4
  <2>3. CASE ~Deletable(x)
    BY <1>18, <2>3 DEF DeleteUser
  <2> QED
    BY <2>2, <2>3
<1> QED
  BY <1>4, <1>5, <1>6, <1>7, <1>8, <1>9, <1>10, <1>11, <1>12, <1>13, <1>14, <1>15, <1>16, <1>17, <1>18
     DEF Write

LEMMA NextIInv == IInv /\ [Next]_vars => IInv'
<1> SUFFICES ASSUME IInv, [Next]_vars PROVE IInv'
  OBVIOUS
<1>1. ASSUME NEW r \in Requests,
             \/ Decide(r) \/ IsTeamMember(r) \/ CountTeamAdmins(r) \/ ListTeamMembers(r)
             \/ Write(r) \/ Cancelled(r)
      PROVE  IInv'
  BY <1>1, DecideStep, CheckStep, WriteStep
<1>2. CASE LinkExpires
  BY <1>2 DEF LinkExpires, IInv, TypeOK, OwnerRow, Pending, teamVars
<1>3. CASE UNCHANGED vars
  BY <1>3 DEF vars, IInv, TypeOK, OwnerRow, Pending
<1> QED
  BY <1>1, <1>2, <1>3 DEF Next

\* The inductive invariant of sharing: types, the owner's row, and what admitted
\* requests carry.
THEOREM AccessInvariant == Spec => []IInv
BY InitIInv, NextIInv, PTL DEF Spec

\* Rows keep to the schema, and what refers to a project or a team that is gone is
\* gone as well.
THEOREM AccessTypeCorrect == Spec => []TypeOK
BY AccessInvariant, Consequences, PTL

\* The creator of a project is its one owner, whatever the handlers of sharing,
\* teams, links and trash do in whatever order.
THEOREM SoleOwnerAlways == Spec => []SoleOwner
BY AccessInvariant, Consequences, PTL

\* What was decided on the owner's authority is written on the owner's authority,
\* although the decision and the write are two statements.
THEOREM OwnerDecisionsHoldAlways == Spec => []OwnerDecisionsHold
BY AccessInvariant, Consequences, PTL

-----------------------------------------------------------------------------
(* Decisions that another request may overtake.                             *)

TwoAdmins == \E u, v \in TeamAdmins : u # v

\* Nobody has written what the decision rests on since it was taken.
Stands(r) ==
  r \notin disturbed =>
    /\ req[r].op = "delete" => project # "live"
    /\ req[r].op = "updateTeamMember" /\ req[r].step = "write" /\ req[r].role = "member" /\ teamExists
         => TwoAdmins
    /\ req[r].op = "removeTeamMember" /\ req[r].step = "write" /\ teamExists
         => TeamAdmins # {req[r].on}

StandInv == IInv /\ \A r \in Requests : Stands(r)

\* A decision stands as long as its request and what it rests on stay.
LEMMA StillStands ==
  ASSUME NEW p, Stands(p), req'[p] = req[p], p \in disturbed => p \in disturbed',
         UNCHANGED <<project, team, teamExists>>
  PROVE  Stands(p)'
BY DEF Stands, TwoAdmins, TeamAdmins

\* Which handlers take a decision that can be overtaken.
LEMMA Admitted ==
  ASSUME NEW r \in Requests, Decide(r)
  PROVE  \E q : /\ req' = [req EXCEPT ![r] = q]
                /\ UNCHANGED <<accounts, projectVars, teamVars, disturbed>>
                /\ q.op = "delete" => project = "trashed"
                /\ q.op = "updateTeamMember" /\ q.step = "write" => q.role # "member"
                /\ q.op = "removeTeamMember" => q.step # "write"
<1> DEFINE Fit(q) == /\ req' = [req EXCEPT ![r] = q]
                     /\ UNCHANGED <<accounts, projectVars, teamVars, disturbed>>
                     /\ q.op = "delete" => project = "trashed"
                     /\ q.op = "updateTeamMember" /\ q.step = "write" => q.role # "member"
                     /\ q.op = "removeTeamMember" => q.step # "write"
<1>1. ASSUME NEW op, NEW step, NEW u, NEW x, NEW role, Admit(r, op, step, u, x, role),
             op = "delete" => project = "trashed",
             op = "updateTeamMember" /\ step = "write" => role # "member",
             op = "removeTeamMember" => step # "write"
      PROVE  \E q : Fit(q)
  <2>1. Fit([op |-> op, step |-> step, by |-> u, on |-> x, role |-> role])
    BY <1>1 DEF Admit
  <2> QED
    BY <2>1
<1> HIDE DEF Fit
<1>2. PICK u \in Users :
        \/ \E x \in Users, role \in Roles : handleAddMember(r, u, x, role)
        \/ \E role \in Roles : handleCreateLink(r, u, role) \/ handleShareProjectWithTeam(r, u, role)
        \/ \E x \in Users : handleRemoveMember(r, u, x) \/ handleRemoveTeamMember(r, u, x)
        \/ handleRevokeLink(r, u) \/ handleJoinLink(r, u) \/ handleUnshareProjectTeam(r, u)
        \/ handleDeleteProject(r, u) \/ handleRestoreProject(r, u) \/ handlePermanentDeleteProject(r, u)
        \/ \E op \in {"lock", "unlock"} : handleSetFileLock(r, u, op)
        \/ handleApplyEdit(r, u) \/ handleResolveSuggestion(r, u)
        \/ \E x \in Users, role \in {"member", "admin"} :
             handleAddTeamMember(r, u, x, role) \/ handleUpdateTeamMember(r, u, x, role)
        \/ handleDeleteTeam(r, u)
        \/ \E x \in Users : handleAdminDeleteUser(r, u, x)
  BY DEF Decide
<1>3. ASSUME NEW x \in Users, NEW role \in Roles, handleAddMember(r, u, x, role) PROVE \E q : Fit(q)
  BY <1>1, <1>3 DEF handleAddMember
<1>4. ASSUME NEW role \in Roles, handleCreateLink(r, u, role) \/ handleShareProjectWithTeam(r, u, role)
      PROVE  \E q : Fit(q)
  BY <1>1, <1>4 DEF handleCreateLink, handleShareProjectWithTeam
<1>5. ASSUME NEW x \in Users, handleRemoveMember(r, u, x) PROVE \E q : Fit(q)
  BY <1>1, <1>5 DEF handleRemoveMember
<1>6. ASSUME NEW x \in Users, handleRemoveTeamMember(r, u, x) PROVE \E q : Fit(q)
  BY <1>1, <1>6 DEF handleRemoveTeamMember
<1>7. handleRevokeLink(r, u) => \E q : Fit(q)
  BY <1>1 DEF handleRevokeLink
<1>8. handleJoinLink(r, u) => \E q : Fit(q)
  BY <1>1 DEF handleJoinLink
<1>9. handleUnshareProjectTeam(r, u) => \E q : Fit(q)
  BY <1>1 DEF handleUnshareProjectTeam
<1>10. handleDeleteProject(r, u) => \E q : Fit(q)
  BY <1>1 DEF handleDeleteProject
<1>11. handleRestoreProject(r, u) => \E q : Fit(q)
  BY <1>1 DEF handleRestoreProject
<1>12. handlePermanentDeleteProject(r, u) => \E q : Fit(q)
  BY <1>1 DEF handlePermanentDeleteProject, ownsTrashed
<1>13. ASSUME NEW op \in {"lock", "unlock"}, handleSetFileLock(r, u, op) PROVE \E q : Fit(q)
  BY <1>1, <1>13 DEF handleSetFileLock
<1>14. handleApplyEdit(r, u) => \E q : Fit(q)
  BY <1>1 DEF handleApplyEdit
<1>15. handleResolveSuggestion(r, u) => \E q : Fit(q)
  BY <1>1 DEF handleResolveSuggestion
<1>16. handleDeleteTeam(r, u) => \E q : Fit(q)
  BY <1>1 DEF handleDeleteTeam
<1>17. ASSUME NEW x \in Users, NEW role \in {"member", "admin"}, handleAddTeamMember(r, u, x, role)
       PROVE  \E q : Fit(q)
  BY <1>1, <1>17 DEF handleAddTeamMember
<1>18. ASSUME NEW x \in Users, NEW role \in {"member", "admin"}, handleUpdateTeamMember(r, u, x, role)
       PROVE  \E q : Fit(q)
  <2>1. CASE role = "member"
    BY <1>1, <1>18, <2>1 DEF handleUpdateTeamMember
  <2>2. CASE role = "admin"
    BY <1>1, <1>18, <2>2 DEF handleUpdateTeamMember
  <2> QED
    BY <2>1, <2>2
<1>19. ASSUME NEW x \in Users, handleAdminDeleteUser(r, u, x) PROVE \E q : Fit(q)
  BY <1>1, <1>19 DEF handleAdminDeleteUser
<1>20. \E q : Fit(q)
  BY <1>2, <1>3, <1>4, <1>5, <1>6, <1>7, <1>8, <1>13, <1>14, <1>17, <1>18, <1>9, <1>10, <1>11, <1>12,
     <1>15, <1>16, <1>19
<1> QED
  BY <1>20 DEF Fit

TeamWrites == {"addTeamMember", "updateTeamMember", "removeTeamMember", "deleteUser"}

\* Only these writes change what the decisions rest on, and each overtakes them.
LEMMA Written ==
  ASSUME NEW r \in Requests, Write(r)
  PROVE  \E op \in Ops : /\ Writes(r, op)
                         /\ op # "restore" /\ project' = "live" => project = "live"
                         /\ op \notin TeamWrites
                              => UNCHANGED <<team, teamExists>> \/ ~teamExists'
<1> USE DEF Ops, OwnerOps, TeamWrites, projectVars, teamVars
<1>1. CASE UpsertMember(r) \/ RemoveMember(r) \/ AddMemberIfAbsent(r)
  BY <1>1 DEF UpsertMember, RemoveMember, AddMemberIfAbsent, SetMember
<1>2. CASE CreateShareLink(r) \/ RevokeShareLink(r) \/ UpsertProjectTeam(r) \/ RemoveProjectTeam(r)
  BY <1>2 DEF CreateShareLink, RevokeShareLink, UpsertProjectTeam, RemoveProjectTeam
<1>3. CASE SoftDeleteProject(r) \/ RestoreProject(r) \/ HardDeleteProject(r)
  BY <1>3 DEF SoftDeleteProject, RestoreProject, HardDeleteProject
<1>4. CASE SetFileLocked(r) \/ ChangeFile(r)
  BY <1>4 DEF SetFileLocked, ChangeFile
<1>5. CASE UpsertTeamMember(r) \/ RemoveTeamMember(r) \/ DeleteTeam(r) \/ DeleteUser(r)
  BY <1>5 DEF UpsertTeamMember, RemoveTeamMember, DeleteTeam, DeleteUser
<1> QED
  BY <1>1, <1>2, <1>3, <1>4, <1>5 DEF Write

LEMMA StandsStep ==
  ASSUME StandInv, [Next]_vars, NEW p \in Requests
  PROVE  Stands(p)'
<1>t. req \in [Requests -> Request] /\ Stands(p)
  BY DEF StandInv, IInv, TypeOK
<1>1. ASSUME NEW r \in Requests, Decide(r) PROVE Stands(p)'
  <2>1. PICK q : /\ req' = [req EXCEPT ![r] = q]
                 /\ UNCHANGED <<accounts, projectVars, teamVars, disturbed>>
                 /\ q.op = "delete" => project = "trashed"
                 /\ q.op = "updateTeamMember" /\ q.step = "write" => q.role # "member"
                 /\ q.op = "removeTeamMember" => q.step # "write"
    BY <1>1, Admitted
  <2>2. UNCHANGED <<project, team, teamExists, disturbed>>
    BY <2>1 DEF projectVars, teamVars
  <2>3. CASE p = r
    <3>1. req'[p] = q
      BY <1>t, <2>1, <2>3
    <3> QED
      BY <2>1, <2>2, <3>1 DEF Stands
  <2>4. CASE p # r
    BY <1>t, <2>1, <2>2, <2>4, StillStands
  <2> QED
    BY <2>3, <2>4
<1>2. ASSUME NEW r \in Requests, IsTeamMember(r) \/ CountTeamAdmins(r) \/ ListTeamMembers(r) \/ Cancelled(r)
      PROVE  Stands(p)'
  <2>1. /\ disturbed' = disturbed \ {r}
        /\ UNCHANGED <<accounts, projectVars, teamVars>>
        /\ \A x \in Requests : x # r => req'[x] = req[x]
    BY <1>2, <1>t DEF IsTeamMember, CountTeamAdmins, ListTeamMembers, Checks, Cancelled
  <2>2. UNCHANGED <<project, team, teamExists>>
    BY <2>1 DEF projectVars, teamVars
  <2>3. CASE p # r
    BY <1>t, <2>1, <2>2, <2>3, StillStands
  <2>4. CASE p = r /\ req'[r] = Idle
    BY <2>4 DEF Stands, Idle
  <2>5. CASE p = r /\ req'[r] # Idle
    <3>1. /\ req'[r].op = req[r].op /\ req'[r].on = req[r].on
          /\ \/ req[r].op = "share"
             \/ req[r].op = "updateTeamMember" /\ TwoAdmins
             \/ req[r].op = "removeTeamMember" /\ TeamAdmins # {req[r].on}
      <4>1. req[r] \in Request
        BY <1>t
      <4> DEFINE q == [req[r] EXCEPT !.step = "write"]
      <4>2. q.op = req[r].op /\ q.on = req[r].on
        BY <4>1 DEF Request
      <4> HIDE DEF q
      <4>3. CASE IsTeamMember(r)
        <5>1. req' = [req EXCEPT ![r] = q] /\ req[r].op = "share"
          BY <2>5, <4>3, <1>t DEF IsTeamMember, Checks, q
        <5> QED
          BY <5>1, <4>2, <1>t
      <4>4. CASE CountTeamAdmins(r)
        <5>1. req' = [req EXCEPT ![r] = q] /\ req[r].op = "updateTeamMember" /\ TwoAdmins
          BY <2>5, <4>4, <1>t DEF CountTeamAdmins, Checks, q, TwoAdmins
        <5> QED
          BY <5>1, <4>2, <1>t
      <4>5. CASE ListTeamMembers(r)
        <5>1. req' = [req EXCEPT ![r] = q] /\ req[r].op = "removeTeamMember" /\ TeamAdmins # {req[r].on}
          BY <2>5, <4>5, <1>t DEF ListTeamMembers, Checks, q
        <5> QED
          BY <5>1, <4>2, <1>t
      <4>6. ~Cancelled(r)
        BY <2>5, <1>t DEF Cancelled
      <4> QED
        BY <1>2, <4>3, <4>4, <4>5, <4>6
    <3>2. TeamAdmins' = TeamAdmins /\ (TwoAdmins <=> TwoAdmins')
      BY <2>2 DEF TeamAdmins, TwoAdmins
    <3> QED
      BY <2>5, <3>1, <3>2 DEF Stands
  <2> QED
    BY <2>3, <2>4, <2>5
<1>3. ASSUME NEW r \in Requests, Write(r) PROVE Stands(p)'
  <2>1. PICK op \in Ops : /\ Writes(r, op)
                          /\ op # "restore" /\ project' = "live" => project = "live"
                          /\ op \notin TeamWrites
                               => UNCHANGED <<team, teamExists>> \/ ~teamExists'
    BY <1>3, Written
  <2>2. /\ req'[r] = Idle /\ \A x \in Requests : x # r => req'[x] = req[x]
        /\ disturbed' = (disturbed \cup {q \in Requests : req[q].op \in Overtaken(op)}) \ {r}
    BY <2>1, <1>t DEF Writes
  <2>3. CASE p = r
    BY <2>2, <2>3 DEF Stands, Idle
  <2>4. CASE p # r
    <3> SUFFICES ASSUME p \notin disturbed' PROVE Stands(p)'
      BY DEF Stands
    <3>1. req'[p] = req[p] /\ p \notin disturbed /\ req[p].op \notin Overtaken(op)
      BY <2>2, <2>4
    <3>2. req[p].op = "delete" => project' # "live"
      <4>1. req[p].op = "delete" => op # "restore"
        BY <3>1 DEF Overtaken
      <4> QED
        BY <1>t, <2>1, <3>1, <4>1 DEF Stands
    <3>3. ASSUME req[p].op \in {"updateTeamMember", "removeTeamMember"}, teamExists'
          PROVE  UNCHANGED <<team, teamExists>>
      <4>1. op \notin TeamWrites
        BY <3>1, <3>3 DEF Overtaken, TeamWrites
      <4> QED
        BY <2>1, <3>3, <4>1
    <3> QED
      BY <1>t, <3>1, <3>2, <3>3 DEF Stands, TeamAdmins, TwoAdmins
  <2> QED
    BY <2>3, <2>4
<1>4. CASE LinkExpires
  BY <1>4, <1>t, StillStands DEF LinkExpires, teamVars
<1>5. CASE UNCHANGED vars
  BY <1>5, <1>t, StillStands DEF vars
<1> QED
  BY <1>1, <1>2, <1>3, <1>4, <1>5 DEF Next

\* Rows change by writes only, but for a link that expires.
LEMMA OnlyWrites ==
  ASSUME [Next]_vars
  PROVE  UNCHANGED <<project, team, teamExists>> \/ \E r \in Requests : Write(r)
<1>1. ASSUME NEW r \in Requests, Decide(r) PROVE UNCHANGED <<project, team, teamExists>>
  BY <1>1, Admitted DEF projectVars, teamVars
<1>2. ASSUME NEW r \in Requests, IsTeamMember(r) \/ CountTeamAdmins(r) \/ ListTeamMembers(r) \/ Cancelled(r)
      PROVE  UNCHANGED <<project, team, teamExists>>
  BY <1>2 DEF IsTeamMember, CountTeamAdmins, ListTeamMembers, Checks, Cancelled, projectVars, teamVars
<1>3. CASE LinkExpires \/ UNCHANGED vars
  BY <1>3 DEF LinkExpires, vars, teamVars
<1> QED
  BY <1>1, <1>2, <1>3 DEF Next

LEMMA StandStart == Init => StandInv
<1>1. Init => \A r \in Requests : Stands(r)
  BY DEF Init, Stands, Idle
<1> QED
  BY <1>1, InitIInv DEF StandInv

LEMMA StandStep == StandInv /\ [Next]_vars => StandInv'
<1> SUFFICES ASSUME StandInv, [Next]_vars PROVE StandInv'
  OBVIOUS
<1>1. IInv'
  BY NextIInv DEF StandInv
<1>2. (\A r \in Requests : Stands(r))'
  BY StandsStep
<1> QED
  BY <1>1, <1>2 DEF StandInv

\* The invariant of decisions: one that nobody has overtaken still rests on what it read.
THEOREM StandInvariant == Spec => []StandInv
BY StandStart, StandStep, PTL DEF Spec

\* A project is deleted for good only out of the trash, unless it was restored after the
\* deletion had been admitted (projects_handlers.go:49).
THEOREM DeletedFromTrashAlways == Spec => DeletedFromTrash
<1>1. StandInv /\ [Next]_vars =>
        (project' = "gone" /\ project # "gone"
           => project = "trashed" \/ \E r \in disturbed : req[r].op = "delete" /\ req'[r] = Idle)
  <2> SUFFICES ASSUME StandInv, [Next]_vars, project' = "gone", project # "gone"
               PROVE  project = "trashed" \/ \E r \in disturbed : req[r].op = "delete" /\ req'[r] = Idle
    OBVIOUS
  <2>1. PICK r \in Requests : HardDeleteProject(r)
    BY OnlyWrites DEF Write, UpsertMember, RemoveMember, AddMemberIfAbsent, SetMember, CreateShareLink,
       RevokeShareLink, UpsertProjectTeam, RemoveProjectTeam, SoftDeleteProject, RestoreProject, SetFileLocked,
       ChangeFile, UpsertTeamMember, RemoveTeamMember, DeleteTeam, DeleteUser, projectVars
  <2>2. req[r].op = "delete" /\ req'[r] = Idle
    BY <2>1 DEF HardDeleteProject, Writes, StandInv, IInv, TypeOK
  <2>3. project \in {"live", "trashed"} /\ Stands(r)
    BY DEF StandInv, IInv, TypeOK
  <2> QED
    BY <2>2, <2>3 DEF Stands
<1> QED
  BY StandInvariant, <1>1, PTL DEF DeletedFromTrash, Spec

\* Of a team's last administrators one stays (teams_handlers.go:170, :200), but for two
\* requests that overlap, an administrator who is added once more, as a member, and the
\* deletion of the only administrator's account, who is then not the team's creator.
THEOREM TeamKeepsAdminAlways == Spec => TeamKeepsAdmin
<1> DEFINE Way(r) ==
      /\ req'[r] # req[r]
      /\ \/ r \in disturbed \/ req[r].op = "addTeamMember"
         \/ req[r].op = "deleteUser" /\ TeamAdmins = {req[r].on} \ {TeamCreator}
<1>1. StandInv /\ [Next]_vars =>
        (TeamAdmins # {} /\ TeamAdmins' = {} /\ teamExists' => \E r \in Requests : Way(r))
  <2> SUFFICES ASSUME StandInv, [Next]_vars, TeamAdmins # {}, TeamAdmins' = {}, teamExists'
               PROVE  \E r \in Requests : Way(r)
    OBVIOUS
  <2>1. team' # team
    BY DEF TeamAdmins
  <2>2. PICK r \in Requests : UpsertTeamMember(r) \/ RemoveTeamMember(r) \/ DeleteUser(r)
    BY <2>1, OnlyWrites DEF Write, UpsertMember, RemoveMember, AddMemberIfAbsent, SetMember, CreateShareLink,
       RevokeShareLink, UpsertProjectTeam, RemoveProjectTeam, SoftDeleteProject, RestoreProject,
       HardDeleteProject, SetFileLocked, ChangeFile, DeleteTeam, teamVars
  <2>3. req'[r] = Idle /\ req[r].op # "idle"
    BY <2>2 DEF UpsertTeamMember, RemoveTeamMember, DeleteUser, Writes, StandInv, IInv, TypeOK
  <2>4. req'[r] # req[r]
    BY <2>3 DEF Idle
  <2> SUFFICES ASSUME r \notin disturbed, req[r].op # "addTeamMember",
                      ~(req[r].op = "deleteUser" /\ TeamAdmins = {req[r].on} \ {TeamCreator})
               PROVE  FALSE
    BY <2>4
  <2>5. /\ team \in [Users -> TeamRoles] /\ req[r] \in Request /\ Pending(req[r]) /\ Stands(r)
        /\ req[r].on \in Users
    BY DEF StandInv, IInv, TypeOK, Request
  <2>6. CASE UpsertTeamMember(r)
    <3>1. /\ req[r].op = "updateTeamMember" /\ req[r].step = "write" /\ teamExists
          /\ team' = [team EXCEPT ![req[r].on] = req[r].role]
      BY <2>1, <2>6 DEF UpsertTeamMember, Writes
    <3>2. CASE req[r].role = "admin"
      BY <2>5, <3>1, <3>2 DEF TeamAdmins
    <3>3. CASE req[r].role = "member"
      BY <2>5, <3>1, <3>3 DEF Stands, TeamAdmins, TwoAdmins
    <3> QED
      BY <2>5, <3>1, <3>2, <3>3 DEF Pending
  <2>7. CASE RemoveTeamMember(r)
    <3>1. /\ req[r].op = "removeTeamMember" /\ req[r].step = "write" /\ teamExists
          /\ team' = [team EXCEPT ![req[r].on] = "none"]
      BY <2>7 DEF RemoveTeamMember, Writes, projectVars
    <3> QED
      BY <2>5, <3>1 DEF Stands, TeamAdmins
  <2>8. CASE DeleteUser(r)
    <3>1. /\ req[r].op = "deleteUser" /\ teamExists /\ Deletable(req[r].on)
          /\ team' = [team EXCEPT ![req[r].on] = "none"]
      BY <2>1, <2>8 DEF DeleteUser, Writes
    <3>2. req[r].on # TeamCreator
      BY <3>1 DEF Deletable
    <3>3. TeamAdmins = {req[r].on}
      BY <2>5, <3>1 DEF TeamAdmins
    <3> QED
      BY <3>1, <3>2, <3>3
  <2> QED
    BY <2>2, <2>6, <2>7, <2>8
<1> QED
  BY StandInvariant, <1>1, PTL DEF TeamKeepsAdmin, Spec
=============================================================================

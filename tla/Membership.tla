----------------------------- MODULE Membership -----------------------------
(***************************************************************************)
(* The members of one organization: invitations, roles, deactivation,      *)
(* removal, and the deletion of the organization.                          *)
(*                                                                         *)
(* A request reads what it decides on (its caller's permission, the two    *)
(* roles, the row it will change) and later writes and commits; other      *)
(* requests commit in between.  A session keeps the rows it has read: what *)
(* it writes is the columns that differ from what it read.                 *)
(***************************************************************************)
EXTENDS Naturals, FiniteSets

CONSTANTS
    Users,
    Creator,      \* the user who created the organization
    Calls,        \* requests in progress at the same time
    Invitations,  \* bound on the invitations ever sent
    OfferedRoles, \* the roles the instance invites to and assigns
    NoUser

ASSUME MembershipAssumption ==
    /\ Creator \in Users /\ NoUser \notin Users
    /\ OfferedRoles \subseteq {"Owner", "Admin", "Manager", "Member"}

VARIABLES
    member,      \* user_organizations
    invitation,  \* invitations
    org,         \* is_active and deleted_at of the organization
    call,        \* each request between its reads and its commit
    joinedLate   \* ghost: who joined after a deletion of the organization counted its members

membershipVars == <<member, invitation, org, call, joinedLate>>

Roles == {"Owner", "Admin", "Manager", "Member"}
NoRow == [role |-> "none", active |-> FALSE, deleted |-> FALSE]
Rows == [role : Roles \cup {"none"}, active : BOOLEAN, deleted : BOOLEAN]
Unsent == [status |-> "unsent", user |-> NoUser, role |-> "none"]
\* closed: accepted, cancelled or expired; every handler asks for pending alone.
Statuses == {"unsent", "pending", "closed"}
NoCall == [op |-> "none", on |-> NoUser, user |-> NoUser, seen |-> NoRow, new |-> NoRow]
Ops == {"none", "invite", "accept", "cancel", "change", "update", "delete"}
CallRows == [op : Ops, on : Invitations \cup {NoUser}, user : Users \cup {NoUser},
             seen : Rows, new : Rows]

MembershipTypeOK ==
    /\ member \in [Users -> Rows]
    /\ invitation \in [Invitations ->
          [status : Statuses, user : Users \cup {NoUser}, role : Roles \cup {"none"}]]
    /\ org \in [active : BOOLEAN, deleted : BOOLEAN]
    /\ call \in [Calls -> CallRows]
    /\ joinedLate \subseteq Users

MembershipInit ==
    /\ member = [u \in Users |-> NoRow]
    /\ invitation = [i \in Invitations |-> Unsent]
    /\ org = [active |-> FALSE, deleted |-> FALSE]
    /\ call = [c \in Calls |-> NoCall]
    /\ joinedLate = {}

\* The roles and the membership of the creator, and the billing account, in one transaction.
OwnersRow == [role |-> "Owner", active |-> TRUE, deleted |-> FALSE]
CreateOrganization ==
    /\ member[Creator] = NoRow
    /\ member' = [member EXCEPT ![Creator] = OwnersRow]
    /\ org' = [active |-> TRUE, deleted |-> FALSE]
    /\ UNCHANGED <<invitation, call, joinedLate>>

-----------------------------------------------------------------------------
(* Permissions and the role hierarchy.                                     *)

Permissions ==
    [Owner |-> {"manage_users", "assign_roles", "invite_users", "manage_organization",
                "delete_organization"},
     Admin |-> {"manage_users", "assign_roles", "invite_users", "manage_organization"},
     Manager |-> {"invite_users"},
     Member |-> {}]
Level == [Member |-> 1, Manager |-> 2, Admin |-> 3, Owner |-> 4]
\* create_role_from_template, and the four roles it makes for an organization.
RoleFromTemplate(name) == [permissions |-> Permissions[name], level |-> Level[name]]
OrganizationRoles == [name \in Roles |-> RoleFromTemplate(name)]

\* check_user_permission: of the row, is_active alone counts; a removed member keeps it.
HasPermission(u, permission) ==
    member[u].active /\ permission \in OrganizationRoles[member[u].role].permissions

\* can_manage_role compares what it is given, and validate_role_hierarchy gives it the names.
NameOrder == [Admin |-> 1, Manager |-> 2, Member |-> 3, Owner |-> 4]
\* (CanManageEqual is its mutant.)
CanManageEqual(role, target) == NameOrder[role] >= NameOrder[target]
CanManage(role, target) == NameOrder[role] > NameOrder[target]
CanAssign(role, target) == role = "Owner" \/ OrganizationRoles[role].level > OrganizationRoles[target].level

\* validate_role_hierarchy: both rows exist, in whatever state.
MayManage(by, u) ==
    /\ member[by] # NoRow /\ member[u] # NoRow
    /\ CanManage(member[by].role, member[u].role)

-----------------------------------------------------------------------------
(* What a request reads, and what it will write.                           *)

Begin(c, fields) == call[c] = NoCall /\ call' = [call EXCEPT ![c] = fields]

\* set_membership_status, update_user_role_in_organization, soft_delete_member: one column of
\* u's row; a removal leaves is_active as it is.
SetStatus(u, active) == [member[u] EXCEPT !.active = active]
SetRole(u, role) == [member[u] EXCEPT !.role = role]
SoftDelete(u) == [member[u] EXCEPT !.deleted = TRUE]
\* The row as read, and as it will be.
Changing(c, u, new) ==
    Begin(c, [op |-> "change", on |-> NoUser, user |-> u, seen |-> member[u], new |-> new])

UpdateMemberStatus(c, by, u, active) ==
    /\ by # u /\ HasPermission(by, "manage_users") /\ MayManage(by, u)
    /\ Changing(c, u, SetStatus(u, active))
    /\ UNCHANGED <<member, invitation, org, joinedLate>>

UpdateMemberRole(c, by, u, role) ==
    /\ by # u /\ HasPermission(by, "assign_roles") /\ MayManage(by, u)
    /\ CanAssign(member[by].role, role)
    /\ Changing(c, u, SetRole(u, role))
    /\ UNCHANGED <<member, invitation, org, joinedLate>>

\* soft_delete_member refuses a removed row.
DeleteMember(c, by, u) ==
    /\ by # u /\ HasPermission(by, "manage_users") /\ MayManage(by, u)
    /\ ~member[u].deleted
    /\ Changing(c, u, SoftDelete(u))
    /\ UNCHANGED <<member, invitation, org, joinedLate>>

\* send_invitation refuses who has a row, removed or not.
InviteUser(c, by, u, role) ==
    /\ HasPermission(by, "invite_users") /\ ~org.deleted /\ member[u] = NoRow
    /\ Cardinality({d \in Calls : call[d].op = "invite"})
          < Cardinality({i \in Invitations : invitation[i] = Unsent})
    /\ Begin(c, [NoCall EXCEPT !.op = "invite", !.user = u, !.new.role = role])
    /\ UNCHANGED <<member, invitation, org, joinedLate>>

CancelInvitation(c, by, i) ==
    /\ HasPermission(by, "manage_users") \/ HasPermission(by, "invite_users")
    /\ invitation[i].status = "pending"
    /\ Begin(c, [NoCall EXCEPT !.op = "cancel", !.on = i])
    /\ UNCHANGED <<member, invitation, org, joinedLate>>

\* The invited user accepts, or registers with the invitation's token; whether the organization
\* still exists is not asked.
AcceptInvitation(c, i) ==
    LET u == invitation[i].user
    IN /\ invitation[i].status = "pending"
       /\ Begin(c, [op |-> "accept", on |-> i, user |-> u, seen |-> member[u],
                    new |-> [role |-> invitation[i].role, active |-> TRUE, deleted |-> FALSE]])
       /\ UNCHANGED <<member, invitation, org, joinedLate>>

UpdateOrganization(c, by, active) ==
    /\ HasPermission(by, "manage_organization") /\ ~org.deleted
    /\ active # org.active
    /\ Begin(c, [NoCall EXCEPT !.op = "update", !.new.active = active])
    /\ UNCHANGED <<member, invitation, org, joinedLate>>

\* Mutant of Remaining: deactivated members do not count.
RemainingActive == {u \in Users : member[u].active /\ ~member[u].deleted}
\* get_all_users_in_organization: active_only is about the user's account; rows not removed count.
Remaining == {u \in Users : member[u] # NoRow /\ ~member[u].deleted}

DeleteOrganization(c, by) ==
    /\ HasPermission(by, "delete_organization") /\ ~org.deleted
    /\ member[by].role = "Owner"
    /\ Remaining \subseteq {by}
    /\ Begin(c, [NoCall EXCEPT !.op = "delete"])
    /\ UNCHANGED <<member, invitation, org, joinedLate>>

-----------------------------------------------------------------------------
(* What it writes.                                                         *)

Ends(c) == call' = [call EXCEPT ![c] = NoCall]
Closed(c) == invitation' = [invitation EXCEPT ![call[c].on].status = "closed"]

\* The column that differs from the row as read.
CommitChange(c) ==
    LET u == call[c].user  seen == call[c].seen  new == call[c].new
        Merged(f) == IF new[f] # seen[f] THEN new[f] ELSE member[u][f]
    IN /\ call[c].op = "change" /\ Ends(c)
       /\ member' = [member EXCEPT ![u] = [f \in DOMAIN NoRow |-> Merged(f)]]
       /\ UNCHANGED <<invitation, org, joinedLate>>

CommitInvitation(c) ==
    /\ call[c].op = "invite" /\ Ends(c)
    /\ \E i \in Invitations :
          /\ invitation[i] = Unsent
          /\ invitation' = [invitation EXCEPT ![i] =
                [status |-> "pending", user |-> call[c].user, role |-> call[c].new.role]]
    /\ UNCHANGED <<member, org, joinedLate>>

CommitCancel(c) ==
    /\ call[c].op = "cancel" /\ Ends(c)
    /\ Closed(c)
    /\ UNCHANGED <<member, org, joinedLate>>

BeingDeleted == org.deleted \/ \E c \in Calls : call[c].op = "delete"

\* Mutant of AlreadyMember: the row there is gets the invitation's values.
ReactivatedMember(c) ==
    /\ call[c].op = "accept" /\ call[c].seen # NoRow /\ Ends(c)
    /\ Closed(c)
    /\ member' = [member EXCEPT ![call[c].user] = call[c].new]
    /\ UNCHANGED <<org, joinedLate>>

\* Who has a row, be it a removed one, is told to be a member already.
AlreadyMember(c) ==
    /\ call[c].op = "accept" /\ call[c].seen # NoRow /\ Ends(c)
    /\ Closed(c)
    /\ UNCHANGED <<member, org, joinedLate>>

\* The unique key on user and organization.
Join(c) ==
    LET u == call[c].user
    IN /\ call[c].op = "accept" /\ call[c].seen = NoRow /\ Ends(c)
       /\ member[u] = NoRow
       /\ member' = [member EXCEPT ![u] = call[c].new]
       /\ Closed(c)
       /\ joinedLate' = IF BeingDeleted THEN joinedLate \cup {u} ELSE joinedLate
       /\ UNCHANGED org

JoinConflicts(c) ==
    /\ call[c].op = "accept" /\ call[c].seen = NoRow /\ Ends(c)
    /\ member[call[c].user] # NoRow
    /\ UNCHANGED <<member, invitation, org, joinedLate>>

InvitationExpired(c) ==
    /\ call[c].op = "accept" /\ Ends(c)
    /\ Closed(c)
    /\ UNCHANGED <<member, org, joinedLate>>

CommitUpdate(c) ==
    /\ call[c].op = "update" /\ Ends(c)
    /\ org' = [org EXCEPT !.active = call[c].new.active]
    /\ UNCHANGED <<member, invitation, joinedLate>>

CommitDelete(c) ==
    /\ call[c].op = "delete" /\ Ends(c)
    /\ org' = [active |-> FALSE, deleted |-> TRUE]
    /\ UNCHANGED <<member, invitation, joinedLate>>

\* The request fails before its commit and is rolled back.
RollBack(c) ==
    /\ call[c] # NoCall /\ Ends(c)
    /\ UNCHANGED <<member, invitation, org, joinedLate>>

-----------------------------------------------------------------------------
ChangeMembers(c) ==
    \/ \E by, u \in Users :
          \/ \E active \in BOOLEAN : UpdateMemberStatus(c, by, u, active)
          \/ \E role \in OfferedRoles : UpdateMemberRole(c, by, u, role)
          \/ DeleteMember(c, by, u)
    \/ CommitChange(c)

Invite(c) ==
    \/ \E by, u \in Users, role \in OfferedRoles : InviteUser(c, by, u, role)
    \/ \E by \in Users, i \in Invitations : CancelInvitation(c, by, i)
    \/ CommitInvitation(c) \/ CommitCancel(c)

Accept(c) ==
    \/ \E i \in Invitations : AcceptInvitation(c, i)
    \/ AlreadyMember(c) \/ Join(c) \/ JoinConflicts(c) \/ InvitationExpired(c)

ChangeOrganization(c) ==
    \/ \E by \in Users : DeleteOrganization(c, by)
    \/ \E by \in Users, active \in BOOLEAN : UpdateOrganization(c, by, active)
    \/ CommitUpdate(c) \/ CommitDelete(c)

MembershipNext ==
    \/ CreateOrganization
    \/ \E c \in Calls :
          ChangeMembers(c) \/ Invite(c) \/ Accept(c) \/ ChangeOrganization(c) \/ RollBack(c)

MembershipSpec == MembershipInit /\ [][MembershipNext]_membershipVars

\* Whatever the order of the requests and however old their reads, the creator stays an active
\* Owner: the organization is never left without one.
OwnerRemains == (\E u \in Users : member[u] # NoRow) => member[Creator] = OwnersRow

\* Who was removed stays removed: no invitation that was still open brings them back.
RemovedStaysRemoved == [][\A u \in Users : member[u].deleted => member'[u].deleted]_member

\* An organization is deleted only when nobody is left beside its Owner, deactivated members
\* included; those who join after the members were counted are the exception.
DeletedAlone ==
    org.deleted => Cardinality({u \in Users \ joinedLate :
                                  member[u] # NoRow /\ ~member[u].deleted}) <= 1
=============================================================================

-------------------------- MODULE Workspace_proofs --------------------------
(***************************************************************************)
(* Proofs about the parts of Workspace: Membership, Forms, Plans,          *)
(* Projects, PageCapture, Realtime and Jurisdictions, each for its own     *)
(* specification; at the end, that a behaviour of Workspace is one of each *)
(* part.                                                                   *)
(***************************************************************************)
EXTENDS Workspace, SequenceTheorems, FiniteSetTheorems, NaturalsInduction,
        WellFoundedInduction, TLAPS

-----------------------------------------------------------------------------
(***************************************************************************)
(* Membership. Whatever a request decided on may be old when it commits,   *)
(* so the safety of the rows rests on what a stored request can hold: no   *)
(* change is about the creator's row, since no role's name comes after     *)
(* "Owner", and no change brings a removed member back.                    *)
(***************************************************************************)

\* The creator is the first member: before, there is nothing; afterwards, they are the Owner.
FounderFirst ==
    \/ member[Creator] = OwnersRow
    \/ /\ \A u \in Users : member[u] = NoRow
       /\ \A i \in Invitations : invitation[i] = Unsent
       /\ \A c \in Calls : call[c] = NoCall

\* What a request holds between its reads and its commit.
Sound(k) ==
    /\ k.op \in {"invite", "accept"} => k.user \in Users /\ k.new.role \in Roles
    /\ k.op \in {"accept", "cancel"} => k.on \in Invitations
    /\ k.op = "change" =>
          /\ k.user \in Users \ {Creator} /\ member[k.user] # NoRow
          /\ k.new.role \in Roles
          /\ k.new.deleted # k.seen.deleted => k.new.deleted
SoundRequests == \A c \in Calls : Sound(call[c])
SoundInvitations ==
    \A i \in Invitations :
        invitation[i].status = "pending" => invitation[i].user \in Users /\ invitation[i].role \in Roles
RowsHaveRoles == \A u \in Users : member[u] # NoRow => member[u].role \in Roles

\* From the count of a deletion on, only the Owner is left beside those who joined later.
CountedAlone == BeingDeleted => Remaining \ joinedLate \subseteq {Creator}

MembershipInv ==
    /\ MembershipTypeOK /\ FounderFirst /\ SoundRequests /\ SoundInvitations
    /\ RowsHaveRoles /\ CountedAlone

\* No removed row comes back in this step.
NobodyComesBack == \A u \in Users : member[u].deleted => member'[u].deleted

LEMMA PlainRows ==
    /\ NoRow \in Rows /\ OwnersRow \in Rows /\ OwnersRow # NoRow
    /\ NoRow.role = "none" /\ "none" \notin Roles /\ ~NoRow.deleted
    /\ OwnersRow.role = "Owner" /\ ~OwnersRow.deleted
<1>1. NoRow.role = "none" /\ OwnersRow.role = "Owner" /\ ~NoRow.deleted /\ ~OwnersRow.deleted
  BY DEF NoRow, OwnersRow
<1>2. NoRow \in Rows /\ OwnersRow \in Rows
  BY DEF NoRow, OwnersRow, Rows, Roles
<1>3. "none" \notin Roles
  BY DEF Roles
<1>4. OwnersRow # NoRow
  BY <1>1
<1> QED
  BY <1>1, <1>2, <1>3, <1>4

LEMMA NoCallIsSound == NoCall \in CallRows /\ Sound(NoCall) /\ NoCall.op = "none"
  BY PlainRows DEF NoCall, CallRows, Sound, Ops

\* No role outranks the Owner's by its name.
LEMMA NobodyManagesOwner == \A role \in Roles : ~CanManage(role, "Owner")
  BY DEF CanManage, NameOrder, Roles

LEMMA FoundedByMember ==
    ASSUME MembershipInv, NEW u \in Users, member[u] # NoRow
    PROVE  member[Creator] = OwnersRow
  BY MembershipAssumption DEF MembershipInv, FounderFirst

LEMMA PermittedIsMember ==
    ASSUME NEW by \in Users, NEW permission, HasPermission(by, permission)
    PROVE  member[by] # NoRow
  BY DEF HasPermission, NoRow

\* Who manages a member is not managing the creator.
LEMMA ManagedIsNotFounder ==
    ASSUME MembershipInv, NEW by \in Users, NEW u \in Users, MayManage(by, u)
    PROVE  /\ u # Creator /\ member[u] # NoRow /\ member[u].role \in Roles
           /\ member[Creator] = OwnersRow
<1>1. member[by] # NoRow /\ member[u] # NoRow /\ CanManage(member[by].role, member[u].role)
  BY DEF MayManage
<1>2. member[by].role \in Roles /\ member[u].role \in Roles
  BY <1>1 DEF MembershipInv, RowsHaveRoles
<1>3. member[Creator] = OwnersRow
  BY <1>1, FoundedByMember
<1>4. u # Creator
  BY <1>1, <1>2, <1>3, NobodyManagesOwner, PlainRows
<1> QED
  BY <1>1, <1>2, <1>3, <1>4

\* A step of one request, once the organization exists.
LEMMA OneRequest ==
    ASSUME MembershipInv, NEW c \in Calls, NEW k \in CallRows,
           call' = [call EXCEPT ![c] = k], Sound(k),
           member[Creator] = OwnersRow, member'[Creator] = OwnersRow,
           member' \in [Users -> Rows], RowsHaveRoles',
           \A u \in Users : member[u] # NoRow => member'[u] # NoRow,
           invitation' \in [Invitations ->
              [status : Statuses, user : Users \cup {NoUser}, role : Roles \cup {"none"}]],
           SoundInvitations', org' \in [active : BOOLEAN, deleted : BOOLEAN],
           joinedLate' \subseteq Users, CountedAlone'
    PROVE  MembershipInv'
<1>1. call \in [Calls -> CallRows]
  BY DEF MembershipInv, MembershipTypeOK
<1>2. call' \in [Calls -> CallRows]
  BY <1>1
<1>3. ASSUME NEW d \in Calls PROVE Sound(call[d])'
  <2>1. Sound(call'[d])
    <3>1. CASE d = c
      BY <3>1, <1>1
    <3>2. CASE d # c
      BY <3>2, <1>1 DEF MembershipInv, SoundRequests
    <3> QED
      BY <3>1, <3>2
  <2> QED
    BY <2>1 DEF Sound
<1> QED
  BY <1>2, <1>3 DEF MembershipInv, MembershipTypeOK, FounderFirst, SoundRequests

\* A request has read, and holds k.
LEMMA RequestReads ==
    ASSUME MembershipInv, NEW c \in Calls, NEW k \in CallRows, Begin(c, k), Sound(k),
           member[Creator] = OwnersRow, k.op = "delete" => Remaining \subseteq {Creator},
           UNCHANGED <<member, invitation, org, joinedLate>>
    PROVE  MembershipInv' /\ NobodyComesBack
<1>1. call' = [call EXCEPT ![c] = k]
  BY DEF Begin
<1>2. CountedAlone'
  <2>1. SUFFICES ASSUME BeingDeleted' PROVE Remaining \ joinedLate \subseteq {Creator}
    BY DEF CountedAlone, Remaining
  <2>2. CASE k.op = "delete"
    BY <2>2
  <2>3. CASE k.op # "delete"
    <3>1. call \in [Calls -> CallRows]
      BY DEF MembershipInv, MembershipTypeOK
    <3>2. BeingDeleted
      BY <1>1, <2>1, <2>3, <3>1 DEF BeingDeleted
    <3> QED
      BY <3>2 DEF MembershipInv, CountedAlone
  <2> QED
    BY <2>2, <2>3
<1>3. RowsHaveRoles' /\ SoundInvitations'
  BY DEF MembershipInv, RowsHaveRoles, SoundInvitations
<1>4. MembershipInv'
  BY <1>1, <1>2, <1>3, OneRequest DEF MembershipInv, MembershipTypeOK
<1> QED
  BY <1>4 DEF NobodyComesBack

\* A request ends: rows stay, nobody comes back, and nobody new is left but by joining late.
LEMMA RequestCommits ==
    ASSUME MembershipInv, NEW c \in Calls, call[c] # NoCall, Ends(c),
           member' \in [Users -> Rows], member'[Creator] = member[Creator], RowsHaveRoles',
           \A u \in Users : member[u] # NoRow => member'[u] # NoRow,
           invitation' \in [Invitations ->
              [status : Statuses, user : Users \cup {NoUser}, role : Roles \cup {"none"}]],
           SoundInvitations', org' \in [active : BOOLEAN, deleted : BOOLEAN],
           joinedLate' \subseteq Users,
           BeingDeleted' => BeingDeleted,
           BeingDeleted => Remaining' \ joinedLate' \subseteq Remaining \ joinedLate
    PROVE  MembershipInv'
<1>1. member[Creator] = OwnersRow
  BY DEF MembershipInv, FounderFirst
<1>2. CountedAlone'
  BY DEF MembershipInv, CountedAlone
<1> QED
  BY <1>1, <1>2, NoCallIsSound, OneRequest DEF Ends

-----------------------------------------------------------------------------
(* What the requests read.                                                 *)

\* A member that is not the creator, whose row a request may read to change it.
ManagedMember(u) ==
    /\ u \in Users \ {Creator} /\ member[u] # NoRow /\ member[u].role \in Roles
    /\ member[u] \in Rows /\ member[Creator] = OwnersRow
LEMMA Managed ==
    ASSUME MembershipInv, NEW by \in Users, NEW u \in Users, MayManage(by, u)
    PROVE  ManagedMember(u)
  BY ManagedIsNotFounder DEF ManagedMember, MembershipInv, MembershipTypeOK

LEMMA ChangeReads ==
    ASSUME MembershipInv, NEW c \in Calls, NEW u, ManagedMember(u), NEW row \in Rows,
           row.role \in Roles, row.deleted # member[u].deleted => row.deleted,
           Changing(c, u, row), UNCHANGED <<member, invitation, org, joinedLate>>
    PROVE  MembershipInv' /\ NobodyComesBack
<1> DEFINE k == [op |-> "change", on |-> NoUser, user |-> u, seen |-> member[u], new |-> row]
<1>1. k \in CallRows
  BY DEF CallRows, Ops, ManagedMember
<1>2. Sound(k)
  BY DEF Sound, ManagedMember
<1>3. Begin(c, k)
  BY DEF Changing
<1> QED
  BY <1>1, <1>2, <1>3, RequestReads DEF ManagedMember

LEMMA UpdateStatusOK ==
    ASSUME MembershipInv, NEW c \in Calls, NEW by \in Users, NEW u \in Users,
           NEW active \in BOOLEAN, UpdateMemberStatus(c, by, u, active)
    PROVE  MembershipInv' /\ NobodyComesBack
<1>1. PICK row : row = SetStatus(u, active)
  OBVIOUS
<1>2. ManagedMember(u)
  BY Managed DEF UpdateMemberStatus
<1>3. row \in Rows /\ row.role \in Roles /\ row.deleted = member[u].deleted
  BY <1>1, <1>2 DEF SetStatus, ManagedMember, Rows
<1>4. Changing(c, u, row) /\ UNCHANGED <<member, invitation, org, joinedLate>>
  BY <1>1 DEF UpdateMemberStatus
<1> QED
  BY <1>2, <1>3, <1>4, ChangeReads

LEMMA UpdateRoleOK ==
    ASSUME MembershipInv, NEW c \in Calls, NEW by \in Users, NEW u \in Users,
           NEW role \in OfferedRoles, UpdateMemberRole(c, by, u, role)
    PROVE  MembershipInv' /\ NobodyComesBack
<1>1. PICK row : row = SetRole(u, role)
  OBVIOUS
<1>2. ManagedMember(u)
  BY Managed DEF UpdateMemberRole
<1>3. role \in Roles
  BY MembershipAssumption DEF Roles
<1>4. row \in Rows /\ row.role = role /\ row.deleted = member[u].deleted
  BY <1>1, <1>2, <1>3 DEF SetRole, ManagedMember, Rows
<1>5. Changing(c, u, row) /\ UNCHANGED <<member, invitation, org, joinedLate>>
  BY <1>1 DEF UpdateMemberRole
<1> QED
  BY <1>2, <1>3, <1>4, <1>5, ChangeReads

LEMMA DeleteMemberOK ==
    ASSUME MembershipInv, NEW c \in Calls, NEW by \in Users, NEW u \in Users,
           DeleteMember(c, by, u)
    PROVE  MembershipInv' /\ NobodyComesBack
<1>1. PICK row : row = SoftDelete(u)
  OBVIOUS
<1>2. ManagedMember(u)
  BY Managed DEF DeleteMember
<1>3. row \in Rows /\ row.role \in Roles /\ row.deleted
  BY <1>1, <1>2 DEF SoftDelete, ManagedMember, Rows
<1>4. Changing(c, u, row) /\ UNCHANGED <<member, invitation, org, joinedLate>>
  BY <1>1 DEF DeleteMember
<1> QED
  BY <1>2, <1>3, <1>4, ChangeReads

LEMMA InviteOK ==
    ASSUME MembershipInv, NEW c \in Calls, NEW by \in Users, NEW u \in Users,
           NEW role \in OfferedRoles, InviteUser(c, by, u, role)
    PROVE  MembershipInv' /\ NobodyComesBack
<1>1. PICK k : k = [NoCall EXCEPT !.op = "invite", !.user = u, !.new.role = role]
  OBVIOUS
<1>2. role \in Roles
  BY MembershipAssumption DEF Roles
<1>3. k.op = "invite" /\ k.user = u /\ k.new.role = role /\ k \in CallRows
  BY <1>1, <1>2, PlainRows DEF NoCall, NoRow, Rows, CallRows, Ops
<1>4. Sound(k)
  BY <1>2, <1>3 DEF Sound
<1>5. member[Creator] = OwnersRow
  BY PermittedIsMember, FoundedByMember DEF InviteUser
<1> QED
  BY <1>1, <1>3, <1>4, <1>5, RequestReads DEF InviteUser

LEMMA CancelOK ==
    ASSUME MembershipInv, NEW c \in Calls, NEW by \in Users, NEW i \in Invitations,
           CancelInvitation(c, by, i)
    PROVE  MembershipInv' /\ NobodyComesBack
<1>1. PICK k : k = [NoCall EXCEPT !.op = "cancel", !.on = i]
  OBVIOUS
<1>2. k.op = "cancel" /\ k.on = i /\ k \in CallRows
  BY <1>1, PlainRows DEF NoCall, CallRows, Ops
<1>3. Sound(k)
  BY <1>2 DEF Sound
<1>4. member[Creator] = OwnersRow
  BY PermittedIsMember, FoundedByMember DEF CancelInvitation
<1> QED
  BY <1>1, <1>2, <1>3, <1>4, RequestReads DEF CancelInvitation

LEMMA AcceptOK ==
    ASSUME MembershipInv, NEW c \in Calls, NEW i \in Invitations, AcceptInvitation(c, i)
    PROVE  MembershipInv' /\ NobodyComesBack
<1> DEFINE row == [role |-> invitation[i].role, active |-> TRUE, deleted |-> FALSE]
           k == [op |-> "accept", on |-> i, user |-> invitation[i].user,
                 seen |-> member[invitation[i].user], new |-> row]
<1>1. invitation[i].status = "pending" /\ Begin(c, k)
  BY DEF AcceptInvitation
<1>2. invitation[i].user \in Users /\ invitation[i].role \in Roles
  BY <1>1 DEF MembershipInv, SoundInvitations
<1>3. row \in Rows /\ member[invitation[i].user] \in Rows
  BY <1>2 DEF Rows, MembershipInv, MembershipTypeOK
<1>4. k \in CallRows
  BY <1>2, <1>3 DEF CallRows, Ops
<1>5. Sound(k)
  BY <1>2 DEF Sound
<1>6. member[Creator] = OwnersRow
  BY <1>1 DEF MembershipInv, FounderFirst, Unsent
<1> QED
  BY <1>1, <1>4, <1>5, <1>6, RequestReads DEF AcceptInvitation

LEMMA UpdateOK ==
    ASSUME MembershipInv, NEW c \in Calls, NEW by \in Users, NEW active \in BOOLEAN,
           UpdateOrganization(c, by, active)
    PROVE  MembershipInv' /\ NobodyComesBack
<1>1. PICK k : k = [NoCall EXCEPT !.op = "update", !.new.active = active]
  OBVIOUS
<1>2. k.op = "update" /\ k \in CallRows
  BY <1>1, PlainRows DEF NoCall, NoRow, Rows, CallRows, Ops
<1>3. Sound(k)
  BY <1>2 DEF Sound
<1>4. member[Creator] = OwnersRow
  BY PermittedIsMember, FoundedByMember DEF UpdateOrganization
<1> QED
  BY <1>1, <1>2, <1>3, <1>4, RequestReads DEF UpdateOrganization

\* The count of a deletion leaves the caller alone, and the creator is always counted.
LEMMA DeleteOK ==
    ASSUME MembershipInv, NEW c \in Calls, NEW by \in Users, DeleteOrganization(c, by)
    PROVE  MembershipInv' /\ NobodyComesBack
<1>1. PICK k : k = [NoCall EXCEPT !.op = "delete"]
  OBVIOUS
<1>2. k.op = "delete" /\ k \in CallRows
  BY <1>1, PlainRows DEF NoCall, CallRows, Ops
<1>3. Sound(k)
  BY <1>2 DEF Sound
<1>4. member[Creator] = OwnersRow
  BY PermittedIsMember, FoundedByMember DEF DeleteOrganization
<1>5. Creator \in Remaining
  BY <1>4, PlainRows, MembershipAssumption DEF Remaining
<1>6. Remaining \subseteq {Creator}
  BY <1>5 DEF DeleteOrganization
<1> QED
  BY <1>1, <1>2, <1>3, <1>4, <1>6, RequestReads DEF DeleteOrganization

-----------------------------------------------------------------------------
(* What they write.                                                        *)

\* An end that leaves the members alone.
LEMMA EndsAlone ==
    ASSUME MembershipInv, NEW c \in Calls, call[c] # NoCall, Ends(c),
           UNCHANGED <<member, joinedLate>>,
           invitation' \in [Invitations ->
              [status : Statuses, user : Users \cup {NoUser}, role : Roles \cup {"none"}]],
           SoundInvitations', org' \in [active : BOOLEAN, deleted : BOOLEAN],
           BeingDeleted' => BeingDeleted
    PROVE  MembershipInv' /\ NobodyComesBack
<1>1. RowsHaveRoles' /\ Remaining' = Remaining
  BY DEF MembershipInv, RowsHaveRoles, Remaining
<1>2. member' \in [Users -> Rows] /\ joinedLate' \subseteq Users
  BY DEF MembershipInv, MembershipTypeOK
<1>3. MembershipInv'
  BY <1>1, <1>2, RequestCommits
<1> QED
  BY <1>3 DEF NobodyComesBack

\* An ended request deletes nothing any more.
LEMMA EndsCount ==
    ASSUME MembershipInv, NEW c \in Calls, Ends(c), org'.deleted => BeingDeleted
    PROVE  BeingDeleted' => BeingDeleted
<1>1. call \in [Calls -> CallRows]
  BY DEF MembershipInv, MembershipTypeOK
<1>2. \A d \in Calls : call'[d].op = "delete" => call[d].op = "delete"
  BY <1>1, NoCallIsSound DEF Ends
<1> QED
  BY <1>2 DEF BeingDeleted

InvitationRows == [status : Statuses, user : Users \cup {NoUser}, role : Roles \cup {"none"}]

\* One invitation changes, and is sound if it is pending.
LEMMA OneInvitation ==
    ASSUME MembershipInv, NEW i \in Invitations, NEW row \in InvitationRows,
           invitation' = [invitation EXCEPT ![i] = row],
           row.status = "pending" => row.user \in Users /\ row.role \in Roles
    PROVE  invitation' \in [Invitations -> InvitationRows] /\ SoundInvitations'
<1>1. invitation \in [Invitations -> InvitationRows]
  BY DEF MembershipInv, MembershipTypeOK, InvitationRows
<1>2. invitation' \in [Invitations -> InvitationRows]
  BY <1>1
<1>3. ASSUME NEW j \in Invitations, invitation'[j].status = "pending"
      PROVE  invitation'[j].user \in Users /\ invitation'[j].role \in Roles
  <2>1. CASE j = i
    BY <2>1, <1>1, <1>3
  <2>2. CASE j # i
    <3>1. invitation'[j] = invitation[j]
      BY <2>2, <1>1
    <3> QED
      BY <3>1, <1>3 DEF MembershipInv, SoundInvitations
  <2> QED
    BY <2>1, <2>2
<1> QED
  BY <1>2, <1>3 DEF SoundInvitations

LEMMA ClosedIsSound ==
    ASSUME MembershipInv, NEW c \in Calls, call[c].op \in {"accept", "cancel"}, Closed(c)
    PROVE  invitation' \in [Invitations -> InvitationRows] /\ SoundInvitations'
<1>1. call[c].on \in Invitations
  BY DEF MembershipInv, SoundRequests, Sound
<1>2. PICK i \in Invitations : i = call[c].on
  BY <1>1
<1>3. PICK row : row = [invitation[i] EXCEPT !.status = "closed"]
  OBVIOUS
<1>4. invitation \in [Invitations -> InvitationRows]
  BY DEF MembershipInv, MembershipTypeOK, InvitationRows
<1>5. row \in InvitationRows /\ row.status = "closed"
  BY <1>3, <1>4 DEF InvitationRows, Statuses
<1>6. invitation' = [invitation EXCEPT ![i] = row]
  BY <1>2, <1>3 DEF Closed
<1> QED
  BY <1>5, <1>6, OneInvitation

LEMMA SameInvitations ==
    ASSUME MembershipInv, UNCHANGED invitation
    PROVE  invitation' \in [Invitations -> InvitationRows] /\ SoundInvitations'
  BY DEF MembershipInv, MembershipTypeOK, SoundInvitations, InvitationRows

LEMMA SameOrganization ==
    ASSUME MembershipInv, UNCHANGED org
    PROVE  org' \in [active : BOOLEAN, deleted : BOOLEAN] /\ (org'.deleted => BeingDeleted)
  BY DEF MembershipInv, MembershipTypeOK, BeingDeleted
LEMMA EndsQuietly ==
    ASSUME MembershipInv, NEW c \in Calls, call[c] # NoCall, Ends(c),
           UNCHANGED <<member, org, joinedLate>>,
           invitation' \in [Invitations -> InvitationRows], SoundInvitations'
    PROVE  MembershipInv' /\ NobodyComesBack
<1>1. org' \in [active : BOOLEAN, deleted : BOOLEAN] /\ (BeingDeleted' => BeingDeleted)
  BY SameOrganization, EndsCount
<1> QED
  BY <1>1, EndsAlone DEF InvitationRows

LEMMA CommitInvitationOK ==
    ASSUME MembershipInv, NEW c \in Calls, CommitInvitation(c)
    PROVE  MembershipInv' /\ NobodyComesBack
<1>1. PICK i \in Invitations :
         invitation' = [invitation EXCEPT ![i] =
            [status |-> "pending", user |-> call[c].user, role |-> call[c].new.role]]
  BY DEF CommitInvitation
<1>2. call[c].op = "invite" /\ Ends(c) /\ UNCHANGED <<member, org, joinedLate>>
  BY DEF CommitInvitation
<1>3. call[c].user \in Users /\ call[c].new.role \in Roles
  BY <1>2 DEF MembershipInv, SoundRequests, Sound
<1>4. PICK row : row = [status |-> "pending", user |-> call[c].user, role |-> call[c].new.role]
  OBVIOUS
<1>5. row \in InvitationRows /\ row.user \in Users /\ row.role \in Roles
  BY <1>3, <1>4 DEF InvitationRows, Statuses
<1>6. invitation' \in [Invitations -> InvitationRows] /\ SoundInvitations'
  BY <1>1, <1>4, <1>5, OneInvitation
<1> QED
  BY <1>2, <1>6, NoCallIsSound, EndsQuietly

LEMMA ClosesOK ==
    ASSUME MembershipInv, NEW c \in Calls, CommitCancel(c) \/ AlreadyMember(c) \/ InvitationExpired(c)
    PROVE  MembershipInv' /\ NobodyComesBack
<1>1. /\ call[c].op \in {"accept", "cancel"} /\ Ends(c) /\ Closed(c)
      /\ UNCHANGED <<member, org, joinedLate>>
  BY DEF CommitCancel, AlreadyMember, InvitationExpired
<1>2. call[c] # NoCall
  BY <1>1, NoCallIsSound
<1> QED
  BY <1>1, <1>2, ClosedIsSound, EndsQuietly

LEMMA EndsUnchangedOK ==
    ASSUME MembershipInv, NEW c \in Calls, JoinConflicts(c) \/ RollBack(c)
    PROVE  MembershipInv' /\ NobodyComesBack
<1>1. call[c] # NoCall /\ Ends(c) /\ UNCHANGED <<member, invitation, org, joinedLate>>
  BY NoCallIsSound DEF JoinConflicts, RollBack
<1> QED
  BY <1>1, SameInvitations, EndsQuietly

LEMMA CommitUpdateOK ==
    ASSUME MembershipInv, NEW c \in Calls, CommitUpdate(c)
    PROVE  MembershipInv' /\ NobodyComesBack
<1>1. org \in [active : BOOLEAN, deleted : BOOLEAN] /\ call[c].new.active \in BOOLEAN
  BY DEF MembershipInv, MembershipTypeOK, CallRows, Rows
<1>2. org' = [org EXCEPT !.active = call[c].new.active]
  BY DEF CommitUpdate
<1>3. org' \in [active : BOOLEAN, deleted : BOOLEAN] /\ org'.deleted = org.deleted
  BY <1>1, <1>2
<1>4. BeingDeleted' => BeingDeleted
  BY <1>3, EndsCount DEF CommitUpdate, BeingDeleted
<1> QED
  BY <1>3, <1>4, NoCallIsSound, SameInvitations, EndsAlone DEF CommitUpdate, InvitationRows

LEMMA CommitDeleteOK ==
    ASSUME MembershipInv, NEW c \in Calls, CommitDelete(c)
    PROVE  MembershipInv' /\ NobodyComesBack
<1>1. org' \in [active : BOOLEAN, deleted : BOOLEAN] /\ BeingDeleted
  BY DEF CommitDelete, BeingDeleted
<1> QED
  BY <1>1, NoCallIsSound, SameInvitations, EndsAlone DEF CommitDelete, InvitationRows

\* Rows of a step that changes u's row alone, and not the creator's.
OtherRows(u) == \A v \in Users : v # u => member'[v] = member[v]

\* A change writes one column of a row that is not the creator's and is not gone.
LEMMA CommitChangeOK ==
    ASSUME MembershipInv, NEW c \in Calls, CommitChange(c)
    PROVE  MembershipInv' /\ NobodyComesBack
<1>1. call[c].op = "change" /\ Ends(c) /\ UNCHANGED <<invitation, org, joinedLate>>
  BY DEF CommitChange
<1>2. PICK u \in Users \ {Creator} : u = call[c].user
  BY <1>1 DEF MembershipInv, SoundRequests, Sound
<1>3. /\ member[u] # NoRow /\ call[c].new.role \in Roles
      /\ call[c].new.deleted # call[c].seen.deleted => call[c].new.deleted
  BY <1>1, <1>2 DEF MembershipInv, SoundRequests, Sound
<1>4. call[c].new \in Rows /\ call[c].seen \in Rows /\ member \in [Users -> Rows]
  BY DEF MembershipInv, MembershipTypeOK, CallRows
<1> DEFINE Merged(f) == IF call[c].new[f] # call[c].seen[f] THEN call[c].new[f] ELSE member[u][f]
<1>5. PICK row : row = [f \in DOMAIN NoRow |-> Merged(f)]
  OBVIOUS
<1>6. member' = [member EXCEPT ![u] = row]
  BY <1>2, <1>5 DEF CommitChange
<1>7. DOMAIN NoRow = {"role", "active", "deleted"}
  BY DEF NoRow
<1>8. row = [role |-> Merged("role"), active |-> Merged("active"), deleted |-> Merged("deleted")]
  BY <1>5, <1>7
<1>9. member[u].role \in Roles
  BY <1>3 DEF MembershipInv, RowsHaveRoles
<1>10. row \in Rows /\ row.role \in Roles /\ (member[u].deleted => row.deleted)
  BY <1>3, <1>4, <1>8, <1>9 DEF Rows
<1>11. member' \in [Users -> Rows] /\ member'[u] = row /\ OtherRows(u)
  BY <1>4, <1>6, <1>10 DEF OtherRows
<1> HIDE DEF Merged
<1>12. row # NoRow
  BY <1>10, PlainRows
<1>13. RowsHaveRoles'
  BY <1>10, <1>11 DEF MembershipInv, RowsHaveRoles, OtherRows
<1>14. NobodyComesBack /\ \A v \in Users : member[v] # NoRow => member'[v] # NoRow
  BY <1>10, <1>11, <1>12 DEF NobodyComesBack, OtherRows
<1>15. Remaining' \subseteq Remaining
  BY <1>3, <1>10, <1>11 DEF Remaining, OtherRows
<1>16. member'[Creator] = member[Creator]
  BY <1>11, MembershipAssumption DEF OtherRows
<1>17. org' \in [active : BOOLEAN, deleted : BOOLEAN] /\ (BeingDeleted' => BeingDeleted)
  BY <1>1, SameOrganization, EndsCount
<1>18. joinedLate' \subseteq Users /\ Remaining' \ joinedLate' \subseteq Remaining \ joinedLate
  BY <1>1, <1>15 DEF MembershipInv, MembershipTypeOK
<1>19. MembershipInv'
  BY <1>1, <1>11, <1>13, <1>14, <1>16, <1>17, <1>18, NoCallIsSound, SameInvitations, RequestCommits
     DEF InvitationRows
<1> QED
  BY <1>14, <1>19

\* Who joins has no row, and is noted when a deletion has counted the members.
LEMMA JoinOK ==
    ASSUME MembershipInv, NEW c \in Calls, Join(c)
    PROVE  MembershipInv' /\ NobodyComesBack
<1>1. call[c].op = "accept" /\ Ends(c) /\ Closed(c) /\ UNCHANGED org /\ call[c] # NoCall
  BY NoCallIsSound DEF Join
<1>2. PICK u \in Users : u = call[c].user
  BY <1>1 DEF MembershipInv, SoundRequests, Sound
<1>3. PICK row \in Rows : row = call[c].new
  BY DEF MembershipInv, MembershipTypeOK, CallRows
<1>4. row.role \in Roles
  BY <1>1, <1>3 DEF MembershipInv, SoundRequests, Sound
<1>5. /\ member[u] = NoRow /\ member' = [member EXCEPT ![u] = row]
      /\ joinedLate' = IF BeingDeleted THEN joinedLate \cup {u} ELSE joinedLate
  BY <1>2, <1>3 DEF Join
<1>6. member \in [Users -> Rows] /\ joinedLate \subseteq Users
  BY DEF MembershipInv, MembershipTypeOK
<1>7. member' \in [Users -> Rows] /\ member'[u] = row /\ OtherRows(u)
  BY <1>5, <1>6 DEF OtherRows
<1>8. row # NoRow /\ RowsHaveRoles'
  BY <1>4, <1>7, PlainRows DEF MembershipInv, RowsHaveRoles, OtherRows
<1>9. NobodyComesBack /\ \A v \in Users : member[v] # NoRow => member'[v] # NoRow
  BY <1>5, <1>7, <1>8, PlainRows DEF NobodyComesBack, OtherRows
<1>10. member[Creator] = OwnersRow
  BY <1>1 DEF MembershipInv, FounderFirst
<1>11. member'[Creator] = member[Creator]
  BY <1>5, <1>7, <1>10, PlainRows, MembershipAssumption DEF OtherRows
<1>12. Remaining' \subseteq Remaining \cup {u}
  BY <1>7 DEF Remaining, OtherRows
<1>13. joinedLate' \subseteq Users /\ (BeingDeleted => Remaining' \ joinedLate' \subseteq Remaining \ joinedLate)
  BY <1>5, <1>6, <1>12
<1>14. org' \in [active : BOOLEAN, deleted : BOOLEAN] /\ (BeingDeleted' => BeingDeleted)
  BY <1>1, SameOrganization, EndsCount
<1>15. MembershipInv'
  BY <1>1, <1>7, <1>8, <1>9, <1>11, <1>13, <1>14, ClosedIsSound, RequestCommits DEF InvitationRows
<1> QED
  BY <1>9, <1>15

-----------------------------------------------------------------------------
LEMMA MembershipInitially == MembershipInit => MembershipInv
<1> SUFFICES ASSUME MembershipInit PROVE MembershipInv
  OBVIOUS
<1>1. MembershipTypeOK
  <2>1. member \in [Users -> Rows] /\ call \in [Calls -> CallRows] /\ joinedLate \subseteq Users
    BY PlainRows, NoCallIsSound DEF MembershipInit
  <2>2. Unsent \in InvitationRows
    BY DEF Unsent, InvitationRows, Statuses
  <2>3. invitation \in [Invitations -> InvitationRows]
    BY <2>2 DEF MembershipInit
  <2>4. org \in [active : BOOLEAN, deleted : BOOLEAN]
    BY DEF MembershipInit
  <2> QED
    BY <2>1, <2>3, <2>4 DEF MembershipTypeOK, InvitationRows
<1>2. FounderFirst /\ RowsHaveRoles
  BY DEF MembershipInit, FounderFirst, RowsHaveRoles
<1>3. SoundRequests /\ ~BeingDeleted
  <2>1. \A c \in Calls : Sound(NoCall) /\ call[c] = NoCall /\ call[c].op = "none"
    BY NoCallIsSound DEF MembershipInit
  <2>2. org.deleted = FALSE
    BY DEF MembershipInit
  <2> QED
    BY <2>1, <2>2 DEF SoundRequests, BeingDeleted
<1>4. SoundInvitations
  BY DEF MembershipInit, SoundInvitations, Unsent
<1> QED
  BY <1>1, <1>2, <1>3, <1>4 DEF MembershipInv, CountedAlone

LEMMA CreateOK ==
    ASSUME MembershipInv, CreateOrganization
    PROVE  MembershipInv' /\ NobodyComesBack
<1>1. /\ member[Creator] = NoRow /\ member' = [member EXCEPT ![Creator] = OwnersRow]
      /\ org' = [active |-> TRUE, deleted |-> FALSE] /\ UNCHANGED <<invitation, call, joinedLate>>
  BY DEF CreateOrganization
<1>2. member \in [Users -> Rows] /\ Creator \in Users
  BY MembershipAssumption DEF MembershipInv, MembershipTypeOK
<1>3. member' \in [Users -> Rows] /\ member'[Creator] = OwnersRow /\ OtherRows(Creator)
  BY <1>1, <1>2, PlainRows DEF OtherRows
<1>4. /\ \A u \in Users : member[u] = NoRow
      /\ \A c \in Calls : call[c] = NoCall
  BY <1>1, PlainRows DEF MembershipInv, FounderFirst
<1>5. MembershipTypeOK'
  BY <1>1, <1>3 DEF MembershipInv, MembershipTypeOK
<1>6. SoundRequests' /\ ~BeingDeleted'
  <2>1. \A c \in Calls : call'[c] = NoCall
    BY <1>1, <1>4
  <2>2. \A c \in Calls : call'[c].op = "none"
    BY <2>1, NoCallIsSound
  <2>3. \A c \in Calls : Sound(call[c])'
    BY <2>2 DEF Sound
  <2>4. ~org'.deleted
    BY <1>1
  <2> QED
    BY <2>2, <2>3, <2>4 DEF SoundRequests, BeingDeleted
<1>7. RowsHaveRoles' /\ NobodyComesBack
  BY <1>3, <1>4, PlainRows DEF RowsHaveRoles, NobodyComesBack, OtherRows, Roles
<1>8. SoundInvitations' /\ FounderFirst'
  BY <1>1, <1>3 DEF MembershipInv, SoundInvitations, FounderFirst
<1> QED
  BY <1>5, <1>6, <1>7, <1>8 DEF MembershipInv, CountedAlone

LEMMA MembershipStep ==
    ASSUME MembershipInv, [MembershipNext]_membershipVars
    PROVE  MembershipInv' /\ NobodyComesBack
<1>1. ASSUME NEW c \in Calls, ChangeMembers(c) PROVE MembershipInv' /\ NobodyComesBack
  BY <1>1, UpdateStatusOK, UpdateRoleOK, DeleteMemberOK, CommitChangeOK DEF ChangeMembers
<1>2. ASSUME NEW c \in Calls, Invite(c) PROVE MembershipInv' /\ NobodyComesBack
  BY <1>2, InviteOK, CancelOK, CommitInvitationOK, ClosesOK DEF Invite
<1>3. ASSUME NEW c \in Calls, Accept(c) PROVE MembershipInv' /\ NobodyComesBack
  BY <1>3, AcceptOK, ClosesOK, JoinOK, EndsUnchangedOK DEF Accept
<1>4. ASSUME NEW c \in Calls, ChangeOrganization(c) PROVE MembershipInv' /\ NobodyComesBack
  BY <1>4, DeleteOK, UpdateOK, CommitUpdateOK, CommitDeleteOK DEF ChangeOrganization
<1>5. CASE UNCHANGED membershipVars
  <2>1. UNCHANGED <<member, invitation, org, call, joinedLate>>
    BY <1>5 DEF membershipVars
  <2>2. \A c \in Calls : Sound(call[c])'
    BY <2>1 DEF MembershipInv, SoundRequests, Sound
  <2>3. MembershipTypeOK' /\ FounderFirst' /\ SoundInvitations' /\ RowsHaveRoles' /\ CountedAlone'
    BY <2>1 DEF MembershipInv, MembershipTypeOK, FounderFirst, SoundInvitations, RowsHaveRoles,
                CountedAlone, BeingDeleted, Remaining
  <2> QED
    BY <2>1, <2>2, <2>3 DEF MembershipInv, SoundRequests, NobodyComesBack
<1> QED
  BY <1>1, <1>2, <1>3, <1>4, <1>5, CreateOK, EndsUnchangedOK DEF MembershipNext

\* Rows, invitations, the organization and the requests in progress keep their types.
THEOREM MembershipTypes == MembershipSpec => []MembershipTypeOK
<1>1. MembershipInv /\ [MembershipNext]_membershipVars => MembershipInv'
  BY MembershipStep
<1>2. MembershipInv => MembershipTypeOK
  BY DEF MembershipInv
<1> QED
  BY MembershipInitially, <1>1, <1>2, PTL DEF MembershipSpec

\* Among any number of members, requests and invitations, however old their reads: the creator
\* stays an active Owner (validate_role_hierarchy, can_manage_role, accept_invitation).
THEOREM FounderStays == MembershipSpec => []OwnerRemains
<1>1. MembershipInv /\ [MembershipNext]_membershipVars => MembershipInv'
  BY MembershipStep
<1>2. MembershipInv => OwnerRemains
  BY DEF MembershipInv, FounderFirst, OwnerRemains
<1> QED
  BY MembershipInitially, <1>1, <1>2, PTL DEF MembershipSpec

\* A removal is final: no stored change and no open invitation undoes it
\* (soft_delete_member, accept_invitation).
THEOREM RemovalIsFinal == MembershipSpec => RemovedStaysRemoved
<1>1. MembershipInv /\ [MembershipNext]_membershipVars => MembershipInv'
  BY MembershipStep
<1>2. MembershipInv /\ [MembershipNext]_membershipVars
         => [\A u \in Users : member[u].deleted => member'[u].deleted]_member
  BY MembershipStep DEF NobodyComesBack
<1> QED
  BY MembershipInitially, <1>1, <1>2, PTL DEF MembershipSpec, RemovedStaysRemoved

\* A deleted organization leaves at most its Owner behind, but for those who joined after the
\* members were counted (delete_organization).
THEOREM NobodyLeftBehind == MembershipSpec => []DeletedAlone
<1>1. MembershipInv /\ [MembershipNext]_membershipVars => MembershipInv'
  BY MembershipStep
<1>2. MembershipInv => DeletedAlone
  <2> SUFFICES ASSUME MembershipInv, org.deleted
               PROVE  Cardinality({u \in Users \ joinedLate :
                                     member[u] # NoRow /\ ~member[u].deleted}) <= 1
    BY DEF DeletedAlone
  <2> DEFINE left == {u \in Users \ joinedLate : member[u] # NoRow /\ ~member[u].deleted}
  <2>1. left \subseteq {Creator}
    BY DEF MembershipInv, CountedAlone, BeingDeleted, Remaining
  <2>2. IsFiniteSet({Creator}) /\ Cardinality({Creator}) = 1
    BY FS_Singleton
  <2>3. Cardinality(left) <= 1
    BY <2>1, <2>2, FS_Subset
  <2> QED
    BY <2>3
<1> QED
  BY MembershipInitially, <1>1, <1>2, PTL DEF MembershipSpec

-----------------------------------------------------------------------------
(***************************************************************************)
(* Forms. The waitlist's promise rests on who is being confirmed: an       *)
(* address the service is about to mail, or has answered, is in the table  *)
(* already, and nothing takes it out again.                                *)
(***************************************************************************)

VisitPcs == {"idle", "insert", "confirm", "confirm again", "save", "tell admin", "tell visitor"}

\* Who is being confirmed is listed.
ConfirmedIsListed ==
    \A v \in Visits : visit[v].pc \in {"confirm", "confirm again"} => visit[v].by \in waitlist
\* A visit under way has a visitor.
VisitsHaveVisitors == \A v \in Visits : visit[v].pc # "idle" => visit[v].by \in Visitors
FormsInv == FormsTypeOK /\ ConfirmedIsListed /\ VisitsHaveVisitors /\ WaitlistKeepsItsWord

LEMMA LimitsAreNumbers ==
    /\ MaxContacts \in Nat /\ MaxContacts * IpMultiplier \in Nat
    /\ \A limit \in Nat : \A n \in 0..limit + 1 : Counted(n, limit) \in 0..limit + 1
<1>1. MaxContacts \in Nat /\ IpMultiplier \in Nat
  BY FormsAssumption
<1>2. MaxContacts * IpMultiplier \in Nat
  BY <1>1
<1>3. ASSUME NEW limit \in Nat, NEW n \in 0..limit + 1
      PROVE  Counted(n, limit) \in 0..limit + 1
  BY DEF Counted
<1> QED
  BY <1>1, <1>2, <1>3

\* Faults are counted, never forgiven.
LEMMA Faulty ==
    ASSUME FormsTypeOK, Fault \/ UNCHANGED faults
    PROVE  faults' \in 0..FormFaults /\ (faults' = 0 => faults = 0) /\ (Fault => faults' # 0)
<1>1. faults \in 0..FormFaults /\ FormFaults \in Nat
  BY FormsAssumption DEF FormsTypeOK
<1>2. CASE Fault
  BY <1>1, <1>2 DEF Fault
<1>3. CASE UNCHANGED faults
  BY <1>1, <1>3 DEF Fault
<1> QED
  BY <1>2, <1>3

LEMMA ToldWaitlist ==
    ASSUME FormsInv, faults' = 0 => faults = 0, waitlist' = waitlist,
           NEW a, NEW status, told' = told \cup {[by |-> a, status |-> status]},
           status # 500 \/ faults' = 0 => a \in waitlist
    PROVE  \A t \in told' : t.status # 500 \/ faults' = 0 => t.by \in waitlist'
  BY DEF FormsInv, WaitlistKeepsItsWord

\* A step that neither answers nor mails about the waitlist.
QuietForms == waitlist \subseteq waitlist' /\ told' = told /\ (faults' = 0 => faults = 0)
LEMMA QuietKeeps ==
    ASSUME FormsInv, QuietForms,
           \A e \in sent' : e.mail = "waitlist" => e \in sent \/ e.about \in waitlist
    PROVE  WaitlistKeepsItsWord'
  BY DEF FormsInv, QuietForms, WaitlistKeepsItsWord

\* One visit moves on, to a confirmation only if its address is listed.
LEMMA VisitMoves ==
    ASSUME FormsInv, NEW v \in Visits, waitlist \subseteq waitlist',
           NEW row \in [pc : VisitPcs, by : Visitors \cup {"nobody"}],
           visit' = [visit EXCEPT ![v] = row],
           row.pc \in {"confirm", "confirm again"} => row.by \in waitlist',
           row.pc # "idle" => row.by \in Visitors
    PROVE  /\ visit' \in [Visits -> [pc : VisitPcs, by : Visitors \cup {"nobody"}]]
           /\ ConfirmedIsListed' /\ VisitsHaveVisitors'
<1>1. visit \in [Visits -> [pc : VisitPcs, by : Visitors \cup {"nobody"}]]
  BY DEF FormsInv, FormsTypeOK, VisitPcs
<1>2. visit' \in [Visits -> [pc : VisitPcs, by : Visitors \cup {"nobody"}]]
  BY <1>1
<1>3. ASSUME NEW u \in Visits, visit'[u].pc \in {"confirm", "confirm again"}
      PROVE  visit'[u].by \in waitlist'
  <2>1. CASE u = v
    BY <2>1, <1>1, <1>3
  <2>2. CASE u # v
    <3>1. visit'[u] = visit[u]
      BY <2>2, <1>1
    <3> QED
      BY <3>1, <1>3 DEF FormsInv, ConfirmedIsListed
  <2> QED
    BY <2>1, <2>2
<1>4. ASSUME NEW u \in Visits, visit'[u].pc # "idle"
      PROVE  visit'[u].by \in Visitors
  <2>1. CASE u = v
    BY <2>1, <1>1, <1>4
  <2>2. CASE u # v
    <3>1. visit'[u] = visit[u]
      BY <2>2, <1>1
    <3> QED
      BY <3>1, <1>4 DEF FormsInv, VisitsHaveVisitors
  <2> QED
    BY <2>1, <2>2
<1> QED
  BY <1>2, <1>3, <1>4 DEF ConfirmedIsListed, VisitsHaveVisitors

LEMMA FormsInitially == FormsInit => FormsInv
<1>1. ASSUME FormsInit PROVE FormsTypeOK
  <2>1. visit \in [Visits -> [pc : VisitPcs, by : Visitors \cup {"nobody"}]]
    BY <1>1 DEF FormsInit, NoVisit, VisitPcs
  <2>2. attempts \in [Visitors -> 0..MaxContacts + 1]
    BY <1>1, LimitsAreNumbers DEF FormsInit
  <2>3. ipAttempts \in 0..MaxContacts * IpMultiplier + 1 /\ faults \in 0..FormFaults
    BY <1>1, LimitsAreNumbers, FormsAssumption DEF FormsInit
  <2> QED
    BY <1>1, <2>1, <2>2, <2>3 DEF FormsInit, FormsTypeOK, VisitPcs
<1>2. ASSUME FormsInit PROVE ConfirmedIsListed /\ VisitsHaveVisitors /\ WaitlistKeepsItsWord
  BY <1>2 DEF FormsInit, NoVisit, ConfirmedIsListed, VisitsHaveVisitors, WaitlistKeepsItsWord
<1> QED
  BY <1>1, <1>2 DEF FormsInv

-----------------------------------------------------------------------------
(* The waitlist.                                                           *)

\* The tables and counters that the waitlist's actions leave alone.
OtherForms == <<contacts, hires, attempts, ipAttempts>>
LEMMA OthersTyped ==
    ASSUME FormsInv, UNCHANGED OtherForms,
           waitlist' \subseteq Visitors, sent' \subseteq [mail : FormMails, about : Visitors],
           told' \subseteq [by : Visitors, status : {201, 400, 500}],
           visit' \in [Visits -> [pc : VisitPcs, by : Visitors \cup {"nobody"}]],
           faults' \in 0..FormFaults
    PROVE  FormsTypeOK'
<1>1. /\ contacts \subseteq Visitors /\ hires \subseteq Visitors
      /\ attempts \in [Visitors -> 0..MaxContacts + 1]
      /\ ipAttempts \in 0..MaxContacts * IpMultiplier + 1
  BY DEF FormsInv, FormsTypeOK
<1> QED
  BY <1>1 DEF FormsTypeOK, OtherForms, VisitPcs

\* The visits after a step.
VisitMoved ==
    /\ visit' \in [Visits -> [pc : VisitPcs, by : Visitors \cup {"nobody"}]]
    /\ ConfirmedIsListed' /\ VisitsHaveVisitors'

LEMMA GoesTo ==
    ASSUME FormsInv, NEW v \in Visits, NEW pc \in VisitPcs, GoTo(v, pc), waitlist \subseteq waitlist',
           visit[v].by \in Visitors, pc \in {"confirm", "confirm again"} => visit[v].by \in waitlist'
    PROVE  VisitMoved
<1>1. visit \in [Visits -> [pc : VisitPcs, by : Visitors \cup {"nobody"}]]
  BY DEF FormsInv, FormsTypeOK, VisitPcs
<1>2. PICK row : row = [visit[v] EXCEPT !.pc = pc]
  OBVIOUS
<1>3. visit' = [visit EXCEPT ![v] = row]
  BY <1>2 DEF GoTo
<1>4. row \in [pc : VisitPcs, by : Visitors \cup {"nobody"}] /\ row.pc = pc /\ row.by = visit[v].by
  BY <1>1, <1>2
<1> QED
  BY <1>3, <1>4, VisitMoves DEF VisitMoved

LEMMA Leaves ==
    ASSUME FormsInv, NEW v \in Visits, Leave(v), waitlist \subseteq waitlist'
    PROVE  VisitMoved
<1>1. NoVisit \in [pc : VisitPcs, by : Visitors \cup {"nobody"}] /\ NoVisit.pc = "idle"
  BY DEF NoVisit, VisitPcs
<1> QED
  BY <1>1, VisitMoves DEF VisitMoved, Leave

LEMMA Enters ==
    ASSUME FormsInv, NEW v \in Visits, NEW a \in Visitors, NEW pc \in {"insert", "save"},
           visit' = [visit EXCEPT ![v] = [pc |-> pc, by |-> a]], waitlist \subseteq waitlist'
    PROVE  VisitMoved
<1>1. PICK row : row = [pc |-> pc, by |-> a]
  OBVIOUS
<1>2. row \in [pc : VisitPcs, by : Visitors \cup {"nobody"}] /\ row.pc = pc /\ row.by = a
  BY <1>1 DEF VisitPcs
<1> QED
  BY <1>1, <1>2, VisitMoves DEF VisitMoved

LEMMA VisitStays ==
    ASSUME FormsInv, UNCHANGED visit, waitlist \subseteq waitlist'
    PROVE  VisitMoved
  BY DEF FormsInv, FormsTypeOK, ConfirmedIsListed, VisitsHaveVisitors, VisitMoved, VisitPcs

\* The visitor of a visit under way, listed when it is being confirmed.
LEMMA VisitorKnown ==
    ASSUME FormsInv, NEW v \in Visits, ~Visiting(v, "idle")
    PROVE  /\ visit[v].by \in Visitors
           /\ visit[v].pc \in {"confirm", "confirm again"} => visit[v].by \in waitlist
  BY DEF FormsInv, ConfirmedIsListed, VisitsHaveVisitors, Visiting

\* An e-mail to or about the visitor of a visit.
LEMMA VisitorMailed ==
    ASSUME FormsInv, NEW v \in Visits, NEW mail \in FormMails, Mail(v, mail),
           visit[v].by \in Visitors, mail = "waitlist" => visit[v].by \in waitlist
    PROVE  /\ sent' \subseteq [mail : FormMails, about : Visitors]
           /\ \A e \in sent' : e.mail = "waitlist" => e \in sent \/ e.about \in waitlist
           /\ faults' \in 0..FormFaults /\ (faults' = 0 => faults = 0)
<1>1. sent \subseteq [mail : FormMails, about : Visitors]
  BY DEF FormsInv, FormsTypeOK
<1>2. CASE sent' = sent \cup {[mail |-> mail, about |-> visit[v].by]} /\ UNCHANGED faults
  BY <1>1, <1>2, Faulty DEF FormsInv
<1>3. CASE UNCHANGED sent /\ Fault
  BY <1>1, <1>3, Faulty DEF FormsInv
<1> QED
  BY <1>2, <1>3 DEF Mail

\* A step of a visit that is none of the waitlist's answers.
LEMMA QuietStep ==
    ASSUME FormsInv, VisitMoved, waitlist' = waitlist, told' = told, UNCHANGED OtherForms,
           sent' \subseteq [mail : FormMails, about : Visitors],
           \A e \in sent' : e.mail = "waitlist" => e \in sent \/ e.about \in waitlist,
           faults' \in 0..FormFaults, faults' = 0 => faults = 0
    PROVE  FormsInv'
<1>1. FormsTypeOK'
  BY OthersTyped DEF VisitMoved, FormsInv, FormsTypeOK
<1>2. WaitlistKeepsItsWord'
  BY QuietKeeps DEF QuietForms
<1> QED
  BY <1>1, <1>2 DEF FormsInv, VisitMoved

\* Its answers: to who is listed, or with an error for which there was a fault.
LEMMA AnswerStep ==
    ASSUME FormsInv, VisitMoved, waitlist' = waitlist, UNCHANGED OtherForms,
           NEW a \in Visitors, NEW status \in {201, 400, 500},
           told' = told \cup {[by |-> a, status |-> status]},
           status # 500 \/ faults' = 0 => a \in waitlist,
           sent' \subseteq [mail : FormMails, about : Visitors],
           \A e \in sent' : e.mail = "waitlist" => e \in sent \/ e.about \in waitlist,
           faults' \in 0..FormFaults, faults' = 0 => faults = 0
    PROVE  FormsInv'
<1>1. told' \subseteq [by : Visitors, status : {201, 400, 500}]
  <2>1. told \subseteq [by : Visitors, status : {201, 400, 500}]
    BY DEF FormsInv, FormsTypeOK
  <2> QED
    BY <2>1
<1>2. FormsTypeOK'
  BY <1>1, OthersTyped DEF VisitMoved, FormsInv, FormsTypeOK
<1>3. \A t \in told' : t.status # 500 \/ faults' = 0 => t.by \in waitlist'
  BY ToldWaitlist
<1>4. WaitlistKeepsItsWord'
  BY <1>3 DEF FormsInv, WaitlistKeepsItsWord
<1> QED
  BY <1>2, <1>4 DEF FormsInv, VisitMoved

LEMMA SameForms == ASSUME FormsInv, UNCHANGED <<sent, faults>>
    PROVE  /\ sent' \subseteq [mail : FormMails, about : Visitors]
           /\ \A e \in sent' : e.mail = "waitlist" => e \in sent \/ e.about \in waitlist
           /\ faults' \in 0..FormFaults /\ (faults' = 0 => faults = 0)
  BY DEF FormsInv, FormsTypeOK

LEMMA SignUpOK == ASSUME FormsInv, NEW v \in Visits, NEW a \in Visitors, SignUp(v, a) PROVE FormsInv'
<1>1. VisitMoved
  BY Enters DEF SignUp
<1> QED
  BY <1>1, SameForms, QuietStep DEF SignUp, OtherForms

LEMMA SignUpAgainOK == ASSUME FormsInv, NEW a \in Visitors, SignUpAgain(a) PROVE FormsInv'
<1>1. VisitMoved
  BY VisitStays DEF SignUpAgain
<1> QED
  BY <1>1, SameForms, AnswerStep DEF SignUpAgain, EmailExists, OtherForms

LEMMA AddOK == ASSUME FormsInv, NEW v \in Visits, AddToWaitlist(v) PROVE FormsInv'
<1>1. visit[v].by \in Visitors
  BY VisitorKnown DEF AddToWaitlist, Visiting
<1>2. waitlist' = waitlist \cup {visit[v].by} /\ waitlist' \subseteq Visitors
  BY <1>1 DEF AddToWaitlist, FormsInv, FormsTypeOK
<1>3. VisitMoved
  BY <1>1, <1>2, GoesTo DEF AddToWaitlist, VisitPcs
<1>4. FormsTypeOK'
  BY <1>2, <1>3, SameForms, OthersTyped DEF AddToWaitlist, VisitMoved, OtherForms, FormsInv, FormsTypeOK
<1>5. WaitlistKeepsItsWord'
  BY <1>2, QuietKeeps DEF AddToWaitlist, QuietForms
<1> QED
  BY <1>3, <1>4, <1>5 DEF FormsInv, VisitMoved

LEMMA SignUpFailsOK == ASSUME FormsInv, NEW v \in Visits, SignUpFails(v) PROVE FormsInv'
<1>1. visit[v].by \in Visitors
  BY VisitorKnown DEF SignUpFails, Visiting
<1>2. PICK a \in Visitors : a = visit[v].by
  BY <1>1
<1>3. VisitMoved
  BY Leaves DEF SignUpFails
<1>4. /\ faults' \in 0..FormFaults /\ (faults' = 0 => faults = 0)
      /\ faults' = 0 => a \in waitlist
  BY <1>2, Faulty DEF SignUpFails, EmailExists, FormsInv
<1>5. told' = told \cup {[by |-> a, status |-> 500]}
  BY <1>2 DEF SignUpFails, Tell
<1>6. /\ waitlist' = waitlist /\ UNCHANGED OtherForms
      /\ sent' \subseteq [mail : FormMails, about : Visitors]
      /\ \A e \in sent' : e.mail = "waitlist" => e \in sent \/ e.about \in waitlist
  BY DEF SignUpFails, OtherForms, FormsInv, FormsTypeOK
<1> QED
  BY <1>3, <1>4, <1>5, <1>6, AnswerStep

LEMMA ConfirmOK == ASSUME FormsInv, NEW v \in Visits, Confirm(v) PROVE FormsInv'
<1>1. visit[v].by \in Visitors /\ visit[v].by \in waitlist
  BY VisitorKnown DEF Confirm, Visiting
<1>2. PICK a \in Visitors : a = visit[v].by
  BY <1>1
<1>3. VisitMoved
  BY <1>1, GoesTo DEF Confirm, VisitPcs
<1>4. told' = told \cup {[by |-> a, status |-> 201]}
  BY <1>2 DEF Confirm, Tell
<1>5. waitlist' = waitlist /\ UNCHANGED OtherForms
  BY DEF Confirm, OtherForms
<1>6. /\ sent' \subseteq [mail : FormMails, about : Visitors]
      /\ \A e \in sent' : e.mail = "waitlist" => e \in sent \/ e.about \in waitlist
      /\ faults' \in 0..FormFaults /\ (faults' = 0 => faults = 0)
  BY <1>1, VisitorMailed DEF Confirm, FormMails
<1> QED
  BY <1>1, <1>2, <1>3, <1>4, <1>5, <1>6, AnswerStep

LEMMA ConfirmAgainOK == ASSUME FormsInv, NEW v \in Visits, ConfirmAgain(v) PROVE FormsInv'
<1>1. visit[v].by \in Visitors /\ visit[v].by \in waitlist
  BY VisitorKnown DEF ConfirmAgain, Visiting
<1>2. VisitMoved
  BY Leaves DEF ConfirmAgain
<1>3. /\ sent' \subseteq [mail : FormMails, about : Visitors]
      /\ \A e \in sent' : e.mail = "waitlist" => e \in sent \/ e.about \in waitlist
      /\ faults' \in 0..FormFaults /\ (faults' = 0 => faults = 0)
  BY <1>1, VisitorMailed DEF ConfirmAgain, FormMails
<1> QED
  BY <1>2, <1>3, QuietStep DEF ConfirmAgain, OtherForms

-----------------------------------------------------------------------------
(* The contact form, the specialist requests, and the end of a visit: what *)
(* they write is none of the waitlist's.                                   *)

\* A step that also writes the other tables and counters.
LEMMA OtherStep ==
    ASSUME FormsInv, VisitMoved, waitlist' = waitlist, told' = told, sent' = sent,
           contacts' \subseteq Visitors, hires' \subseteq Visitors,
           attempts' \in [Visitors -> 0..MaxContacts + 1],
           ipAttempts' \in 0..MaxContacts * IpMultiplier + 1,
           faults' \in 0..FormFaults, faults' = 0 => faults = 0
    PROVE  FormsInv'
<1>1. /\ waitlist \subseteq Visitors /\ sent \subseteq [mail : FormMails, about : Visitors]
      /\ told \subseteq [by : Visitors, status : {201, 400, 500}]
  BY DEF FormsInv, FormsTypeOK
<1>2. FormsTypeOK'
  BY <1>1 DEF VisitMoved, FormsTypeOK, VisitPcs
<1>3. WaitlistKeepsItsWord'
  BY QuietKeeps DEF QuietForms
<1> QED
  BY <1>2, <1>3 DEF FormsInv, VisitMoved

LEMMA OthersNow ==
    ASSUME FormsInv
    PROVE  /\ contacts \subseteq Visitors /\ hires \subseteq Visitors
           /\ attempts \in [Visitors -> 0..MaxContacts + 1]
           /\ ipAttempts \in 0..MaxContacts * IpMultiplier + 1
           /\ faults \in 0..FormFaults
  BY DEF FormsInv, FormsTypeOK

LEMMA ContactOK ==
    ASSUME FormsInv, NEW v \in Visits, NEW a \in Visitors, ContactUs(v, a)
    PROVE  FormsInv'
<1>1. VisitMoved
  <2>1. CASE visit' = visit
    BY <2>1, VisitStays DEF ContactUs
  <2>2. CASE visit' = [visit EXCEPT ![v] = [pc |-> "save", by |-> a]]
    BY <2>2, Enters DEF ContactUs
  <2> QED
    BY <2>1, <2>2 DEF ContactUs
<1>2. attempts' \in [Visitors -> 0..MaxContacts + 1]
  <2>1. PICK n : n = Counted(attempts[a], MaxContacts)
    OBVIOUS
  <2>2. n \in 0..MaxContacts + 1
    BY <2>1, OthersNow, LimitsAreNumbers
  <2>3. attempts' = [attempts EXCEPT ![a] = n]
    BY <2>1 DEF ContactUs
  <2> QED
    BY <2>2, <2>3, OthersNow
<1>3. ipAttempts' \in 0..MaxContacts * IpMultiplier + 1
  BY OthersNow, LimitsAreNumbers DEF ContactUs
<1> QED
  BY <1>1, <1>2, <1>3, OthersNow, OtherStep DEF ContactUs

LEMMA UnlimitedOK ==
    ASSUME FormsInv, NEW v \in Visits, NEW a \in Visitors, LimitUnknown(v, a)
    PROVE  FormsInv'
<1>1. VisitMoved
  BY Enters DEF LimitUnknown
<1>2. faults' \in 0..FormFaults /\ (faults' = 0 => faults = 0)
  BY Faulty DEF LimitUnknown, FormsInv
<1> QED
  BY <1>1, <1>2, OthersNow, OtherStep DEF LimitUnknown

LEMMA LapseOK == ASSUME FormsInv, LimitLapses PROVE FormsInv'
<1>1. VisitMoved
  BY VisitStays DEF LimitLapses
<1>2. PICK m \in Nat : m = MaxContacts
  BY LimitsAreNumbers
<1>3. attempts' \in [Visitors -> 0..m + 1]
  <2>1. attempts \in [Visitors -> 0..m + 1]
    BY <1>2, OthersNow
  <2>2. CASE \E a \in Visitors : attempts' = [attempts EXCEPT ![a] = 0]
    BY <2>1, <2>2
  <2>3. CASE UNCHANGED attempts
    BY <2>1, <2>3
  <2> QED
    BY <2>2, <2>3 DEF LimitLapses
<1>4. ipAttempts' \in 0..MaxContacts * IpMultiplier + 1
  <2>1. 0 \in 0..MaxContacts * IpMultiplier + 1
    BY LimitsAreNumbers
  <2>2. ipAttempts' = 0 \/ ipAttempts' = ipAttempts
    BY DEF LimitLapses
  <2> QED
    BY <2>1, <2>2, OthersNow
<1> QED
  BY <1>1, <1>2, <1>3, <1>4, OthersNow, OtherStep DEF LimitLapses

LEMMA SubmitOK == ASSUME FormsInv, NEW v \in Visits, SubmitContactForm(v) \/ SubmitFails(v) PROVE FormsInv'
<1>1. visit[v].by \in Visitors
  BY VisitorKnown DEF SubmitContactForm, SubmitFails, Visiting
<1>2. VisitMoved
  BY <1>1, GoesTo DEF SubmitContactForm, SubmitFails, VisitPcs
<1>3. faults' \in 0..FormFaults /\ (faults' = 0 => faults = 0)
  BY Faulty DEF SubmitContactForm, SubmitFails, FormsInv
<1>4. contacts' \subseteq Visitors
  BY <1>1, OthersNow DEF SubmitContactForm, SubmitFails
<1> QED
  BY <1>2, <1>3, <1>4, OthersNow, OtherStep DEF SubmitContactForm, SubmitFails

LEMMA TellAdminOK == ASSUME FormsInv, NEW v \in Visits, TellAdmin(v) PROVE FormsInv'
<1>1. visit[v].by \in Visitors
  BY VisitorKnown DEF TellAdmin, Visiting
<1>2. VisitMoved
  BY <1>1, GoesTo DEF TellAdmin, VisitPcs
<1>3. /\ sent' \subseteq [mail : FormMails, about : Visitors]
      /\ \A e \in sent' : e.mail = "waitlist" => e \in sent \/ e.about \in waitlist
      /\ faults' \in 0..FormFaults /\ (faults' = 0 => faults = 0)
  BY <1>1, VisitorMailed DEF TellAdmin, FormMails
<1> QED
  BY <1>2, <1>3, QuietStep DEF TellAdmin, OtherForms

LEMMA TellVisitorOK == ASSUME FormsInv, NEW v \in Visits, TellVisitor(v) PROVE FormsInv'
<1>1. visit[v].by \in Visitors
  BY VisitorKnown DEF TellVisitor, Visiting
<1>2. VisitMoved
  BY Leaves DEF TellVisitor
<1>3. /\ sent' \subseteq [mail : FormMails, about : Visitors]
      /\ \A e \in sent' : e.mail = "waitlist" => e \in sent \/ e.about \in waitlist
      /\ faults' \in 0..FormFaults /\ (faults' = 0 => faults = 0)
  BY <1>1, VisitorMailed DEF TellVisitor, FormMails
<1> QED
  BY <1>2, <1>3, QuietStep DEF TellVisitor, OtherForms

LEMMA HireOK == ASSUME FormsInv, NEW a \in Visitors, HireSpecialist(a) PROVE FormsInv'
<1>1. VisitMoved
  BY VisitStays DEF HireSpecialist
<1> QED
  BY <1>1, OthersNow, OtherStep DEF HireSpecialist

LEMMA CutShortOK == ASSUME FormsInv, NEW v \in Visits, VisitCutShort(v) PROVE FormsInv'
<1>1. VisitMoved
  BY Leaves DEF VisitCutShort
<1>2. faults' \in 0..FormFaults /\ (faults' = 0 => faults = 0)
  BY Faulty DEF VisitCutShort, FormsInv
<1> QED
  BY <1>1, <1>2, OthersNow, OtherStep DEF VisitCutShort

LEMMA FormsStep == FormsInv /\ [FormsNext]_formVars => FormsInv'
<1> SUFFICES ASSUME FormsInv, [FormsNext]_formVars
             PROVE  FormsInv'
  OBVIOUS
<1>1. ASSUME NEW v \in Visits, Waitlist(v) PROVE FormsInv'
  BY <1>1, SignUpOK, AddOK, SignUpFailsOK, ConfirmOK, ConfirmAgainOK DEF Waitlist
<1>2. ASSUME NEW v \in Visits, Contact(v) PROVE FormsInv'
  BY <1>2, ContactOK, UnlimitedOK, SubmitOK, TellAdminOK, TellVisitorOK DEF Contact
<1>3. CASE UNCHANGED formVars
  <2>1. VisitMoved
    BY <1>3, VisitStays DEF formVars
  <2> QED
    BY <1>3, <2>1, OthersNow, OtherStep DEF formVars
<1> QED
  BY <1>1, <1>2, <1>3, CutShortOK, SignUpAgainOK, HireOK, LapseOK DEF FormsNext

\* Visits, rows, counters, e-mails and answers keep their types; no counter passes its limit by
\* more than the request that is refused for it (check_rate_limit).
THEOREM FormsTypes == FormsSpec => []FormsTypeOK
<1>1. FormsInv => FormsTypeOK
  BY DEF FormsInv
<1> QED
  BY FormsInitially, FormsStep, <1>1, PTL DEF FormsSpec

\* However many sign-ups overlap, fail or end early: who was told or mailed to be on the
\* waitlist is on it (WaitlistService.add_to_waitlist and the unique column).
THEOREM WordKept == FormsSpec => []WaitlistKeepsItsWord
<1>1. FormsInv => WaitlistKeepsItsWord
  BY DEF FormsInv
<1> QED
  BY FormsInitially, FormsStep, <1>1, PTL DEF FormsSpec

-----------------------------------------------------------------------------
(***************************************************************************)
(* Plans. A catalogue that is one release's stays so through any seeding   *)
(* of that release, however old the rows it has read: each column it       *)
(* writes, and each it leaves alone, has that release's value. The types   *)
(* need that rows are never taken away: a row that was read is still there *)
(* at the commit.                                                          *)
(***************************************************************************)

\* What a starting server has read is still there.
RowsStay ==
    \A s \in Servers, k \in PlanKeys :
        server[s].pc = "seeding" /\ server[s].saw[k] # NoPlan => plans[k] # NoPlan
\* It has a release.
ReleaseOfSeeding == \A s \in Servers : server[s].pc = "seeding" => server[s].release \in Releases
PlansInv == PlansTypeOK /\ RowsStay /\ ReleaseOfSeeding /\ CatalogueOfOneRelease

PlanRows == [PlanKeys -> BillingPlan]
ServerProcess == [pc : {"down", "seeding", "up"}, release : Releases \cup {"none"}, saw : PlanRows]

\* The columns of one plan: what a commit leaves when the row read is as old as it may be.
Column(seen, now, new) == IF new = seen THEN now ELSE new

LEMMA NoPlanIsAPlan == NoPlan \in BillingPlan /\ Down \in ServerProcess
  BY DEF NoPlan, BillingPlan, Down, ServerProcess, PlanRows

\* A plan is a row of a release, or none.
LEMMA PlanColumns ==
    /\ BillingPlan \subseteq [active : BOOLEAN, terms : Releases \cup {"none"}]
    /\ \A p \in BillingPlan : p # NoPlan => p.terms \in Releases
<1>1. NoPlan \in [active : BOOLEAN, terms : Releases \cup {"none"}]
  BY DEF NoPlan
<1>2. [active : BOOLEAN, terms : Releases] \subseteq [active : BOOLEAN, terms : Releases \cup {"none"}]
  OBVIOUS
<1>3. \A p \in BillingPlan : p = NoPlan \/ p \in [active : BOOLEAN, terms : Releases]
  BY DEF BillingPlan
<1> QED
  BY <1>1, <1>2, <1>3

LEMMA KeysOfReleases == \A r \in Releases : Catalogue[r] \subseteq PlanKeys
  BY DEF Releases, Catalogue, PlanKeys

LEMMA FlushedColumns ==
    ASSUME NEW s \in Servers, NEW k \in PlanKeys
    PROVE  LET saw == server[s].saw[k]
               new == Written(server[s].saw, server[s].release, k)
           IN  Flushed(s, k) = [active |-> Column(saw.active, plans[k].active, new.active),
                                terms |-> Column(saw.terms, plans[k].terms, new.terms)]
  BY DEF Flushed, Column

\* The values a release gives to the columns of a plan.
LEMMA WrittenColumns ==
    ASSUME NEW saw \in PlanRows, NEW r \in Releases, NEW k \in PlanKeys
    PROVE  /\ k \in Catalogue[r] => Written(saw, r, k).active = TRUE /\ Written(saw, r, k).terms = r
           /\ k \notin Catalogue[r] =>
                Written(saw, r, k).active = FALSE /\ Written(saw, r, k).terms = saw[k].terms
<1>1. saw[k] \in BillingPlan
  BY DEF PlanRows
<1>2. CASE k \in Catalogue[r]
  BY <1>2 DEF Written
<1>3. CASE k \notin Catalogue[r]
  <2>1. Written(saw, r, k) = [saw[k] EXCEPT !.active = FALSE]
    BY <1>3 DEF Written
  <2>2. saw[k] \in [active : BOOLEAN, terms : Releases \cup {"none"}]
    BY <1>1, PlanColumns
  <2> QED
    BY <1>3, <2>1, <2>2
<1> QED
  BY <1>2, <1>3

LEMMA PlansInitially == PlansInit => PlansInv
<1> SUFFICES ASSUME PlansInit PROVE PlansInv
  OBVIOUS
<1>1. plans \in PlanRows /\ server \in [Servers -> ServerProcess]
  BY NoPlanIsAPlan DEF PlansInit, PlanRows
<1>2. RowsStay /\ ReleaseOfSeeding
  BY DEF PlansInit, RowsStay, ReleaseOfSeeding, Down
<1>3. CatalogueOfOneRelease
  BY DEF PlansInit, CatalogueOfOneRelease, Releases
<1> QED
  BY <1>1, <1>2, <1>3 DEF PlansInit, PlansInv, PlansTypeOK, PlanRows, ServerProcess

-----------------------------------------------------------------------------
(* The commit of a seeding.                                                *)

\* What server s makes of plan k, when the commit does not clash.
LEMMA OnePlan ==
    ASSUME PlansInv, NEW s \in Servers, server[s].pc = "seeding", ~Clashes(s), NEW k \in PlanKeys,
           NEW r \in Releases, r = server[s].release
    PROVE  /\ Flushed(s, k) \in BillingPlan
           /\ plans[k] # NoPlan => Flushed(s, k) # NoPlan
<1> DEFINE saw == server[s].saw[k]
           now == plans[k]
           new == Written(server[s].saw, r, k)
           out == [active |-> Column(saw.active, now.active, new.active),
                   terms |-> Column(saw.terms, now.terms, new.terms)]
<1>1. Flushed(s, k) = out
  BY FlushedColumns
<1>2. server[s].saw \in PlanRows
  BY DEF PlansInv, PlansTypeOK, PlanRows
<1>3. saw \in BillingPlan /\ now \in BillingPlan
  BY <1>2 DEF PlanRows, PlansInv, PlansTypeOK
<1>4. /\ saw.active \in BOOLEAN /\ saw.terms \in Releases \cup {"none"}
      /\ now.active \in BOOLEAN /\ now.terms \in Releases \cup {"none"}
      /\ saw # NoPlan => saw.terms \in Releases
      /\ now # NoPlan => now.terms \in Releases
  BY <1>3, PlanColumns
<1>5. saw # NoPlan => now # NoPlan
  BY DEF PlansInv, RowsStay
<1>6. NoPlan.active = FALSE /\ NoPlan.terms = "none" /\ "none" \notin Releases
  BY DEF NoPlan, Releases
<1> HIDE DEF saw, now, new, out
<1>7. ASSUME k \in Catalogue[r]
      PROVE  out.terms \in Releases /\ out.active \in BOOLEAN
  <2>1. new.active = TRUE /\ new.terms = r
    BY <1>2, <1>7, WrittenColumns DEF new
  <2>2. saw = NoPlan => now = NoPlan
    BY <1>7 DEF Clashes, saw, now
  <2>3. CASE saw = NoPlan
    BY <2>1, <2>3, <1>4, <1>6 DEF Column, out
  <2>4. CASE saw # NoPlan
    BY <2>1, <2>4, <1>4, <1>5 DEF Column, out
  <2> QED
    BY <2>3, <2>4
<1>8. ASSUME k \notin Catalogue[r]
      PROVE  out.terms = now.terms /\ out.active \in BOOLEAN /\ (~now.active => ~out.active)
  <2>1. new.active = FALSE /\ new.terms = saw.terms
    BY <1>2, <1>8, WrittenColumns DEF new, saw
  <2> QED
    BY <2>1, <1>4 DEF Column, out
<1>9. out.terms \in Releases /\ out.active \in BOOLEAN => out \in BillingPlan /\ out # NoPlan
  <2>1. out = [active |-> out.active, terms |-> out.terms]
    BY DEF out
  <2> QED
    BY <2>1, <1>6 DEF BillingPlan
<1>10. CASE now = NoPlan /\ k \notin Catalogue[r]
  <2>1. out.active = FALSE /\ out.terms = "none"
    BY <1>10, <1>8, <1>6
  <2>2. out = [active |-> out.active, terms |-> out.terms]
    BY DEF out
  <2>3. out = NoPlan
    BY <2>1, <2>2 DEF NoPlan
  <2> QED
    BY <2>3, <1>10, <1>1, NoPlanIsAPlan DEF now
<1>11. CASE now # NoPlan \/ k \in Catalogue[r]
  <2>1. out.terms \in Releases /\ out.active \in BOOLEAN
    BY <1>11, <1>4, <1>7, <1>8
  <2> QED
    BY <2>1, <1>1, <1>9
<1> QED
  BY <1>10, <1>11

\* A catalogue that was read as it is, or that is the release's already, is the release's after.
LEMMA Settles ==
    ASSUME PlansInv, NEW s \in Servers, NEW r \in Releases, r = server[s].release,
           server[s].saw = plans \/ seeded = r, NEW k \in PlanKeys
    PROVE  /\ k \in Catalogue[r] => Flushed(s, k).active = TRUE /\ Flushed(s, k).terms = r
           /\ k \notin Catalogue[r] => Flushed(s, k).active = FALSE
<1> DEFINE saw == server[s].saw[k]
           now == plans[k]
           new == Written(server[s].saw, r, k)
<1>1. /\ Flushed(s, k).active = Column(saw.active, now.active, new.active)
      /\ Flushed(s, k).terms = Column(saw.terms, now.terms, new.terms)
  BY FlushedColumns
<1>2. /\ k \in Catalogue[r] => new.active = TRUE /\ new.terms = r
      /\ k \notin Catalogue[r] => new.active = FALSE
  <2>1. server[s].saw \in PlanRows
    BY DEF PlansInv, PlansTypeOK, PlanRows
  <2> QED
    BY <2>1, WrittenColumns
<1>3. /\ now.active \in BOOLEAN /\ saw.active \in BOOLEAN
  <2>1. saw \in BillingPlan /\ now \in BillingPlan
    BY DEF PlansInv, PlansTypeOK
  <2> QED
    BY <2>1, PlanColumns
<1>4. CASE server[s].saw = plans
  <2>1. saw = now
    BY <1>4
  <2> HIDE DEF saw, now, new
  <2> QED
    BY <2>1, <1>1, <1>2 DEF Column
<1>5. CASE seeded = r
  <2>1. Offered = Catalogue[r] /\ \A j \in Offered : plans[j].terms = r
    BY <1>5 DEF PlansInv, CatalogueOfOneRelease
  <2>2. (k \in Catalogue[r] => now.active /\ now.terms = r) /\ (k \notin Catalogue[r] => ~now.active)
    BY <2>1 DEF Offered
  <2> HIDE DEF saw, now, new
  <2> QED
    BY <2>2, <1>1, <1>2, <1>3 DEF Column
<1> QED
  BY <1>4, <1>5

LEMMA SeedKeeps == ASSUME PlansInv, NEW s \in Servers, SeedPlans(s) PROVE PlansInv'
<1>1. server[s].pc = "seeding" /\ ~Clashes(s) /\ plans' = [k \in PlanKeys |-> Flushed(s, k)]
  BY DEF SeedPlans
<1>2. PICK r \in Releases \cup {"none"} : r = server[s].release
  BY DEF PlansInv, PlansTypeOK
<1>3. r \in Releases
  BY <1>1, <1>2 DEF PlansInv, ReleaseOfSeeding
<1>4. plans' \in PlanRows
  BY <1>1, <1>2, <1>3, OnePlan DEF PlanRows
<1>5. \A k \in PlanKeys : plans[k] # NoPlan => plans'[k] # NoPlan
  BY <1>1, <1>2, <1>3, OnePlan
<1>6. PICK row \in ServerProcess : row.pc = "up" /\ server' = [server EXCEPT ![s] = row]
  <2>1. PICK row : row = [Down EXCEPT !.pc = "up", !.release = server[s].release]
    OBVIOUS
  <2>2. row \in ServerProcess /\ row.pc = "up"
    BY <2>1, <1>2, NoPlanIsAPlan DEF ServerProcess
  <2> QED
    BY <2>1, <2>2 DEF SeedPlans
<1>7. server \in [Servers -> ServerProcess]
  BY DEF PlansInv, PlansTypeOK, ServerProcess, PlanRows
<1>8. server' \in [Servers -> ServerProcess]
  BY <1>6, <1>7
<1>9. ASSUME NEW u \in Servers, server'[u].pc = "seeding"
      PROVE  u # s /\ server'[u] = server[u]
  BY <1>6, <1>7, <1>9
<1>10. RowsStay' /\ ReleaseOfSeeding'
  BY <1>5, <1>9 DEF PlansInv, RowsStay, ReleaseOfSeeding
<1>11. seeded' \in Releases \cup {"none", "mixed"}
  BY <1>2 DEF SeedPlans
<1>12. CatalogueOfOneRelease'
  <2>1. SUFFICES ASSUME seeded' \in Releases
                 PROVE  /\ Offered' = Catalogue[seeded']
                        /\ \A k \in Offered' : plans'[k].terms = seeded'
    BY DEF CatalogueOfOneRelease
  <2>2. seeded' = r /\ (server[s].saw = plans \/ seeded = r)
    BY <2>1, <1>2 DEF SeedPlans, Releases
  <2>3. ASSUME NEW k \in PlanKeys
        PROVE  /\ k \in Catalogue[r] => plans'[k].active = TRUE /\ plans'[k].terms = r
               /\ k \notin Catalogue[r] => plans'[k].active = FALSE
    BY <2>2, <1>1, <1>2, <1>3, Settles
  <2>4. Catalogue[r] \subseteq PlanKeys
    BY <1>3, KeysOfReleases
  <2>5. Offered' = Catalogue[r]
    BY <2>3, <2>4 DEF Offered
  <2> QED
    BY <2>2, <2>3, <2>4, <2>5
<1> QED
  BY <1>4, <1>8, <1>10, <1>11, <1>12 DEF PlansInv, PlansTypeOK, ServerProcess, PlanRows

LEMMA PlansStep == PlansInv /\ [PlansNext]_planVars => PlansInv'
<1> SUFFICES ASSUME PlansInv, [PlansNext]_planVars
             PROVE  PlansInv'
  OBVIOUS
<1>1. plans \in PlanRows /\ server \in [Servers -> ServerProcess] /\ seeded \in Releases \cup {"none", "mixed"}
  BY DEF PlansInv, PlansTypeOK, ServerProcess, PlanRows
\* A step that changes one process, not to one that has read rows that are not there.
<1>2. ASSUME NEW s \in Servers, NEW row \in ServerProcess, server' = [server EXCEPT ![s] = row],
             UNCHANGED <<plans, seeded>>,
             row.pc = "seeding" => row.saw = plans /\ row.release \in Releases
      PROVE  PlansInv'
  <2>1. server' \in [Servers -> ServerProcess]
    BY <1>1, <1>2
  <2>2. ASSUME NEW u \in Servers, server'[u].pc = "seeding"
        PROVE  \/ server'[u] = server[u]
               \/ server'[u].saw = plans /\ server'[u].release \in Releases
    <3>1. CASE u = s
      BY <3>1, <2>2, <1>1, <1>2
    <3>2. CASE u # s
      BY <3>2, <1>1, <1>2
    <3> QED
      BY <3>1, <3>2
  <2>3. RowsStay' /\ ReleaseOfSeeding'
    BY <2>2, <1>2 DEF PlansInv, RowsStay, ReleaseOfSeeding
  <2>4. CatalogueOfOneRelease'
    BY <1>2 DEF PlansInv, CatalogueOfOneRelease, Offered
  <2> QED
    BY <1>1, <1>2, <2>1, <2>3, <2>4 DEF PlansInv, PlansTypeOK, ServerProcess, PlanRows
<1>3. ASSUME NEW s \in Servers, StartServer(s) PROVE PlansInv'
  <2>1. PICK r \in Releases :
           server' = [server EXCEPT ![s] = [pc |-> "seeding", release |-> r, saw |-> plans]]
    BY <1>3 DEF StartServer
  <2>2. PICK row : row = [pc |-> "seeding", release |-> r, saw |-> plans]
    OBVIOUS
  <2>3. row \in ServerProcess /\ row.saw = plans /\ row.release = r
    BY <2>2, <1>1 DEF ServerProcess
  <2> QED
    BY <2>1, <2>2, <2>3, <1>2, <1>3 DEF StartServer
<1>4. ASSUME NEW s \in Servers, StartFails(s) \/ StopServer(s) PROVE PlansInv'
  <2>1. Down \in ServerProcess /\ Down.pc = "down"
    BY NoPlanIsAPlan DEF Down
  <2> QED
    BY <2>1, <1>2, <1>4 DEF StartFails, StopServer
<1>5. CASE UNCHANGED planVars
  <2>1. UNCHANGED <<plans, server, seeded>>
    BY <1>5 DEF planVars
  <2> QED
    BY <2>1 DEF PlansInv, PlansTypeOK, RowsStay, ReleaseOfSeeding, CatalogueOfOneRelease, Offered
<1> QED
  BY <1>3, <1>4, <1>5, SeedKeeps DEF PlansNext

\* Plans and processes keep their types; in particular no commit leaves half a plan.
THEOREM PlansTypes == PlansSpec => []PlansTypeOK
<1>1. PlansInv => PlansTypeOK
  BY DEF PlansInv
<1> QED
  BY PlansInitially, PlansStep, <1>1, PTL DEF PlansSpec

\* After any deployments and rollbacks by any number of servers, customers are offered the plans
\* of one release on its terms, but for seedings that overlapped one of the other release
\* (seed_billing_plans, list_active_plans).
THEOREM OneRelease == PlansSpec => []CatalogueOfOneRelease
<1>1. PlansInv => CatalogueOfOneRelease
  BY DEF PlansInv
<1> QED
  BY PlansInitially, PlansStep, <1>1, PTL DEF PlansSpec

-----------------------------------------------------------------------------
(***************************************************************************)
(* Projects. Where a source is, and which others there are of its URL. A   *)
(* foreign key holds a jurisdiction, and a project, as long as a source    *)
(* needs them; no constraint holds the URL, only that nobody else asked    *)
(* for it meanwhile.                                                       *)
(***************************************************************************)

HomesAndUrls == Homes \X Urls
SourceRows == [home : Homes \cup {"none"}, url : Urls \cup {"none"}, deleted : BOOLEAN]
RequestRows ==
    [op : Operations, user : Staff \cup {"none"}, home : Homes \cup {"none"}, rows : Seq(HomesAndUrls),
     status : {"none", "live", "archived"}, clear : SUBSET HomesAndUrls]

\* What a request is about was checked when it began: the pairs of its sources were taken by none.
RequestOK(q) ==
    /\ q.op = "update" => q.status \in {"live", "archived"}
    /\ q.op = "add" => q.user \in Staff
    /\ q.op = "home" => q.home \in Homes
    /\ q.op = "sources" => \A i \in 1..Len(q.rows) : q.rows[i] \in q.clear

ProjectTypes ==
    /\ ProjectsTypeOK
    /\ source \in [SourceIds -> SourceRows]
    /\ request \in [Requests -> RequestRows]
    /\ \A r \in Requests : RequestOK(request[r])

\* A jurisdiction has its project, a source its jurisdiction.
HomesHaveAProject ==
    /\ \A h \in Homes : home[h] # "none" => Exists
    /\ \A s \in SourceIds : source[s] # NoSource => home[source[s].home] # "none"

\* Two sources of a jurisdiction and a URL were doubled by a race, an edit or one request.
DoublesTolerated ==
    \A h \in Homes, url \in Urls : \A s, t \in SourceIds :
        HasUrl(s, h, url) /\ HasUrl(t, h, url) => s = t \/ <<h, url>> \in tolerated

ProjectsInv == ProjectTypes /\ HomesHaveAProject /\ DoublesTolerated

\* The rows of sources stay: what is left to show is the project and its jurisdictions.
LEMMA SourcesStay ==
    ASSUME ProjectsInv, UNCHANGED <<source, tolerated>>,
           project' \in {"none", "live", "archived", "deleted"}, team' \subseteq Staff,
           home' \in [Homes -> {"none", "live", "archived"}],
           request' \in [Requests -> RequestRows], \A r \in Requests : RequestOK(request'[r]),
           \A h \in Homes : home'[h] # "none" => project' \in {"live", "archived"},
           \A s \in SourceIds : source[s] # NoSource => home'[source[s].home] # "none"
    PROVE  ProjectsInv'
<1>1. ProjectTypes'
  BY DEF ProjectsInv, ProjectTypes, ProjectsTypeOK, RequestRows
<1>2. HomesHaveAProject'
  BY DEF HomesHaveAProject, Exists
<1>3. DoublesTolerated'
  BY DEF ProjectsInv, DoublesTolerated, HasUrl
<1> QED
  BY <1>1, <1>2, <1>3 DEF ProjectsInv

\* A request begins as q, or is over.
LEMMA RequestMoves ==
    ASSUME ProjectsInv, NEW r \in Requests, NEW q \in RequestRows, RequestOK(q),
           request' = [request EXCEPT ![r] = q]
    PROVE  request' \in [Requests -> RequestRows] /\ \A p \in Requests : RequestOK(request'[p])
BY DEF ProjectsInv, ProjectTypes

LEMMA NoRequestTyped == NoRequest \in RequestRows /\ RequestOK(NoRequest)
<1>1. <<>> \in Seq(HomesAndUrls)
  OBVIOUS
<1> QED
  BY <1>1 DEF NoRequest, RequestRows, RequestOK, Operations

\* A request begins: nothing but itself is written.
LEMMA RequestBegins ==
    ASSUME ProjectsInv, NEW r \in Requests, NEW q \in RequestRows, RequestOK(q), Check(r, q),
           UNCHANGED <<project, team, home, source, tolerated>>
    PROVE  ProjectsInv'
<1>1. /\ request' \in [Requests -> RequestRows] /\ \A p \in Requests : RequestOK(request'[p])
  BY RequestMoves DEF Check
<1> QED
  BY <1>1, SourcesStay DEF ProjectsInv, ProjectTypes, ProjectsTypeOK, HomesHaveAProject, Exists

LEMMA RequestEnds ==
    ASSUME ProjectsInv, NEW r \in Requests, Over(r)
    PROVE  request' \in [Requests -> RequestRows] /\ \A p \in Requests : RequestOK(request'[p])
BY RequestMoves, NoRequestTyped DEF Over

\* The project's own requests.
LEMMA ProjectStep ==
    ASSUME ProjectsInv, NEW r \in Requests, ProjectRequests(r)
    PROVE  ProjectsInv'
<1>0. /\ NoRequest \in RequestRows /\ NoRequest.op = "none"
      /\ home \in [Homes -> {"none", "live", "archived"}]
      /\ project \in {"none", "live", "archived", "deleted"} /\ team \subseteq Staff
      /\ \A h \in Homes : home[h] # "none" => Exists
      /\ \A s \in SourceIds : source[s] # NoSource => home[source[s].home] # "none"
      /\ request[r] \in RequestRows /\ RequestOK(request[r])
  BY NoRequestTyped DEF NoRequest, ProjectsInv, ProjectTypes, ProjectsTypeOK, HomesHaveAProject
<1>1. ASSUME NEW u \in Staff, AddUser(r, u) PROVE ProjectsInv'
  <2> DEFINE q == [NoRequest EXCEPT !.op = "add", !.user = u]
  <2>1. q \in RequestRows /\ RequestOK(q)
    BY <1>0 DEF RequestRows, RequestOK, Operations
  <2> HIDE DEF q
  <2>2. Check(r, q) /\ UNCHANGED <<project, team, home, source, tolerated>>
    BY <1>1 DEF AddUser, q
  <2> QED
    BY <2>1, <2>2, RequestBegins
<1>2. ASSUME NEW u \in Staff, RemoveUser(r, u) PROVE ProjectsInv'
  <2> DEFINE q == [NoRequest EXCEPT !.op = "remove", !.user = u]
  <2>1. q \in RequestRows /\ RequestOK(q)
    BY <1>0 DEF RequestRows, RequestOK, Operations
  <2> HIDE DEF q
  <2>2. Check(r, q) /\ UNCHANGED <<project, team, home, source, tolerated>>
    BY <1>2 DEF RemoveUser, q
  <2> QED
    BY <2>1, <2>2, RequestBegins
<1>3. ASSUME NEW status \in {"live", "archived"}, UpdateProject(r, status) PROVE ProjectsInv'
  <2> DEFINE q == [NoRequest EXCEPT !.op = "update", !.status = status]
  <2>1. q \in RequestRows /\ RequestOK(q)
    BY <1>0 DEF RequestRows, RequestOK, Operations
  <2> HIDE DEF q
  <2>2. Check(r, q) /\ UNCHANGED <<project, team, home, source, tolerated>>
    BY <1>3 DEF UpdateProject, q
  <2> QED
    BY <2>1, <2>2, RequestBegins
<1>4. CASE DeleteProject(r)
  <2> DEFINE q == [NoRequest EXCEPT !.op = "delete"]
  <2>1. q \in RequestRows /\ RequestOK(q)
    BY <1>0 DEF RequestRows, RequestOK, Operations
  <2> HIDE DEF q
  <2>2. Check(r, q) /\ UNCHANGED <<project, team, home, source, tolerated>>
    BY <1>4 DEF DeleteProject, q
  <2> QED
    BY <2>1, <2>2, RequestBegins
<1>5. CASE CommitAddUser(r)
  <2>1. /\ Over(r) /\ UNCHANGED <<project, home, source, tolerated>> /\ team' \subseteq Staff
    BY <1>0, <1>5 DEF CommitAddUser, Doing, RequestOK
  <2> QED
    BY <1>0, <2>1, RequestEnds, SourcesStay DEF Exists
<1>6. CASE CommitRemoveUser(r)
  <2>1. /\ Over(r) /\ UNCHANGED <<project, home, source, tolerated>> /\ team' \subseteq Staff
    BY <1>0, <1>6 DEF CommitRemoveUser
  <2> QED
    BY <1>0, <2>1, RequestEnds, SourcesStay DEF Exists
<1>7. CASE CommitUpdateProject(r)
  <2>1. /\ Over(r) /\ UNCHANGED <<team, home, source, tolerated>> /\ project' \in {"live", "archived"}
    BY <1>0, <1>7 DEF CommitUpdateProject, Doing, RequestOK
  <2> QED
    BY <1>0, <2>1, RequestEnds, SourcesStay
<1>8. CASE CommitDeleteProject(r)
  <2>1. /\ Over(r) /\ UNCHANGED <<source, tolerated>> /\ project' = "deleted" /\ team' = {}
        /\ home' = [h \in Homes |-> "none"] /\ \A s \in SourceIds : source[s] = NoSource
    BY <1>8 DEF CommitDeleteProject, Deletable
  <2> QED
    BY <2>1, RequestEnds, SourcesStay
<1> QED
  BY <1>1, <1>2, <1>3, <1>4, <1>5, <1>6, <1>7, <1>8 DEF ProjectRequests

\* The project is made, a jurisdiction is archived or restored, a request is rolled back.
LEMMA OutsideProjectsStep ==
    ASSUME ProjectsInv,
           \/ \E u \in Staff : CreateProject(u)
           \/ \E r \in Requests : RolledBack(r)
           \/ \E h \in Homes : ArchiveHome(h)
    PROVE  ProjectsInv'
<1>0. /\ home \in [Homes -> {"none", "live", "archived"}]
      /\ project \in {"none", "live", "archived", "deleted"} /\ team \subseteq Staff
      /\ \A h \in Homes : home[h] # "none" => Exists
      /\ \A s \in SourceIds : source[s] # NoSource => source[s].home \in Homes /\ home[source[s].home] # "none"
      /\ request \in [Requests -> RequestRows] /\ \A r \in Requests : RequestOK(request[r])
  BY DEF ProjectsInv, ProjectTypes, ProjectsTypeOK, HomesHaveAProject
<1>1. ASSUME NEW u \in Staff, CreateProject(u) PROVE ProjectsInv'
  <2>1. /\ project' = "live" /\ team' \subseteq Staff /\ UNCHANGED <<home, source, request, tolerated>>
    BY <1>1 DEF CreateProject
  <2> QED
    BY <1>0, <2>1, SourcesStay
<1>2. ASSUME NEW r \in Requests, RolledBack(r) PROVE ProjectsInv'
  <2>1. Over(r) /\ UNCHANGED <<project, team, home, source, tolerated>>
    BY <1>2 DEF RolledBack
  <2> QED
    BY <1>0, <2>1, RequestEnds, SourcesStay DEF Exists
<1>3. ASSUME NEW h \in Homes, ArchiveHome(h) PROVE ProjectsInv'
  <2>1. UNCHANGED <<project, team, source, request, tolerated>>
    BY <1>3 DEF ArchiveHome
  <2>2. /\ home' \in [Homes -> {"none", "live", "archived"}]
        /\ \A g \in Homes : home'[g] # "none" <=> home[g] # "none"
    BY <1>0, <1>3 DEF ArchiveHome
  <2> QED
    BY <1>0, <2>1, <2>2, SourcesStay DEF Exists
<1> QED
  BY <1>1, <1>2, <1>3

\* The requests for sources: each pair was clear when it was asked for.
LEMMA CheckSourcesStep ==
    ASSUME ProjectsInv, NEW r \in Requests, NEW rows \in Seq(HomesAndUrls), CheckSources(r, rows),
           \A i \in 1..Len(rows) : ~Taken(rows[i][1], rows[i][2])
    PROVE  ProjectsInv'
<1> DEFINE q == [NoRequest EXCEPT !.op = "sources", !.rows = rows, !.clear = Clear(rows)]
<1>1. /\ \A i \in 1..Len(rows) : rows[i] \in Clear(rows)
      /\ Clear(rows) \in SUBSET HomesAndUrls
  BY ElementOfSeq DEF Clear
<1>2. /\ NoRequest \in RequestRows /\ RequestOK(NoRequest) /\ "sources" \in Operations
  BY NoRequestTyped DEF Operations
<1>3. /\ q \in RequestRows /\ q.op = "sources" /\ q.rows = rows /\ q.clear = Clear(rows)
  BY <1>1, <1>2 DEF RequestRows
<1>4. Check(r, q) /\ UNCHANGED <<project, team, home, source, tolerated>>
  BY DEF CheckSources
<1> HIDE DEF q
<1>5. RequestOK(q)
  BY <1>1, <1>3 DEF RequestOK
<1> QED
  BY <1>3, <1>4, <1>5, RequestBegins

LEMMA SourcesAsked ==
    ASSUME ProjectsInv, NEW r \in Requests,
           \/ \E h \in Homes, url \in Urls : CreateSource(r, h, url)
           \/ \E rows \in {<<row>> : row \in Homes \X Urls} \cup ((Homes \X Urls) \X (Homes \X Urls)) :
                 BulkCreateSources(r, rows)
           \/ \E h \in Homes, urls \in {<<url>> : url \in Urls} \cup (Urls \X Urls) :
                 AcceptSuggestedSources(r, h, urls)
    PROVE  ProjectsInv'
<1>1. ASSUME NEW h \in Homes, NEW url \in Urls, CreateSource(r, h, url) PROVE ProjectsInv'
  <2>1. /\ << <<h, url>> >> \in Seq(HomesAndUrls) /\ Len(<< <<h, url>> >>) = 1
        /\ << <<h, url>> >>[1] = <<h, url>>
    BY DEF HomesAndUrls
  <2>2. \A i \in 1..Len(<< <<h, url>> >>) : ~Taken(<< <<h, url>> >>[i][1], << <<h, url>> >>[i][2])
    BY <1>1, <2>1 DEF CreateSource, UrlIsNew
  <2> QED
    BY <1>1, <2>1, <2>2, CheckSourcesStep DEF CreateSource
<1>2. ASSUME NEW rows \in Seq(HomesAndUrls), BulkCreateSources(r, rows) PROVE ProjectsInv'
  <2>1. \A i \in 1..Len(rows) : ~Taken(rows[i][1], rows[i][2])
    BY <1>2 DEF BulkCreateSources, UrlsAreNew, Taken, HasUrl
  <2> QED
    BY <1>2, <2>1, CheckSourcesStep DEF BulkCreateSources
<1>3. ASSUME NEW rows \in {<<row>> : row \in Homes \X Urls} \cup ((Homes \X Urls) \X (Homes \X Urls))
      PROVE  rows \in Seq(HomesAndUrls)
  <2>1. CASE rows \in {<<row>> : row \in Homes \X Urls}
    BY <2>1 DEF HomesAndUrls
  <2>2. CASE rows \in (Homes \X Urls) \X (Homes \X Urls)
    <3>1. PICK a \in HomesAndUrls, b \in HomesAndUrls : rows = <<a, b>>
      BY <2>2 DEF HomesAndUrls
    <3> QED
      BY <3>1
  <2> QED
    BY <2>1, <2>2
<1>4. ASSUME NEW h \in Homes, NEW urls \in {<<url>> : url \in Urls} \cup (Urls \X Urls)
      PROVE  [i \in DOMAIN urls |-> <<h, urls[i]>>] \in Seq(HomesAndUrls)
  <2>1. urls \in Seq(Urls)
    <3>1. CASE urls \in {<<url>> : url \in Urls}
      BY <3>1
    <3>2. CASE urls \in Urls \X Urls
      <4>1. PICK a \in Urls, b \in Urls : urls = <<a, b>>
        BY <3>2
      <4> QED
        BY <4>1
    <3> QED
      BY <3>1, <3>2
  <2>2. /\ Len(urls) \in Nat /\ DOMAIN urls = 1..Len(urls)
        /\ \A i \in 1..Len(urls) : <<h, urls[i]>> \in HomesAndUrls
    BY <2>1, ElementOfSeq DEF HomesAndUrls
  <2> QED
    BY <2>2
<1> QED
  BY <1>1, <1>2, <1>3, <1>4 DEF AcceptSuggestedSources

LEMMA HomeStep ==
    ASSUME ProjectsInv, NEW r \in Requests, (\E h \in Homes : CreateHome(r, h)) \/ CommitHome(r)
    PROVE  ProjectsInv'
<1>1. ASSUME NEW h \in Homes, CreateHome(r, h) PROVE ProjectsInv'
  <2> DEFINE q == [NoRequest EXCEPT !.op = "home", !.home = h]
  <2>1. q \in RequestRows /\ RequestOK(q)
    BY NoRequestTyped DEF RequestRows, RequestOK, Operations
  <2> HIDE DEF q
  <2>2. Check(r, q) /\ UNCHANGED <<project, team, home, source, tolerated>>
    BY <1>1 DEF CreateHome, q
  <2> QED
    BY <2>1, <2>2, RequestBegins
<1>2. CASE CommitHome(r)
  <2>0. /\ home \in [Homes -> {"none", "live", "archived"}]
        /\ project \in {"none", "live", "archived", "deleted"} /\ team \subseteq Staff
        /\ \A s \in SourceIds : source[s] # NoSource => source[s].home \in Homes /\ home[source[s].home] # "none"
    BY DEF ProjectsInv, ProjectTypes, ProjectsTypeOK, HomesHaveAProject
  <2>1. PICK h \in Homes : h = request[r].home
    BY <1>2 DEF CommitHome, Doing, ProjectsInv, ProjectTypes, RequestOK
  <2>2. /\ Over(r) /\ Exists /\ UNCHANGED <<project, team, source, tolerated>>
        /\ home' = [home EXCEPT ![h] = "live"]
    BY <1>2, <2>1 DEF CommitHome
  <2> QED
    BY <2>0, <2>2, RequestEnds, SourcesStay DEF Exists
<1> QED
  BY <1>1, <1>2

\* The sources are made, each of a pair nobody had unless the pair is tolerated from then on.
LEMMA CommitSourcesStep ==
    ASSUME ProjectsInv, NEW r \in Requests, CommitSources(r)
    PROVE  ProjectsInv'
<1> DEFINE rows == request[r].rows
<1> DEFINE n == Len(rows)
<1> DEFINE Row(i) == [home |-> rows[i][1], url |-> rows[i][2], deleted |-> FALSE]
<1> DEFINE Twice(i) == \E j \in 1..n : i # j /\ rows[i] = rows[j]
<1>0. /\ rows \in Seq(HomesAndUrls) /\ n \in Nat /\ \A i \in 1..n : rows[i] \in HomesAndUrls /\ rows[i] \in request[r].clear
      /\ source \in [SourceIds -> SourceRows]
  <2>1. request[r] \in RequestRows /\ RequestOK(request[r]) /\ request[r].op = "sources"
    BY DEF ProjectsInv, ProjectTypes, CommitSources, Doing
  <2>2. rows \in Seq(HomesAndUrls)
    BY <2>1 DEF RequestRows
  <2> QED
    BY <2>1, <2>2, ElementOfSeq DEF RequestOK, ProjectsInv, ProjectTypes
<1>1. PICK id \in [1..n -> Free] :
         /\ \A i, j \in 1..n : i # j => id[i] # id[j]
         /\ source' = [s \in SourceIds |->
               IF \E i \in 1..n : id[i] = s
               THEN LET i == CHOOSE i \in 1..n : id[i] = s
                    IN  [home |-> rows[i][1], url |-> rows[i][2], deleted |-> FALSE]
               ELSE source[s]]
  BY DEF CommitSources
<1>2. /\ tolerated' = tolerated \cup {rows[i] : i \in {j \in 1..n :
             Twice(j) \/ (rows[j] \in request[r].clear /\ Taken(rows[j][1], rows[j][2]))}}
      /\ \A i \in 1..n : home[rows[i][1]] # "none"
      /\ UNCHANGED <<project, team, home>> /\ Over(r)
  BY DEF CommitSources
<1>3. \A i \in 1..n : /\ Row(i) \in SourceRows /\ Row(i).home = rows[i][1] /\ Row(i).url = rows[i][2]
                      /\ rows[i][1] \in Homes /\ rows[i][2] \in Urls
                      /\ rows[i] = <<rows[i][1], rows[i][2]>>
  <2> SUFFICES ASSUME NEW i \in 1..n
               PROVE  /\ Row(i) \in SourceRows /\ Row(i).home = rows[i][1] /\ Row(i).url = rows[i][2]
                      /\ rows[i][1] \in Homes /\ rows[i][2] \in Urls
                      /\ rows[i] = <<rows[i][1], rows[i][2]>>
    OBVIOUS
  <2>1. rows[i] \in HomesAndUrls
    BY <1>0
  <2>2. PICK h \in Homes, url \in Urls : rows[i] = <<h, url>>
    BY <2>1 DEF HomesAndUrls
  <2>3. \A gone \in BOOLEAN : [home |-> h, url |-> url, deleted |-> gone] \in SourceRows
    BY DEF SourceRows
  <2>4. FALSE \in BOOLEAN
    OBVIOUS
  <2>5. Row(i) = [home |-> h, url |-> url, deleted |-> FALSE]
    BY <2>2
  <2> HIDE DEF Row, rows
  <2>6. rows[i][1] = h /\ rows[i][2] = url
    BY <2>2
  <2>7. Row(i) \in SourceRows
    BY <2>3, <2>4, <2>5
  <2>8. Row(i).home = h /\ Row(i).url = url
    BY <2>5
  <2> QED
    BY <2>2, <2>6, <2>7, <2>8
<1>4. \A s \in SourceIds : \/ /\ \E i \in 1..n : id[i] = s /\ source'[s] = Row(i)
                              /\ source[s] = NoSource
                           \/ source'[s] = source[s]
  <2> SUFFICES ASSUME NEW s \in SourceIds
               PROVE  \/ /\ \E i \in 1..n : id[i] = s /\ source'[s] = Row(i)
                         /\ source[s] = NoSource
                      \/ source'[s] = source[s]
    OBVIOUS
  <2>1. CASE \E i \in 1..n : id[i] = s
    <3> DEFINE i == CHOOSE i \in 1..n : id[i] = s
    <3>1. i \in 1..n /\ id[i] = s
      BY <2>1
    <3>2. source'[s] = Row(i)
      BY <1>1, <2>1
    <3>3. source[s] = NoSource
      BY <1>1, <3>1 DEF Free
    <3> HIDE DEF i, Row, rows
    <3> QED
      BY <3>1, <3>2, <3>3
  <2>2. CASE ~\E i \in 1..n : id[i] = s
    BY <1>1, <2>2
  <2> QED
    BY <2>1, <2>2
<1> HIDE DEF Row
<1>5. source' \in [SourceIds -> SourceRows]
  <2>1. \A s \in SourceIds : source'[s] \in SourceRows
    BY <1>0, <1>3, <1>4
  <2>2. source' = [s \in SourceIds |-> source'[s]]
    BY <1>1
  <2> QED
    BY <2>1, <2>2
<1>6. request' \in [Requests -> RequestRows] /\ \A p \in Requests : RequestOK(request'[p])
  BY <1>2, RequestEnds
<1>7. tolerated' \subseteq Homes \X Urls
  <2>1. tolerated \subseteq Homes \X Urls
    BY DEF ProjectsInv, ProjectTypes, ProjectsTypeOK
  <2> QED
    BY <1>0, <1>2, <2>1 DEF HomesAndUrls
<1>8. \A s \in SourceIds : source'[s] # NoSource => source'[s].home \in Homes /\ source'[s].url \in Urls
  <2>1. \A s \in SourceIds : source[s] # NoSource => source[s].home \in Homes /\ source[s].url \in Urls
    BY DEF ProjectsInv, ProjectTypes, ProjectsTypeOK
  <2> QED
    BY <1>3, <1>4, <2>1
<1>9. ProjectTypes'
  BY <1>2, <1>5, <1>6, <1>7, <1>8 DEF ProjectsInv, ProjectTypes, ProjectsTypeOK, RequestRows
<1>10. HomesHaveAProject'
  <2>1. \A s \in SourceIds : source'[s] # NoSource => home[source'[s].home] # "none"
    BY <1>2, <1>3, <1>4 DEF ProjectsInv, HomesHaveAProject
  <2> QED
    BY <1>2, <2>1 DEF ProjectsInv, HomesHaveAProject, Exists
<1>11. DoublesTolerated'
  <2> SUFFICES ASSUME NEW h \in Homes, NEW url \in Urls, NEW s \in SourceIds, NEW t \in SourceIds,
                      HasUrl(s, h, url)', HasUrl(t, h, url)', s # t
               PROVE  <<h, url>> \in tolerated'
    BY DEF DoublesTolerated
  <2>1. ASSUME NEW a \in SourceIds, NEW b \in SourceIds, a # b, HasUrl(a, h, url)', HasUrl(b, h, url)',
               NEW i \in 1..n, id[i] = a, source'[a] = Row(i)
        PROVE  <<h, url>> \in tolerated'
    <3>1. rows[i] = <<h, url>>
      BY <1>3, <2>1 DEF HasUrl
    <3>2. ASSUME NEW j \in 1..n, id[j] = b, source'[b] = Row(j) PROVE Twice(i)
      <4>1. i # j /\ rows[j] = <<h, url>>
        BY <1>3, <2>1, <3>2 DEF HasUrl
      <4> QED
        BY <3>1, <4>1
    <3>3. ASSUME source'[b] = source[b]
          PROVE  rows[i] \in request[r].clear /\ Taken(rows[i][1], rows[i][2])
      <4>1. HasUrl(b, h, url)
        BY <2>1, <3>3 DEF HasUrl
      <4>2. rows[i][1] = h /\ rows[i][2] = url
        BY <3>1
      <4> QED
        BY <1>0, <4>1, <4>2 DEF Taken
    <3>4. Twice(i) \/ (rows[i] \in request[r].clear /\ Taken(rows[i][1], rows[i][2]))
      BY <1>4, <3>2, <3>3
    <3> QED
      BY <1>2, <3>1, <3>4
  <2>2. CASE source'[s] = source[s] /\ source'[t] = source[t]
    BY <1>2, <2>2 DEF ProjectsInv, DoublesTolerated, HasUrl
  <2> QED
    BY <1>4, <2>1, <2>2
<1> QED
  BY <1>9, <1>10, <1>11 DEF ProjectsInv

\* A source is changed, or goes; an edit that doubles another is tolerated.
LEMMA ChangedStep ==
    ASSUME ProjectsInv, NEW s \in SourceIds, source[s] # NoSource, NEW row \in SourceRows,
           row.home = source[s].home, row.url \in Urls, Changed(s, row)
    PROVE  ProjectsInv'
<1>0. /\ source \in [SourceIds -> SourceRows] /\ tolerated \subseteq Homes \X Urls
      /\ \A t \in SourceIds : source[t] # NoSource => source[t].home \in Homes /\ source[t].url \in Urls
  BY DEF ProjectsInv, ProjectTypes, ProjectsTypeOK
<1>1. /\ source' = [source EXCEPT ![s] = row] /\ UNCHANGED <<project, team, home, request>>
      /\ tolerated' = IF ~row.deleted /\ \E t \in SourceIds \ {s} : HasUrl(t, row.home, row.url)
                      THEN tolerated \cup {<<row.home, row.url>>} ELSE tolerated
  BY DEF Changed
<1>2. /\ source' \in [SourceIds -> SourceRows] /\ source'[s] = row
      /\ \A t \in SourceIds : t # s => source'[t] = source[t]
  BY <1>0, <1>1
<1>3. tolerated \subseteq tolerated' /\ tolerated' \subseteq Homes \X Urls
  BY <1>0, <1>1
<1>4. ProjectTypes'
  BY <1>0, <1>1, <1>2, <1>3 DEF ProjectsInv, ProjectTypes, ProjectsTypeOK, RequestRows
<1>5. HomesHaveAProject'
  BY <1>1, <1>2 DEF ProjectsInv, HomesHaveAProject, Exists
<1>6. DoublesTolerated'
  <2> SUFFICES ASSUME NEW h \in Homes, NEW url \in Urls, NEW a \in SourceIds, NEW b \in SourceIds,
                      HasUrl(a, h, url)', HasUrl(b, h, url)', a # b
               PROVE  <<h, url>> \in tolerated'
    BY DEF DoublesTolerated
  <2>1. ASSUME NEW t \in SourceIds, t # s, HasUrl(s, h, url)', HasUrl(t, h, url)'
        PROVE  <<h, url>> \in tolerated'
    <3>1. row.home = h /\ row.url = url /\ ~row.deleted
      BY <1>2, <2>1 DEF HasUrl
    <3>2. HasUrl(t, h, url)
      BY <1>2, <2>1 DEF HasUrl
    <3> QED
      BY <1>1, <2>1, <3>1, <3>2
  <2>2. CASE a # s /\ b # s
    BY <1>2, <1>3, <2>2 DEF ProjectsInv, DoublesTolerated, HasUrl
  <2> QED
    BY <2>1, <2>2
<1> QED
  BY <1>4, <1>5, <1>6 DEF ProjectsInv

LEMMA SourceStep ==
    ASSUME ProjectsInv, NEW s \in SourceIds,
           \/ \E url \in Urls, deleted \in BOOLEAN : UpdateSource(s, url, deleted)
           \/ DeleteSource(s) \/ DeleteSourcePermanently(s)
    PROVE  ProjectsInv'
<1>0. /\ source \in [SourceIds -> SourceRows] /\ source[s] \in SourceRows
      /\ source[s] # NoSource => source[s].home \in Homes /\ source[s].url \in Urls
  BY DEF ProjectsInv, ProjectTypes, ProjectsTypeOK
<1>1. ASSUME NEW url \in Urls, NEW deleted \in BOOLEAN, UpdateSource(s, url, deleted)
      PROVE  ProjectsInv'
  <2> DEFINE row == [source[s] EXCEPT !.url = url, !.deleted = deleted]
  <2>1. row \in SourceRows /\ row.home = source[s].home /\ row.url = url
    BY <1>0 DEF SourceRows
  <2>2. source[s] # NoSource /\ Changed(s, row)
    BY <1>1 DEF UpdateSource
  <2> HIDE DEF row
  <2> QED
    BY <2>1, <2>2, ChangedStep
<1>2. CASE DeleteSource(s)
  <2> DEFINE row == [source[s] EXCEPT !.deleted = TRUE]
  <2>1. row \in SourceRows /\ row.home = source[s].home /\ row.url = source[s].url
    BY <1>0 DEF SourceRows
  <2>2. source[s] # NoSource /\ Changed(s, row)
    BY <1>2 DEF DeleteSource
  <2> HIDE DEF row
  <2> QED
    BY <1>0, <2>1, <2>2, ChangedStep
<1>3. CASE DeleteSourcePermanently(s)
  <2>1. /\ source' = [source EXCEPT ![s] = NoSource]
        /\ UNCHANGED <<project, team, home, request, tolerated>>
    BY <1>3 DEF DeleteSourcePermanently
  <2>2. NoSource \in SourceRows /\ NoSource.home = "none"
    BY DEF NoSource, SourceRows
  <2>3. /\ source' \in [SourceIds -> SourceRows] /\ source'[s] = NoSource
        /\ \A t \in SourceIds : t # s => source'[t] = source[t]
    BY <1>0, <2>1, <2>2
  <2>4. ProjectTypes' /\ HomesHaveAProject'
    BY <2>1, <2>3
       DEF ProjectsInv, ProjectTypes, ProjectsTypeOK, RequestRows, HomesHaveAProject, Exists
  <2>5. ASSUME NEW t \in SourceIds, NEW h \in Homes, NEW url \in Urls, HasUrl(t, h, url)'
        PROVE  HasUrl(t, h, url)
    BY <2>2, <2>3, <2>5, ProjectsAssumption DEF HasUrl
  <2>6. DoublesTolerated'
    BY <2>1, <2>5 DEF ProjectsInv, DoublesTolerated
  <2> QED
    BY <2>4, <2>6 DEF ProjectsInv
<1> QED
  BY <1>1, <1>2, <1>3

LEMMA ProjectsInvStep == ProjectsInv /\ [ProjectsNext]_projectVars => ProjectsInv'
<1> SUFFICES ASSUME ProjectsInv, [ProjectsNext]_projectVars PROVE ProjectsInv'
  OBVIOUS
<1>1. ASSUME NEW r \in Requests, SourceRequests(r) PROVE ProjectsInv'
  BY <1>1, SourcesAsked, HomeStep, CommitSourcesStep DEF SourceRequests
<1>2. CASE UNCHANGED projectVars
  <2>1. UNCHANGED <<project, team, home, source, request, tolerated>>
    BY <1>2 DEF projectVars
  <2> QED
    BY <2>1 DEF ProjectsInv, ProjectTypes, ProjectsTypeOK, HomesHaveAProject, DoublesTolerated,
                HasUrl, Exists
<1> QED
  BY <1>1, <1>2, ProjectStep, OutsideProjectsStep, SourceStep DEF ProjectsNext

LEMMA ProjectsInvInit == ProjectsInit => ProjectsInv
<1> SUFFICES ASSUME ProjectsInit PROVE ProjectsInv
  OBVIOUS
<1>1. NoSource \in SourceRows /\ NoSource.home = "none"
  BY DEF NoSource, SourceRows
<1>2. /\ source \in [SourceIds -> SourceRows] /\ \A s \in SourceIds : source[s] = NoSource
      /\ request \in [Requests -> RequestRows] /\ \A r \in Requests : RequestOK(request[r])
      /\ \A r \in Requests : request[r].op \in Operations
      /\ \A h \in Homes : home[h] = "none"
  BY <1>1, NoRequestTyped DEF ProjectsInit, RequestRows
<1>3. ProjectTypes
  BY <1>2 DEF ProjectsInit, ProjectTypes, ProjectsTypeOK
<1>4. DoublesTolerated
  BY <1>1, <1>2, ProjectsAssumption DEF DoublesTolerated, HasUrl
<1> QED
  BY <1>2, <1>3, <1>4 DEF ProjectsInv, HomesHaveAProject

\* For every number of requests, jurisdictions and sources: a source has its jurisdiction and
\* its project.
THEOREM SourcesAreAtHome == ProjectsSpec => []SourcesHaveAHome
<1>1. ProjectsInv => SourcesHaveAHome
  BY DEF ProjectsInv, ProjectTypes, ProjectsTypeOK, HomesHaveAProject, SourcesHaveAHome
<1> QED
  BY <1>1, ProjectsInvInit, ProjectsInvStep, PTL DEF ProjectsSpec

\* And two sources of one URL in it are the work of a race, an edit or one bulk request.
THEOREM SourcesAreOnePerUrl == ProjectsSpec => []OneSourcePerUrl
<1>1. ProjectsInv => OneSourcePerUrl
  <2> SUFFICES ASSUME ProjectsInv, NEW h \in Homes, NEW url \in Urls, <<h, url>> \notin tolerated
               PROVE  Cardinality({s \in SourceIds : HasUrl(s, h, url)}) <= 1
    BY DEF OneSourcePerUrl
  <2> DEFINE having == {s \in SourceIds : HasUrl(s, h, url)}
  <2>1. \A s, t \in having : s = t
    BY DEF ProjectsInv, DoublesTolerated
  <2>2. CASE having = {}
    BY <2>2, FS_EmptySet
  <2>3. CASE having # {}
    <3>1. PICK s : having = {s}
      BY <2>1, <2>3
    <3>2. Cardinality(having) = 1
      BY <3>1, FS_Singleton
    <3> QED
      BY <3>2
  <2> QED
    BY <2>2, <2>3
<1> QED
  BY <1>1, ProjectsInvInit, ProjectsInvStep, PTL DEF ProjectsSpec

-----------------------------------------------------------------------------
(***************************************************************************)
(* PageCapture. The objects of the archive and the hashes of the           *)
(* revisions: each name of an object is counted, and one that was counted  *)
(* once has one holder.                                                    *)
(***************************************************************************)

Revisions == [text : Readable, at : 1..MaxSeconds, last : Nat, facts : Facts, changed : BOOLEAN]
ScrapesUnderWay ==
    [pc : CaptureStages, text : Readable \cup {Unfetched}, at : 0..MaxSeconds, last : Nat,
     facts : Facts \cup {NoFacts}, tries : 0..Retries, changed : BOOLEAN]

AfterFetch == {"archive", "compare", "extract", "judge", "persist"}
AfterArchive == {"compare", "extract", "judge", "persist"}

\* A scrape has a text and a name for it once it has fetched the page, and data once the AI answered.
ScrapesOK ==
    \A c \in Scrapes :
        /\ scrape[c].pc \notin AfterFetch => scrape[c].at = 0
        /\ scrape[c].pc \in AfterFetch => scrape[c].at # 0 /\ scrape[c].text \in Readable
        /\ scrape[c].pc \in {"judge", "persist"} => scrape[c].facts \in Facts
        /\ scrape[c].pc # "idle" => site # NoSite

\* Every name is counted, and one that was counted once has one holder, a scrape or a revision.
NamesCounted ==
    /\ \A c \in Scrapes : scrape[c].at # 0 => names[scrape[c].at] # 0
    /\ \A i \in 1..Len(captures) : names[captures[i].at] # 0
    /\ \A c, d \in Scrapes :
          scrape[c].at # 0 /\ scrape[c].at = scrape[d].at => c = d \/ names[scrape[c].at] > 1
    /\ \A c \in Scrapes : \A i \in 1..Len(captures) :
          scrape[c].at = captures[i].at => names[captures[i].at] > 1
    /\ \A i, j \in 1..Len(captures) :
          captures[i].at = captures[j].at => i = j \/ names[captures[i].at] > 1

\* The object of such a name is its holder's page from the moment it is stored.
PagesArchived ==
    /\ \A c \in Scrapes : scrape[c].pc \in AfterArchive =>
          \/ archive[scrape[c].at] = scrape[c].text
          \/ names[scrape[c].at] > 1
    /\ \A i \in 1..Len(captures) :
          \/ archive[captures[i].at] = captures[i].text
          \/ names[captures[i].at] > 1

CaptureTypes ==
    /\ CaptureTypeOK
    /\ captures \in Seq(Revisions) /\ scrape \in [Scrapes -> ScrapesUnderWay]

CaptureInv == CaptureTypes /\ ScrapesOK /\ NamesCounted /\ PagesArchived

LEMMA CaptureBounds ==
    /\ Retries \in Nat /\ MaxSeconds \in Nat /\ MaxSeconds > 0 /\ FetchFaults \in Nat
    /\ 0 \in 0..MaxSeconds /\ 1 \in 1..MaxSeconds /\ 0 \in 0..Retries /\ 0 \in 0..FetchFaults
<1>1. Retries \in Nat /\ MaxSeconds \in Nat \ {0} /\ FetchFaults \in Nat
  BY CaptureAssumption
<1> QED
  BY <1>1

LEMMA CaptureFacts ==
    ASSUME CaptureInv
    PROVE  /\ MaxSeconds \in Nat /\ MaxSeconds > 0
           /\ names \in [1..MaxSeconds -> 0..2]
           /\ Len(captures) \in Nat
           /\ \A i \in 1..Len(captures) : captures[i] \in Revisions /\ captures[i].at \in 1..MaxSeconds
           /\ \A c \in Scrapes : scrape[c] \in ScrapesUnderWay /\ scrape[c].at \in 0..MaxSeconds
<1>1. captures \in Seq(Revisions) /\ scrape \in [Scrapes -> ScrapesUnderWay]
  BY DEF CaptureInv, CaptureTypes
<1>2. \A i \in 1..Len(captures) : captures[i] \in Revisions
  BY <1>1, ElementOfSeq
<1>3. \A i \in 1..Len(captures) : captures[i].at \in 1..MaxSeconds
  BY <1>2 DEF Revisions
<1>4. \A c \in Scrapes : scrape[c] \in ScrapesUnderWay /\ scrape[c].at \in 0..MaxSeconds
  BY <1>1 DEF ScrapesUnderWay
<1>5. names \in [1..MaxSeconds -> 0..2]
  BY DEF CaptureInv, CaptureTypes, CaptureTypeOK
<1>6. Len(captures) \in Nat
  BY <1>1
<1> QED
  BY <1>2, <1>3, <1>4, <1>5, <1>6, CaptureBounds

LEMMA NoScrapeTyped == NoScrape \in ScrapesUnderWay /\ NoScrape.pc = "idle" /\ NoScrape.at = 0
<1>1. 0 \in 0..MaxSeconds /\ 0 \in 0..Retries /\ 0 \in Nat
  BY CaptureBounds
<1>2. FALSE \in BOOLEAN
  OBVIOUS
<1>3. \A no \in BOOLEAN :
         [pc |-> "idle", text |-> Unfetched, at |-> 0, last |-> 0, facts |-> NoFacts, tries |-> 0,
          changed |-> no] \in ScrapesUnderWay
  BY <1>1 DEF ScrapesUnderWay, CaptureStages
<1>4. NoScrape \in ScrapesUnderWay
  BY <1>2, <1>3 DEF NoScrape
<1>5. NoScrape.pc = "idle" /\ NoScrape.at = 0
  BY DEF NoScrape
<1> QED
  BY <1>4, <1>5

\* A scrape that goes on with what it has fetched, or fetches nothing yet, or ends.
LEMMA ScrapeGoesOn ==
    ASSUME CaptureInv, NEW c \in Scrapes, NEW row \in ScrapesUnderWay,
           scrape' = [scrape EXCEPT ![c] = row],
           \/ row.at = scrape[c].at /\ row.text = scrape[c].text
           \/ row.at = 0,
           row.pc \notin AfterFetch => row.at = 0,
           row.pc \in AfterFetch => scrape[c].pc \in AfterFetch /\ row.at = scrape[c].at,
           row.pc \in AfterArchive => scrape[c].pc \in AfterArchive,
           row.pc \in {"judge", "persist"} => row.facts \in Facts,
           row.pc # "idle" => site # NoSite,
           UNCHANGED <<site, second, archive, captures, names>>, mishaps' \in 0..FetchFaults
    PROVE  CaptureInv'
<1>1. /\ scrape \in [Scrapes -> ScrapesUnderWay] /\ scrape' \in [Scrapes -> ScrapesUnderWay]
      /\ scrape'[c] = row /\ \A d \in Scrapes : d # c => scrape'[d] = scrape[d]
  BY DEF CaptureInv, CaptureTypes
<1>2. CaptureTypes'
  BY <1>1 DEF CaptureInv, CaptureTypes, CaptureTypeOK, ScrapesUnderWay
<1>3. row.pc \in AfterFetch => row.text = scrape[c].text
  BY DEF CaptureInv, ScrapesOK
<1>4. ScrapesOK'
  BY <1>1, <1>3 DEF CaptureInv, ScrapesOK
<1>5. NamesCounted'
  BY <1>1, CaptureFacts DEF CaptureInv, NamesCounted
<1>6. PagesArchived'
  BY <1>1, <1>3 DEF CaptureInv, PagesArchived, AfterArchive, AfterFetch
<1> QED
  BY <1>2, <1>4, <1>5, <1>6 DEF CaptureInv

\* A page arrives: its name has one more holder.
LEMMA ArrivesStep ==
    ASSUME CaptureInv, NEW c \in Scrapes, scrape[c].pc \in {"fast", "browser"},
           NEW text \in Readable, Arrives(c, text),
           UNCHANGED <<site, second, archive, captures, mishaps>>
    PROVE  CaptureInv'
<1> PICK t : t = second
  OBVIOUS
<1> DEFINE got == IF site.form = "broken" THEN "PDF extraction failed" ELSE text
<1> DEFINE row == [scrape[c] EXCEPT !.pc = "archive", !.at = t, !.text = got]
<1> DEFINE n == IF names[t] = 2 THEN 2 ELSE names[t] + 1
<1>0. t \in 1..MaxSeconds /\ got \in Readable /\ names \in [1..MaxSeconds -> 0..2]
  BY DEF CaptureInv, CaptureTypes, CaptureTypeOK, Readable
<1>1. scrape \in [Scrapes -> ScrapesUnderWay] /\ names' = [names EXCEPT ![t] = n]
  BY DEF CaptureInv, CaptureTypes, Arrives
<1>2. scrape' = [scrape EXCEPT ![c] = row]
  BY <1>1 DEF Arrives, ScrapesUnderWay
<1>3. /\ row \in ScrapesUnderWay /\ row.pc = "archive" /\ row.at = t /\ row.text = got
  <2> HIDE DEF got
  <2>1. t \in 0..MaxSeconds /\ got \in Readable \cup {Unfetched} /\ scrape[c] \in ScrapesUnderWay
    BY <1>0, <1>1, CaptureBounds
  <2> QED
    BY <2>1 DEF ScrapesUnderWay, CaptureStages
<1>4. n \in 1..2 /\ (names[t] # 0 => n > 1)
  <2>1. names[t] \in 0..2
    BY <1>0
  <2> QED
    BY <2>1
<1> HIDE DEF row, n, got
<1>5. /\ scrape'[c] = row /\ \A d \in Scrapes : d # c => scrape'[d] = scrape[d]
      /\ scrape' \in [Scrapes -> ScrapesUnderWay]
      /\ names' \in [1..MaxSeconds -> 0..2] /\ names'[t] = n
      /\ \A u \in 1..MaxSeconds : u # t => names'[u] = names[u]
  BY <1>0, <1>1, <1>2, <1>3, <1>4
<1>6. \A u \in 1..MaxSeconds : /\ names[u] # 0 => names'[u] # 0
                               /\ names[u] > 1 => names'[u] > 1
  BY <1>0, <1>4, <1>5
<1>7. CaptureTypes'
  BY <1>5 DEF CaptureInv, CaptureTypes, CaptureTypeOK, ScrapesUnderWay
<1>8. ScrapesOK'
  BY <1>0, <1>3, <1>5 DEF CaptureInv, ScrapesOK, AfterFetch
<1>9. NamesCounted'
  <2>1. \A d \in Scrapes : scrape'[d].at # 0 => scrape'[d].at \in 1..MaxSeconds
    BY <1>0, <1>3, <1>5, CaptureFacts
  <2>2. \A d \in Scrapes : d # c /\ scrape[d].at = t => names'[t] > 1
    BY <1>0, <1>4, <1>5 DEF CaptureInv, NamesCounted
  <2>3. \A i \in 1..Len(captures) : captures[i].at = t => names'[t] > 1
    BY <1>4, <1>5 DEF CaptureInv, NamesCounted
  <2>4. \A d \in Scrapes : scrape'[d].at # 0 => names'[scrape'[d].at] # 0
    BY <1>3, <1>4, <1>5, <1>6, <2>1 DEF CaptureInv, NamesCounted
  <2>5. \A i \in 1..Len(captures) : names'[captures[i].at] # 0
    BY <1>6, CaptureFacts DEF CaptureInv, NamesCounted
  <2>6. ASSUME NEW d \in Scrapes, NEW e \in Scrapes, scrape'[d].at # 0, scrape'[d].at = scrape'[e].at, d # e
        PROVE  names'[scrape'[d].at] > 1
    <3>1. CASE d = c \/ e = c
      BY <1>3, <1>5, <2>2, <2>6, <3>1
    <3>2. CASE d # c /\ e # c
      BY <1>5, <1>6, <2>1, <2>6, <3>2 DEF CaptureInv, NamesCounted
    <3> QED
      BY <3>1, <3>2
  <2>7. ASSUME NEW d \in Scrapes, NEW i \in 1..Len(captures), scrape'[d].at = captures[i].at
        PROVE  names'[captures[i].at] > 1
    <3>1. CASE d = c
      BY <1>3, <1>5, <2>3, <2>7, <3>1
    <3>2. CASE d # c
      BY <1>5, <1>6, <2>7, <3>2, CaptureFacts DEF CaptureInv, NamesCounted
    <3> QED
      BY <3>1, <3>2
  <2>8. \A i, j \in 1..Len(captures) :
           captures[i].at = captures[j].at => i = j \/ names'[captures[i].at] > 1
    BY <1>6, CaptureFacts DEF CaptureInv, NamesCounted
  <2> QED
    BY <2>4, <2>5, <2>6, <2>7, <2>8 DEF NamesCounted
<1>10. PagesArchived'
  <2>1. \A i \in 1..Len(captures) : archive[captures[i].at] = captures[i].text \/ names'[captures[i].at] > 1
    BY <1>6, CaptureFacts DEF CaptureInv, PagesArchived
  <2>2. ASSUME NEW d \in Scrapes, scrape'[d].pc \in AfterArchive
        PROVE  archive[scrape'[d].at] = scrape'[d].text \/ names'[scrape'[d].at] > 1
    <3>1. d # c /\ scrape'[d] = scrape[d]
      BY <1>3, <1>5, <2>2 DEF AfterArchive
    <3>2. scrape[d].at \in 1..MaxSeconds
      BY <2>2, <3>1, CaptureFacts DEF CaptureInv, ScrapesOK, AfterArchive, AfterFetch
    <3> QED
      BY <1>6, <2>2, <3>1, <3>2 DEF CaptureInv, PagesArchived
  <2> QED
    BY <2>1, <2>2 DEF PagesArchived
<1> QED
  BY <1>7, <1>8, <1>9, <1>10 DEF CaptureInv

\* An object is stored: under a name of one holder nobody else's is lost.
LEMMA StoreStep ==
    ASSUME CaptureInv, NEW c \in Scrapes, StoreRaw(c)
    PROVE  CaptureInv'
<1> PICK t, text : t = scrape[c].at /\ text = scrape[c].text
  OBVIOUS
<1> DEFINE row == [scrape[c] EXCEPT !.pc = "compare"]
<1>0. /\ scrape \in [Scrapes -> ScrapesUnderWay]
      /\ archive \in [1..MaxSeconds -> Readable \cup {Unfetched}]
      /\ scrape[c].pc = "archive" /\ UNCHANGED <<site, second, captures, names, mishaps>>
  BY DEF CaptureInv, CaptureTypes, CaptureTypeOK, StoreRaw, At
<1>1. t \in 1..MaxSeconds /\ text \in Readable
  BY <1>0, CaptureFacts DEF CaptureInv, ScrapesOK, AfterFetch
<1>2. archive' = [archive EXCEPT ![t] = text] /\ scrape' = [scrape EXCEPT ![c].pc = "compare"]
  BY DEF StoreRaw, PutObject, NameOf
<1>3. /\ row \in ScrapesUnderWay /\ row.pc = "compare" /\ row.at = t /\ row.text = text
      /\ scrape' = [scrape EXCEPT ![c] = row]
  BY <1>0, <1>2 DEF ScrapesUnderWay, CaptureStages
<1> HIDE DEF row
<1>4. /\ scrape'[c] = row /\ \A d \in Scrapes : d # c => scrape'[d] = scrape[d]
      /\ scrape' \in [Scrapes -> ScrapesUnderWay]
      /\ archive' \in [1..MaxSeconds -> Readable \cup {Unfetched}] /\ archive'[t] = text
      /\ \A u \in 1..MaxSeconds : u # t => archive'[u] = archive[u]
  BY <1>0, <1>1, <1>2, <1>3
<1>5. CaptureTypes'
  BY <1>0, <1>4 DEF CaptureInv, CaptureTypes, CaptureTypeOK, ScrapesUnderWay
<1>6. ScrapesOK'
  BY <1>0, <1>1, <1>3, <1>4 DEF CaptureInv, ScrapesOK, AfterFetch
<1>7. \A d \in Scrapes : scrape'[d].at = scrape[d].at
  BY <1>3, <1>4
<1>8. NamesCounted'
  BY <1>0, <1>7 DEF CaptureInv, NamesCounted
<1>9. PagesArchived'
  <2>1. ASSUME NEW d \in Scrapes, scrape'[d].pc \in AfterArchive
        PROVE  archive'[scrape'[d].at] = scrape'[d].text \/ names[scrape'[d].at] > 1
    <3>1. CASE d = c
      BY <1>3, <1>4, <3>1
    <3>2. CASE d # c
      <4>1. scrape'[d] = scrape[d] /\ scrape[d].at \in 1..MaxSeconds
        BY <1>4, <2>1, <3>2, CaptureFacts DEF CaptureInv, ScrapesOK, AfterArchive, AfterFetch
      <4>2. scrape[d].at = t => names[t] > 1
        BY <1>1, <3>2, <4>1 DEF CaptureInv, NamesCounted
      <4> QED
        BY <1>4, <2>1, <4>1, <4>2 DEF CaptureInv, PagesArchived
    <3> QED
      BY <3>1, <3>2
  <2>2. ASSUME NEW i \in 1..Len(captures)
        PROVE  archive'[captures[i].at] = captures[i].text \/ names[captures[i].at] > 1
    <3>1. captures[i].at \in 1..MaxSeconds
      BY CaptureFacts
    <3>2. captures[i].at = t => names[t] > 1
      BY DEF CaptureInv, NamesCounted
    <3> QED
      BY <1>4, <3>1, <3>2 DEF CaptureInv, PagesArchived
  <2> QED
    BY <1>0, <2>1, <2>2 DEF PagesArchived
<1> QED
  BY <1>5, <1>6, <1>8, <1>9 DEF CaptureInv

\* A revision takes the place of its scrape as the holder of a name.
LEMMA PersistStep ==
    ASSUME CaptureInv, NEW c \in Scrapes, Persist(c)
    PROVE  CaptureInv'
<1> DEFINE v == [f \in {"text", "at", "last", "facts", "changed"} |-> scrape[c][f]]
<1>0. /\ scrape \in [Scrapes -> ScrapesUnderWay] /\ scrape[c].pc = "persist"
      /\ captures' = Append(captures, v) /\ scrape' = [scrape EXCEPT ![c] = NoScrape]
      /\ UNCHANGED <<site, second, archive, names, mishaps>>
  BY DEF CaptureInv, CaptureTypes, Persist, At
<1>1. /\ scrape[c].at \in 1..MaxSeconds /\ scrape[c].text \in Readable /\ scrape[c].facts \in Facts
  BY <1>0, CaptureFacts DEF CaptureInv, ScrapesOK, AfterFetch
<1>2. /\ v.at = scrape[c].at /\ v.text = scrape[c].text /\ v.facts = scrape[c].facts
      /\ v.last = scrape[c].last /\ v.changed = scrape[c].changed
  OBVIOUS
<1>3. v \in Revisions
  <2>1. v = [text |-> scrape[c].text, at |-> scrape[c].at, last |-> scrape[c].last,
             facts |-> scrape[c].facts, changed |-> scrape[c].changed]
    OBVIOUS
  <2>2. scrape[c].last \in Nat /\ scrape[c].changed \in BOOLEAN
    BY <1>0 DEF ScrapesUnderWay
  <2> HIDE DEF v
  <2> QED
    BY <1>1, <2>1, <2>2 DEF Revisions
<1> HIDE DEF v
<1>4. /\ captures' \in Seq(Revisions) /\ Len(captures') = Len(captures) + 1
      /\ captures'[Len(captures) + 1] = v
      /\ \A i \in 1..Len(captures) : captures'[i] = captures[i]
  BY <1>0, <1>3, AppendProperties DEF CaptureInv, CaptureTypes
<1>5. \A i \in 1..Len(captures') : \/ i \in 1..Len(captures) /\ captures'[i] = captures[i]
                                   \/ i = Len(captures) + 1 /\ captures'[i] = v
  BY <1>4, CaptureFacts
<1>6. /\ NoScrape \in ScrapesUnderWay /\ NoScrape.pc = "idle" /\ NoScrape.at = 0
  BY NoScrapeTyped
<1>7. /\ scrape'[c] = NoScrape /\ \A d \in Scrapes : d # c => scrape'[d] = scrape[d]
      /\ scrape' \in [Scrapes -> ScrapesUnderWay]
  BY <1>0, <1>6
<1>8. CaptureTypes'
  BY <1>0, <1>4, <1>7 DEF CaptureInv, CaptureTypes, CaptureTypeOK, ScrapesUnderWay, Revisions
<1>9. ScrapesOK'
  BY <1>0, <1>6, <1>7 DEF CaptureInv, ScrapesOK, AfterFetch
<1>10. NamesCounted'
  <2>1. \A d \in Scrapes : scrape'[d].at # 0 => d # c /\ scrape'[d] = scrape[d]
    BY <1>6, <1>7
  <2>2. \A d \in Scrapes : \A i \in 1..Len(captures') :
           scrape'[d].at = captures'[i].at => names[captures'[i].at] > 1
    <3> SUFFICES ASSUME NEW d \in Scrapes, NEW i \in 1..Len(captures'), scrape'[d].at = captures'[i].at
                 PROVE  names[captures'[i].at] > 1
      OBVIOUS
    <3>1. captures'[i].at # 0
      BY <1>1, <1>2, <1>5, CaptureFacts
    <3>2. d # c /\ scrape'[d] = scrape[d]
      BY <2>1, <3>1
    <3>3. CASE captures'[i] = v
      BY <1>1, <1>2, <3>2, <3>3 DEF CaptureInv, NamesCounted
    <3>4. CASE i \in 1..Len(captures) /\ captures'[i] = captures[i]
      BY <3>2, <3>4 DEF CaptureInv, NamesCounted
    <3> QED
      BY <1>5, <3>3, <3>4
  <2>3. \A i, j \in 1..Len(captures') :
           captures'[i].at = captures'[j].at => i = j \/ names[captures'[i].at] > 1
    BY <1>2, <1>5 DEF CaptureInv, NamesCounted
  <2>4. \A i \in 1..Len(captures') : names[captures'[i].at] # 0
    BY <1>1, <1>2, <1>5 DEF CaptureInv, NamesCounted
  <2>5. \A d \in Scrapes : scrape'[d].at # 0 => names[scrape'[d].at] # 0
    BY <2>1 DEF CaptureInv, NamesCounted
  <2>6. \A d, e \in Scrapes :
          scrape'[d].at # 0 /\ scrape'[d].at = scrape'[e].at => d = e \/ names[scrape'[d].at] > 1
    BY <2>1 DEF CaptureInv, NamesCounted
  <2> QED
    BY <1>0, <2>2, <2>3, <2>4, <2>5, <2>6 DEF NamesCounted
<1>11. PagesArchived'
  <2>1. \A d \in Scrapes : scrape'[d].pc \in AfterArchive => scrape'[d] = scrape[d]
    BY <1>6, <1>7 DEF AfterArchive
  <2>2. archive[v.at] = v.text \/ names[v.at] > 1
    BY <1>0, <1>2 DEF CaptureInv, PagesArchived, AfterArchive
  <2> QED
    BY <1>0, <1>5, <2>1, <2>2 DEF CaptureInv, PagesArchived
<1> QED
  BY <1>8, <1>9, <1>10, <1>11 DEF CaptureInv

\* The rest of a scrape.
LEMMA ScrapeStep ==
    ASSUME CaptureInv, NEW c \in Scrapes,
           \/ StartScrape(c) \/ Escalate(c) \/ CompareHash(c) \/ Extract(c) \/ Judge(c) \/ ScrapeFails(c)
    PROVE  CaptureInv'
<1>0. /\ scrape \in [Scrapes -> ScrapesUnderWay] /\ mishaps \in 0..FetchFaults
      /\ scrape[c] \in ScrapesUnderWay
  BY DEF CaptureInv, CaptureTypes, CaptureTypeOK
<1>1. /\ UNCHANGED <<site, second, archive, captures, names>> /\ mishaps' \in 0..FetchFaults
  <2>1. mishaps' = mishaps \/ Mishap
    BY DEF StartScrape, Escalate, CompareHash, Extract, Judge, ScrapeFails
  <2>2. mishaps' \in 0..FetchFaults
    BY <1>0, <2>1, CaptureBounds DEF Mishap
  <2> QED
    BY <2>2 DEF StartScrape, Escalate, CompareHash, Extract, Judge, ScrapeFails
<1>2. CASE StartScrape(c)
  <2> DEFINE row == [scrape[c] EXCEPT !.pc = "fast"]
  <2>1. /\ row \in ScrapesUnderWay /\ row.pc = "fast" /\ row.at = 0
        /\ scrape' = [scrape EXCEPT ![c] = row] /\ site # NoSite
    BY <1>0, <1>2 DEF StartScrape, ScrapesUnderWay, CaptureStages, At, CaptureInv, ScrapesOK, AfterFetch
  <2> HIDE DEF row
  <2> QED
    BY <1>1, <2>1, ScrapeGoesOn DEF AfterFetch, AfterArchive
<1>3. CASE Escalate(c)
  <2> DEFINE row == [scrape[c] EXCEPT !.pc = "browser"]
  <2>1. /\ row \in ScrapesUnderWay /\ row.pc = "browser" /\ row.at = 0
        /\ scrape' = [scrape EXCEPT ![c] = row] /\ site # NoSite
    BY <1>0, <1>3 DEF Escalate, ScrapesUnderWay, CaptureStages, At, CaptureInv, ScrapesOK, AfterFetch
  <2> HIDE DEF row
  <2> QED
    BY <1>1, <2>1, ScrapeGoesOn DEF AfterFetch, AfterArchive
<1>4. CASE ScrapeFails(c)
  <2>1. /\ NoScrape \in ScrapesUnderWay /\ NoScrape.pc = "idle" /\ NoScrape.at = 0
    BY NoScrapeTyped
  <2>2. scrape' = [scrape EXCEPT ![c] = NoScrape]
    BY <1>4 DEF ScrapeFails
  <2> QED
    BY <1>1, <2>1, <2>2, ScrapeGoesOn DEF AfterFetch, AfterArchive
<1>5. ASSUME NEW row \in ScrapesUnderWay, scrape' = [scrape EXCEPT ![c] = row],
             scrape[c].pc \in AfterArchive, row.pc \in AfterArchive,
             row.at = scrape[c].at, row.text = scrape[c].text,
             row.pc \in {"judge", "persist"} => row.facts \in Facts
      PROVE  CaptureInv'
  <2>1. site # NoSite
    BY <1>5 DEF CaptureInv, ScrapesOK, AfterArchive
  <2> QED
    BY <1>1, <1>5, <2>1, ScrapeGoesOn DEF AfterFetch, AfterArchive
<1>6. CASE CompareHash(c)
  <2>1. PICK n \in Nat : n = Len(captures)
    BY CaptureFacts
  <2>2. CASE n > 0 /\ captures[n].text = scrape[c].text
    <3> DEFINE row == [scrape[c] EXCEPT !.pc = "persist", !.last = n, !.facts = captures[n].facts]
    <3>1. captures[n].facts \in Facts
      BY <2>1, <2>2, CaptureFacts DEF Revisions
    <3>2. /\ row \in ScrapesUnderWay /\ row.pc = "persist" /\ row.at = scrape[c].at
          /\ row.text = scrape[c].text /\ row.facts \in Facts
      BY <1>0, <3>1 DEF ScrapesUnderWay, CaptureStages
    <3>3. scrape' = [scrape EXCEPT ![c] = row]
      BY <1>0, <1>6, <2>1, <2>2 DEF CompareHash, ScrapesUnderWay
    <3>4. scrape[c].pc = "compare"
      BY <1>6 DEF CompareHash, At
    <3> HIDE DEF row
    <3> QED
      BY <1>5, <3>2, <3>3, <3>4 DEF AfterArchive
  <2>3. CASE ~(n > 0 /\ captures[n].text = scrape[c].text)
    <3> DEFINE row == [scrape[c] EXCEPT !.pc = "extract", !.last = n]
    <3>1. /\ row \in ScrapesUnderWay /\ row.pc = "extract" /\ row.at = scrape[c].at
          /\ row.text = scrape[c].text
      BY <1>0, <2>1 DEF ScrapesUnderWay, CaptureStages
    <3>2. scrape' = [scrape EXCEPT ![c] = row]
      BY <1>0, <1>6, <2>1, <2>3 DEF CompareHash, ScrapesUnderWay
    <3>3. scrape[c].pc = "compare"
      BY <1>6 DEF CompareHash, At
    <3> HIDE DEF row
    <3> QED
      BY <1>5, <3>1, <3>2, <3>3 DEF AfterArchive
  <2> QED
    BY <2>2, <2>3
<1>7. ASSUME Retry(c), scrape[c].pc \in {"extract", "judge"} PROVE CaptureInv'
  <2> DEFINE row == [scrape[c] EXCEPT !.tries = scrape[c].tries + 1]
  <2>1. /\ row \in ScrapesUnderWay /\ row.pc = scrape[c].pc /\ row.at = scrape[c].at
        /\ row.text = scrape[c].text /\ row.facts = scrape[c].facts
    <3>1. scrape[c].tries + 1 \in 0..Retries
      BY <1>0, <1>7, CaptureBounds DEF Retry, ScrapesUnderWay
    <3> QED
      BY <1>0, <3>1 DEF ScrapesUnderWay
  <2>2. scrape' = [scrape EXCEPT ![c] = row]
    BY <1>0, <1>7 DEF Retry, ScrapesUnderWay
  <2> HIDE DEF row
  <2> QED
    BY <1>5, <1>7, <2>1, <2>2 DEF AfterArchive, CaptureInv, ScrapesOK
<1>8. CASE Extract(c)
  <2>1. scrape[c].pc = "extract"
    BY <1>8 DEF Extract, At
  <2>2. ASSUME NEW f \in Facts,
               scrape' = [scrape EXCEPT ![c].pc = "judge", ![c].facts = f, ![c].tries = 0]
        PROVE  CaptureInv'
    <3> DEFINE row == [scrape[c] EXCEPT !.pc = "judge", !.facts = f, !.tries = 0]
    <3>1. /\ row \in ScrapesUnderWay /\ row.pc = "judge" /\ row.at = scrape[c].at
          /\ row.text = scrape[c].text /\ row.facts \in Facts
      <4>1. 0 \in 0..Retries
        BY CaptureBounds
      <4> QED
        BY <1>0, <4>1 DEF ScrapesUnderWay, CaptureStages
    <3>2. scrape' = [scrape EXCEPT ![c] = row]
      BY <1>0, <2>2 DEF ScrapesUnderWay
    <3> HIDE DEF row
    <3> QED
      BY <1>5, <2>1, <3>1, <3>2 DEF AfterArchive
  <2> QED
    BY <1>7, <1>8, <2>1, <2>2 DEF Extract
<1>9. CASE Judge(c)
  <2>1. scrape[c].pc = "judge"
    BY <1>9 DEF Judge, At
  <2>2. ASSUME NEW changed \in BOOLEAN, Verdict(c, changed) PROVE CaptureInv'
    <3> DEFINE row == [scrape[c] EXCEPT !.pc = "persist", !.changed = changed]
    <3>1. /\ row \in ScrapesUnderWay /\ row.pc = "persist" /\ row.at = scrape[c].at
          /\ row.text = scrape[c].text /\ row.facts = scrape[c].facts
      BY <1>0 DEF ScrapesUnderWay, CaptureStages
    <3>2. scrape' = [scrape EXCEPT ![c] = row]
      BY <1>0, <2>2 DEF Verdict, ScrapesUnderWay
    <3>3. scrape[c].facts \in Facts
      BY <2>1 DEF CaptureInv, ScrapesOK
    <3> HIDE DEF row
    <3> QED
      BY <1>5, <2>1, <3>1, <3>2, <3>3 DEF AfterArchive
  <2> QED
    BY <1>7, <1>9, <2>1, <2>2 DEF Judge
<1> QED
  BY <1>2, <1>3, <1>4, <1>6, <1>8, <1>9

\* The site appears and changes, and time passes.
LEMMA OutsideCaptureStep ==
    ASSUME CaptureInv, SiteAppears \/ SitePublishes \/ SecondPasses
    PROVE  CaptureInv'
<1>1. UNCHANGED <<archive, captures, scrape, names, mishaps>>
  BY DEF SiteAppears, SitePublishes, SecondPasses
<1>2. second' \in 1..MaxSeconds
  <2>1. second \in 1..MaxSeconds
    BY DEF CaptureInv, CaptureTypes, CaptureTypeOK
  <2>2. CASE SiteAppears \/ SitePublishes
    <3>1. second' = second
      BY <2>2 DEF SiteAppears, SitePublishes
    <3> QED
      BY <2>1, <3>1
  <2>3. CASE SecondPasses
    BY <2>1, <2>3, CaptureBounds DEF SecondPasses
  <2> QED
    BY <2>2, <2>3
<1>3. /\ site' \in [form : Forms, text : Texts] \cup {NoSite}
      /\ site # NoSite => site' # NoSite
  <2>1. CASE SiteAppears \/ SecondPasses
    BY <2>1 DEF SiteAppears, SecondPasses, CaptureInv, CaptureTypes, CaptureTypeOK
  <2>2. CASE SitePublishes
    <3>1. site \in [form : Forms, text : Texts]
      BY <2>2 DEF SitePublishes, CaptureInv, CaptureTypes, CaptureTypeOK
    <3>2. site' \in [form : Forms, text : Texts] /\ site'.form = site.form
      BY <2>2, <3>1 DEF SitePublishes
    <3> QED
      BY <3>1, <3>2 DEF NoSite, Forms
  <2> QED
    BY <2>1, <2>2
<1> QED
  BY <1>1, <1>2, <1>3 DEF CaptureInv, CaptureTypes, CaptureTypeOK, ScrapesOK, NamesCounted, PagesArchived

LEMMA CaptureInvStep == CaptureInv /\ [CaptureNext]_captureVars => CaptureInv'
<1> SUFFICES ASSUME CaptureInv, [CaptureNext]_captureVars PROVE CaptureInv'
  OBVIOUS
<1>1. ASSUME NEW c \in Scrapes, FetchFast(c) \/ Browse(c) PROVE CaptureInv'
  <2>1. scrape[c].pc \in {"fast", "browser"} /\ UNCHANGED <<site, second, archive, captures, mishaps>>
    BY <1>1 DEF FetchFast, Browse, At
  <2>2. site # NoSite
    BY <2>1 DEF CaptureInv, ScrapesOK
  <2>3. site.text \in Readable /\ "blank" \in Readable
    BY <2>2 DEF CaptureInv, CaptureTypes, CaptureTypeOK, Readable
  <2>4. PICK text \in Readable : Arrives(c, text)
    BY <1>1, <2>3 DEF FetchFast, Browse
  <2> QED
    BY <2>1, <2>4, ArrivesStep
<1>2. CASE UNCHANGED captureVars
  BY <1>2 DEF captureVars, CaptureInv, CaptureTypes, CaptureTypeOK, ScrapesOK, NamesCounted, PagesArchived
<1> QED
  BY <1>1, <1>2, OutsideCaptureStep, ScrapeStep, StoreStep, PersistStep DEF CaptureNext

LEMMA CaptureInvInit == CaptureInit => CaptureInv
<1> SUFFICES ASSUME CaptureInit PROVE CaptureInv
  OBVIOUS
<1>1. /\ NoScrape \in ScrapesUnderWay /\ NoScrape.pc = "idle" /\ NoScrape.at = 0
  BY NoScrapeTyped
<1>2. /\ scrape \in [Scrapes -> ScrapesUnderWay]
      /\ \A c \in Scrapes : scrape[c].pc = "idle" /\ scrape[c].at = 0
  BY <1>1 DEF CaptureInit
<1>3. captures \in Seq(Revisions) /\ Len(captures) = 0 /\ captures = <<>>
  BY DEF CaptureInit
<1>4. /\ second \in 1..MaxSeconds /\ mishaps \in 0..FetchFaults
      /\ archive \in [1..MaxSeconds -> Readable \cup {Unfetched}]
      /\ names \in [1..MaxSeconds -> 0..2]
  <2>1. 1 \in 1..MaxSeconds /\ 0 \in 0..FetchFaults /\ 0 \in 0..2
    BY CaptureBounds
  <2> QED
    BY <2>1 DEF CaptureInit
<1>5. CaptureTypes
  BY <1>2, <1>3, <1>4 DEF CaptureInit, CaptureTypes, CaptureTypeOK, ScrapesUnderWay, Revisions
<1> QED
  BY <1>2, <1>3, <1>5 DEF CaptureInv, ScrapesOK, NamesCounted, PagesArchived, AfterFetch, AfterArchive

\* For every number of scrapes, texts, retries and failures: the archived page of a revision is
\* the one it was hashed from, where no two scrapes shared a second.
THEOREM ArchivesMatch == CaptureSpec => []ArchiveMatchesHash
<1>1. CaptureInv => ArchiveMatchesHash
  BY DEF CaptureInv, PagesArchived, ArchiveMatchesHash, NameOf
<1> QED
  BY <1>1, CaptureInvInit, CaptureInvStep, PTL DEF CaptureSpec

\* A scrape is compared with a revision there is: the page differs from that one while the AI is
\* asked, and what is to be recorded is grounded in it.
DataGrounded ==
    /\ \A i \in 1..Len(captures) : captures[i].last < i /\ Grounded(captures[i], captures)
    /\ \A c \in Scrapes :
          /\ scrape[c].last <= Len(captures)
          /\ scrape[c].pc # "persist" => scrape[c].changed = FALSE
          /\ scrape[c].pc \in {"extract", "judge"} /\ scrape[c].last # 0 =>
                scrape[c].text # captures[scrape[c].last].text
          /\ scrape[c].pc = "persist" => Grounded(scrape[c], captures)

\* A scrape moves on, and the revisions stay.
LEMMA GroundedMove ==
    ASSUME CaptureInv, DataGrounded, NEW c \in Scrapes, NEW row,
           scrape' = [scrape EXCEPT ![c] = row], captures' = captures,
           row.last <= Len(captures),
           row.pc # "persist" => row.changed = FALSE,
           row.pc \in {"extract", "judge"} /\ row.last # 0 => row.text # captures[row.last].text,
           row.pc = "persist" => Grounded(row, captures)
    PROVE  DataGrounded'
<1>1. scrape'[c] = row /\ \A d \in Scrapes : d # c => scrape'[d] = scrape[d]
  BY DEF CaptureInv, CaptureTypes
<1>2. ASSUME NEW d \in Scrapes
      PROVE  /\ scrape'[d].last <= Len(captures)
             /\ scrape'[d].pc # "persist" => scrape'[d].changed = FALSE
             /\ scrape'[d].pc \in {"extract", "judge"} /\ scrape'[d].last # 0 =>
                   scrape'[d].text # captures[scrape'[d].last].text
             /\ scrape'[d].pc = "persist" => Grounded(scrape'[d], captures)
  <2>1. CASE d = c
    BY <1>1, <2>1
  <2>2. CASE d # c
    BY <1>1, <2>2 DEF DataGrounded
  <2> QED
    BY <2>1, <2>2
<1> QED
  BY <1>2 DEF DataGrounded

\* Fetching, storing and asking again leave the comparison as it is.
LEMMA GroundedOn ==
    ASSUME CaptureInv, DataGrounded, NEW c \in Scrapes,
           \/ StartScrape(c) \/ FetchFast(c) \/ Escalate(c) \/ Browse(c) \/ StoreRaw(c)
           \/ Extract(c) \/ ScrapeFails(c)
    PROVE  DataGrounded'
<1> PICK old \in ScrapesUnderWay : old = scrape[c]
  BY CaptureFacts
<1>0. /\ captures' = captures /\ old.last <= Len(captures)
      /\ old.pc # "persist" => old.changed = FALSE
      /\ old.pc \in {"extract", "judge"} /\ old.last # 0 => old.text # captures[old.last].text
  BY DEF DataGrounded, StartScrape, FetchFast, Escalate, Browse, StoreRaw, Extract, ScrapeFails
<1>1. ASSUME NEW pc \in {"fast", "browser", "compare"}, scrape' = [scrape EXCEPT ![c].pc = pc],
             old.pc # "persist"
      PROVE  DataGrounded'
  <2> DEFINE row == [old EXCEPT !.pc = pc]
  <2>1. row.pc = pc /\ row.last = old.last /\ row.changed = old.changed
    BY DEF ScrapesUnderWay
  <2>2. scrape' = [scrape EXCEPT ![c] = row]
    BY <1>1
  <2> HIDE DEF row
  <2>3. row.pc # "persist" /\ row.pc \notin {"extract", "judge"} /\ row.changed = FALSE
    BY <1>0, <1>1, <2>1
  <2> QED
    BY <1>0, <2>1, <2>2, <2>3, GroundedMove
<1>2. ASSUME NEW text, Arrives(c, text), old.pc # "persist" PROVE DataGrounded'
  <2> DEFINE got == IF site.form = "broken" THEN "PDF extraction failed" ELSE text
  <2> DEFINE row == [old EXCEPT !.pc = "archive", !.at = second, !.text = got]
  <2>1. row.pc = "archive" /\ row.last = old.last /\ row.changed = old.changed
    BY DEF ScrapesUnderWay
  <2>2. scrape' = [scrape EXCEPT ![c] = row]
    BY <1>2 DEF Arrives
  <2> HIDE DEF row, got
  <2> QED
    BY <1>0, <1>2, <2>1, <2>2, GroundedMove
<1>3. CASE ScrapeFails(c)
  <2> PICK row : row = NoScrape
    OBVIOUS
  <2>1. row.pc = "idle" /\ row.last = 0 /\ row.changed = FALSE
    BY DEF NoScrape
  <2>2. scrape' = [scrape EXCEPT ![c] = row] /\ 0 <= Len(captures)
    BY <1>3, CaptureFacts DEF ScrapeFails
  <2> QED
    BY <1>0, <2>1, <2>2, GroundedMove
<1>4. CASE Extract(c)
  <2>1. old.pc = "extract"
    BY <1>4 DEF Extract, At
  <2>2. ASSUME NEW f \in Facts,
               scrape' = [scrape EXCEPT ![c].pc = "judge", ![c].facts = f, ![c].tries = 0]
        PROVE  DataGrounded'
    <3> DEFINE row == [old EXCEPT !.pc = "judge", !.facts = f, !.tries = 0]
    <3>1. row.pc = "judge" /\ row.last = old.last /\ row.changed = old.changed /\ row.text = old.text
      BY DEF ScrapesUnderWay
    <3>2. scrape' = [scrape EXCEPT ![c] = row]
      BY <2>2
    <3> HIDE DEF row
    <3> QED
      BY <1>0, <2>1, <3>1, <3>2, GroundedMove
  <2>3. CASE Retry(c)
    <3> DEFINE row == [old EXCEPT !.tries = old.tries + 1]
    <3>1. row.pc = "extract" /\ row.last = old.last /\ row.changed = old.changed
          /\ row.text = old.text
      BY <2>1 DEF ScrapesUnderWay
    <3>2. scrape' = [scrape EXCEPT ![c] = row]
      BY <2>3 DEF Retry
    <3> HIDE DEF row
    <3> QED
      BY <1>0, <2>1, <3>1, <3>2, GroundedMove
  <2> QED
    BY <1>4, <2>2, <2>3 DEF Extract
<1>5. CASE StartScrape(c) \/ Escalate(c) \/ StoreRaw(c)
  BY <1>1, <1>5 DEF StartScrape, Escalate, StoreRaw, At
<1>6. CASE FetchFast(c) \/ Browse(c)
  BY <1>2, <1>6 DEF FetchFast, Browse, At
<1> QED
  BY <1>3, <1>4, <1>5, <1>6

\* The comparison: an equal page takes the data over, ...
LEMMA GroundedCompare ==
    ASSUME CaptureInv, DataGrounded, NEW c \in Scrapes, CompareHash(c)
    PROVE  DataGrounded'
<1> PICK old \in ScrapesUnderWay : old = scrape[c]
  BY CaptureFacts
<1> PICK n \in Nat : n = Len(captures)
  BY CaptureFacts
<1>n. n <= Len(captures) /\ (~(n > 0) => n = 0)
  OBVIOUS
<1>0. captures' = captures /\ old.changed = FALSE
  BY DEF DataGrounded, CompareHash, At
<1>1. CASE n > 0 /\ captures[n].text = old.text
  <2> DEFINE row == [old EXCEPT !.pc = "persist", !.last = n, !.facts = captures[n].facts]
  <2>1. /\ row.pc = "persist" /\ row.last = n /\ row.facts = captures[n].facts
        /\ row.changed = FALSE
    BY <1>0 DEF ScrapesUnderWay
  <2>2. scrape' = [scrape EXCEPT ![c] = row]
    BY <1>1 DEF CompareHash
  <2> HIDE DEF row
  <2>3. Grounded(row, captures)
    BY <2>1 DEF Grounded
  <2> QED
    BY <1>0, <1>n, <2>1, <2>2, <2>3, GroundedMove
<1>2. CASE ~(n > 0 /\ captures[n].text = old.text)
  <2> DEFINE row == [old EXCEPT !.pc = "extract", !.last = n]
  <2>1. row.pc = "extract" /\ row.last = n /\ row.text = old.text /\ row.changed = FALSE
    BY <1>0 DEF ScrapesUnderWay
  <2>2. scrape' = [scrape EXCEPT ![c] = row]
    BY <1>2 DEF CompareHash
  <2> HIDE DEF row
  <2> QED
    BY <1>0, <1>n, <1>2, <2>1, <2>2, GroundedMove
<1> QED
  BY <1>1, <1>2

\* ... another page is only reported if its data differ too.
LEMMA GroundedJudge ==
    ASSUME CaptureInv, DataGrounded, NEW c \in Scrapes, Judge(c)
    PROVE  DataGrounded'
<1> PICK old \in ScrapesUnderWay : old = scrape[c]
  BY CaptureFacts
<1>0. /\ captures' = captures /\ old.pc = "judge" /\ old.last <= Len(captures)
      /\ old.changed = FALSE /\ (old.last # 0 => old.text # captures[old.last].text)
  BY DEF DataGrounded, Judge, At
<1>1. ASSUME NEW changed \in BOOLEAN, Verdict(c, changed),
             changed /\ old.last # 0 => captures[old.last].facts # old.facts
      PROVE  DataGrounded'
  <2> DEFINE row == [old EXCEPT !.pc = "persist", !.changed = changed]
  <2>1. /\ row.pc = "persist" /\ row.last = old.last /\ row.facts = old.facts
        /\ row.text = old.text /\ row.changed = changed
    BY DEF ScrapesUnderWay
  <2>2. scrape' = [scrape EXCEPT ![c] = row]
    BY <1>1 DEF Verdict
  <2> HIDE DEF row
  <2>3. Grounded(row, captures)
    BY <1>0, <1>1, <2>1 DEF Grounded
  <2> QED
    BY <1>0, <2>1, <2>2, <2>3, GroundedMove
<1>2. CASE Retry(c)
  <2> DEFINE row == [old EXCEPT !.tries = old.tries + 1]
  <2>1. row.pc = "judge" /\ row.last = old.last /\ row.changed = old.changed
        /\ row.text = old.text
    BY <1>0 DEF ScrapesUnderWay
  <2>2. scrape' = [scrape EXCEPT ![c] = row]
    BY <1>2 DEF Retry
  <2> HIDE DEF row
  <2> QED
    BY <1>0, <2>1, <2>2, GroundedMove
<1> QED
  BY <1>1, <1>2 DEF Judge

\* Revisions are only added, so that what a scrape was compared with stays what it was.
LEMMA GroundedPersist ==
    ASSUME CaptureInv, DataGrounded, NEW c \in Scrapes, Persist(c)
    PROVE  DataGrounded'
<1> DEFINE v == [f \in {"text", "at", "last", "facts", "changed"} |-> scrape[c][f]]
<1>0. /\ captures' = Append(captures, v) /\ scrape' = [scrape EXCEPT ![c] = NoScrape]
      /\ scrape \in [Scrapes -> ScrapesUnderWay] /\ captures \in Seq(Revisions)
      /\ scrape[c].pc = "persist"
  BY DEF Persist, CaptureInv, CaptureTypes, At
<1>1. /\ v.last = scrape[c].last /\ v.facts = scrape[c].facts /\ v.text = scrape[c].text
      /\ v.changed = scrape[c].changed
  OBVIOUS
<1> HIDE DEF v
<1>2. /\ Len(captures') = Len(captures) + 1 /\ captures'[Len(captures) + 1] = v
      /\ \A i \in 1..Len(captures) : captures'[i] = captures[i]
  <2>1. \A S, e : \A s \in Seq(S) : /\ Len(Append(s, e)) = Len(s) + 1
                                    /\ Append(s, e)[Len(s) + 1] = e
                                    /\ \A i \in 1..Len(s) : Append(s, e)[i] = s[i]
    OBVIOUS
  <2> QED
    BY <1>0, <2>1
<1>3. Len(captures) \in Nat
  BY CaptureFacts
<1>4. \A x : x.last \in 0..Len(captures) /\ Grounded(x, captures) => Grounded(x, captures')
  BY <1>2, <1>3 DEF Grounded
<1>5. scrape[c].last \in 0..Len(captures) /\ Grounded(scrape[c], captures)
  BY <1>0, <1>3 DEF DataGrounded, ScrapesUnderWay
<1>6. Grounded(v, captures)
  BY <1>1, <1>5 DEF Grounded
<1>7. ASSUME NEW i \in 1..Len(captures') PROVE captures'[i].last < i /\ Grounded(captures'[i], captures')
  <2>1. CASE i \in 1..Len(captures)
    <3>1. captures[i].last \in 0..Len(captures)
      BY <1>0, <1>3, <2>1, CaptureFacts DEF DataGrounded, Revisions
    <3> QED
      BY <1>2, <1>3, <1>4, <2>1, <3>1 DEF DataGrounded
  <2>2. CASE i = Len(captures) + 1
    BY <1>1, <1>2, <1>3, <1>4, <1>5, <1>6, <2>2
  <2> QED
    BY <1>2, <1>3, <2>1, <2>2
<1>8. ASSUME NEW d \in Scrapes
      PROVE  /\ scrape'[d].last <= Len(captures')
             /\ scrape'[d].pc # "persist" => scrape'[d].changed = FALSE
             /\ scrape'[d].pc \in {"extract", "judge"} /\ scrape'[d].last # 0 =>
                   scrape'[d].text # captures'[scrape'[d].last].text
             /\ scrape'[d].pc = "persist" => Grounded(scrape'[d], captures')
  <2>1. CASE d = c
    <3>1. NoScrape.pc = "idle" /\ NoScrape.last = 0 /\ NoScrape.changed = FALSE
      BY DEF NoScrape
    <3> QED
      BY <1>0, <1>2, <1>3, <2>1, <3>1
  <2>2. CASE d # c
    <3>1. scrape'[d] = scrape[d]
      BY <1>0, <2>2
    <3>2. scrape[d].last \in 0..Len(captures)
      BY <1>0, <1>3 DEF DataGrounded, ScrapesUnderWay
    <3> QED
      BY <1>2, <1>3, <1>4, <3>1, <3>2 DEF DataGrounded
  <2> QED
    BY <2>1, <2>2
<1> QED
  BY <1>7, <1>8 DEF DataGrounded

LEMMA DataGroundedStep == CaptureInv /\ DataGrounded /\ [CaptureNext]_captureVars => DataGrounded'
<1> SUFFICES ASSUME CaptureInv, DataGrounded, [CaptureNext]_captureVars PROVE DataGrounded'
  OBVIOUS
<1>1. CASE SiteAppears \/ SitePublishes \/ SecondPasses \/ UNCHANGED captureVars
  <2>1. UNCHANGED <<captures, scrape>>
    BY <1>1 DEF SiteAppears, SitePublishes, SecondPasses, captureVars
  <2> QED
    BY <2>1 DEF DataGrounded, Grounded
<1> QED
  BY <1>1, GroundedOn, GroundedCompare, GroundedJudge, GroundedPersist DEF CaptureNext

\* For every number of scrapes, texts, retries and failures: a revision reports a change only
\* where its data differ from those of the older one it was compared with, and an unchanged page
\* keeps its data.
THEOREM ChangesAreGrounded == CaptureSpec => []ChangesAreFound
<1>1. CaptureInit => DataGrounded
  <2>1. NoScrape.pc = "idle" /\ NoScrape.last = 0 /\ NoScrape.changed = FALSE
    BY DEF NoScrape
  <2> QED
    BY <2>1 DEF CaptureInit, DataGrounded
<1>2. CaptureInv /\ DataGrounded => ChangesAreFound
  BY DEF DataGrounded, ChangesAreFound
<1> QED
  BY <1>1, <1>2, CaptureInvInit, CaptureInvStep, DataGroundedStep, PTL DEF CaptureSpec

-----------------------------------------------------------------------------
(***************************************************************************)
(* Realtime. What a client has received is what it was owed: the channel   *)
(* and the event being sent come after it, in order, and what is owed and  *)
(* not received is on its way.                                             *)
(***************************************************************************)

EventRows == [id : 1..MaxEvents, topic : Topics, to : SUBSET Sockets]

\* What is yet to be taken is later than what was received, and in order.
EventsInOrder ==
    /\ channel \in Seq(EventRows)
    /\ \A i \in 1..Len(channel) : channel[i].id <= published
    /\ \A i, j \in 1..Len(channel) : i < j => channel[i].id < channel[j].id
    /\ \A s \in Sockets : \A k \in 1..Len(received[s]) :
          /\ received[s][k] <= published
          /\ \A i \in 1..Len(channel) : received[s][k] < channel[i].id
    /\ \A s \in Sockets : \A k, m \in 1..Len(received[s]) :
          k < m => received[s][k] < received[s][m]

\* The event being sent is between the two, and owed to those it is yet to be sent to.
EventBeingSent ==
    /\ bridge # "sending" => event.left = {}
    /\ event.id <= published
    /\ \A i \in 1..Len(channel) : event.id < channel[i].id
    /\ \A s \in event.left :
          /\ socket[s] \notin {"new", "known"}
          /\ event.id \in owed[s]
          /\ \A k \in 1..Len(received[s]) : received[s][k] < event.id

\* A socket is owed nothing it did not receive before it subscribes, and while its client is
\* there nothing but the event on its way to it.
DebtsPaid ==
    /\ \A t \in Topics : \A s \in subscribed[t] : socket[s] \notin {"new", "known"}
    /\ \A s \in Sockets : socket[s] \in {"new", "known", "open"} =>
          ToSet(received[s]) = owed[s] \ (IF s \in event.left THEN {event.id} ELSE {})

RealtimeInv == RealtimeTypeOK /\ EventsInOrder /\ EventBeingSent /\ DebtsPaid

\* The numbers of the events.
LEMMA EventNumbers ==
    ASSUME RealtimeInv
    PROVE  /\ channel \in Seq(EventRows) /\ Len(channel) \in Nat
           /\ \A i \in 1..Len(channel) : channel[i] \in EventRows /\ channel[i].id \in Nat /\ channel[i].id > 0
           /\ event.id \in Nat /\ published \in Nat
           /\ \A s \in Sockets :
                 /\ received[s] \in Seq(1..MaxEvents) /\ Len(received[s]) \in Nat
                 /\ DOMAIN received[s] = 1..Len(received[s])
                 /\ \A k \in 1..Len(received[s]) : received[s][k] \in 1..MaxEvents /\ received[s][k] \in Nat
<1>1. channel \in Seq(EventRows)
  BY DEF RealtimeInv, EventsInOrder
<1>2. \A i \in 1..Len(channel) : channel[i] \in EventRows
  BY <1>1, ElementOfSeq
<1>3. \A e \in EventRows : e.id \in Nat /\ e.id > 0
  BY RealtimeAssumption DEF EventRows
<1>4. ASSUME NEW s \in Sockets
      PROVE  /\ received[s] \in Seq(1..MaxEvents) /\ Len(received[s]) \in Nat
             /\ DOMAIN received[s] = 1..Len(received[s])
             /\ \A k \in 1..Len(received[s]) : received[s][k] \in 1..MaxEvents /\ received[s][k] \in Nat
  <2>1. received[s] \in Seq(1..MaxEvents)
    BY DEF RealtimeInv, RealtimeTypeOK
  <2>2. \A k \in 1..Len(received[s]) : received[s][k] \in 1..MaxEvents
    BY <2>1, ElementOfSeq
  <2>3. \A n \in 1..MaxEvents : n \in Nat
    BY RealtimeAssumption
  <2> QED
    BY <2>1, <2>2, <2>3
<1>5. event.id \in Nat /\ published \in Nat
  BY RealtimeAssumption DEF RealtimeInv, RealtimeTypeOK
<1> QED
  BY <1>1, <1>2, <1>3, <1>4, <1>5

\* The gateways: nothing is published, taken or received.
LEMMA GatewayStep ==
    ASSUME RealtimeInv, NEW s \in Sockets, Gateway(s)
    PROVE  RealtimeInv'
<1> USE DEF RealtimeInv
<1>0. /\ socket \in [Sockets -> {"new", "known", "open", "broken", "closed"}]
      /\ subscribed \in [Topics -> SUBSET Sockets]
  BY DEF RealtimeTypeOK
<1>1. UNCHANGED <<channel, published, bridge, event, received, owed, restarts>>
  BY DEF Gateway, Authenticate, Connect, Subscribe, Unsubscribe, ClientVanishes, GatewayEnds
<1>2. /\ socket' \in [Sockets -> {"new", "known", "open", "broken", "closed"}]
      /\ subscribed' \in [Topics -> SUBSET Sockets]
      /\ \A r \in Sockets : /\ socket'[r] \in {"new", "known"} => socket[r] \in {"new", "known"}
                            /\ socket'[r] = "open" => socket[r] \in {"known", "open"}
      /\ \A t \in Topics : \A r \in subscribed'[t] :
            /\ r \in Sockets
            /\ r \in subscribed[t] \/ socket'[r] \notin {"new", "known"}
  <2>1. CASE Authenticate(s)
    BY <1>0, <2>1 DEF Authenticate
  <2>2. CASE Connect(s)
    BY <1>0, <2>2 DEF Connect
  <2>3. CASE ClientVanishes(s)
    BY <1>0, <2>3 DEF ClientVanishes
  <2>4. CASE GatewayEnds(s)
    BY <1>0, <2>4 DEF GatewayEnds, Forgotten
  <2>5. CASE \E t \in Topics : Subscribe(s, t) \/ Unsubscribe(s, t)
    BY <1>0, <2>5 DEF Subscribe, Unsubscribe
  <2> QED
    BY <2>1, <2>2, <2>3, <2>4, <2>5 DEF Gateway
<1>3. RealtimeTypeOK' /\ EventsInOrder'
  BY <1>1, <1>2 DEF RealtimeTypeOK, EventsInOrder
<1>4. EventBeingSent'
  <2>1. event.left \subseteq Sockets
    BY DEF RealtimeTypeOK
  <2> QED
    BY <1>1, <1>2, <2>1 DEF EventBeingSent
<1>5. DebtsPaid'
  <2>1. \A t \in Topics : \A r \in subscribed'[t] : socket'[r] \notin {"new", "known"}
    BY <1>0, <1>2 DEF DebtsPaid
  <2>2. ASSUME NEW r \in Sockets, socket'[r] \in {"new", "known", "open"}
        PROVE  ToSet(received[r]) = owed[r] \ (IF r \in event.left THEN {event.id} ELSE {})
    BY <1>2, <2>2 DEF DebtsPaid
  <2> QED
    BY <1>1, <2>1, <2>2 DEF DebtsPaid
<1> QED
  BY <1>3, <1>4, <1>5

\* An event is published, and kept for the relay if it is there.
LEMMA PublishStep ==
    ASSUME RealtimeInv, NEW t \in Topics, NEW to \in SUBSET Sockets, Publish(t, to)
    PROVE  RealtimeInv'
<1> USE DEF RealtimeInv
<1>1. /\ UNCHANGED <<socket, subscribed, bridge, event, received, owed, restarts>>
      /\ published \in Nat /\ published' = published + 1 /\ published' \in 1..MaxEvents
  BY RealtimeAssumption DEF Publish, RealtimeTypeOK
<1> DEFINE e == [id |-> published + 1, topic |-> t, to |-> to]
<1>2. e \in EventRows /\ e.id = published + 1
  BY <1>1 DEF EventRows
<1>3. channel' = channel \/ channel' = Append(channel, e)
  BY DEF Publish
<1> HIDE DEF e
<1>4. channel \in Seq(EventRows)
  BY DEF EventsInOrder
<1>5. /\ channel' \in Seq(EventRows)
      /\ \A i \in 1..Len(channel') :
            \/ i \in 1..Len(channel) /\ channel'[i] = channel[i]
            \/ i = Len(channel) + 1 /\ channel'[i].id = published + 1
      /\ Len(channel) \in Nat
  BY <1>2, <1>3, <1>4
<1>6. \A i \in 1..Len(channel) : channel[i].id \in Nat
  BY EventNumbers
<1>8. \A s \in Sockets : \A k \in 1..Len(received[s]) : received[s][k] \in Nat
  BY EventNumbers
<1>9. event.id \in Nat
  BY EventNumbers
<1>10. RealtimeTypeOK'
  <2>1. \A i \in 1..Len(channel') : channel'[i] \in EventRows
    BY <1>5, ElementOfSeq
  <2>2. published' \in 0..MaxEvents
    BY <1>1
  <2> QED
    BY <1>1, <2>1, <2>2 DEF RealtimeTypeOK, EventRows
<1>11. EventsInOrder'
  <2>1. \A i \in 1..Len(channel') : channel'[i].id <= published'
    BY <1>1, <1>5, <1>6 DEF EventsInOrder
  <2>2. \A i, j \in 1..Len(channel') : i < j => channel'[i].id < channel'[j].id
    <3> SUFFICES ASSUME NEW i \in 1..Len(channel'), NEW j \in 1..Len(channel'), i < j
                 PROVE  channel'[i].id < channel'[j].id
      OBVIOUS
    <3>1. i \in 1..Len(channel) /\ channel'[i] = channel[i]
      BY <1>3, <1>4, <1>2
    <3>2. channel[i].id \in Nat /\ channel[i].id <= published
      BY <1>6, <3>1 DEF EventsInOrder
    <3>3. CASE j \in 1..Len(channel) /\ channel'[j] = channel[j]
      BY <3>1, <3>3 DEF EventsInOrder
    <3>4. CASE channel'[j].id = published + 1
      BY <1>1, <3>1, <3>2, <3>4
    <3> QED
      BY <1>5, <3>3, <3>4
  <2>3. \A s \in Sockets : \A k \in 1..Len(received[s]) :
          /\ received[s][k] <= published'
          /\ \A i \in 1..Len(channel') : received[s][k] < channel'[i].id
    <3> SUFFICES ASSUME NEW s \in Sockets, NEW k \in 1..Len(received[s])
                 PROVE  /\ received[s][k] <= published'
                        /\ \A i \in 1..Len(channel') : received[s][k] < channel'[i].id
      OBVIOUS
    <3>1. /\ received[s][k] \in Nat /\ received[s][k] <= published
          /\ \A i \in 1..Len(channel) : received[s][k] < channel[i].id
      BY <1>8 DEF EventsInOrder
    <3>2. received[s][k] < published + 1 /\ received[s][k] <= published'
      BY <1>1, <3>1
    <3>3. ASSUME NEW i \in 1..Len(channel') PROVE received[s][k] < channel'[i].id
      <4>1. CASE i \in 1..Len(channel) /\ channel'[i] = channel[i]
        BY <3>1, <4>1
      <4>2. CASE channel'[i].id = published + 1
        BY <3>2, <4>2
      <4> QED
        BY <1>5, <4>1, <4>2
    <3> QED
      BY <3>2, <3>3
  <2> QED
    BY <1>1, <1>5, <2>1, <2>2, <2>3 DEF EventsInOrder
<1>12. EventBeingSent'
  <2>1. event.id <= published' /\ \A i \in 1..Len(channel') : event.id < channel'[i].id
    BY <1>1, <1>5, <1>6, <1>9 DEF EventBeingSent
  <2> QED
    BY <1>1, <2>1 DEF EventBeingSent
<1>13. DebtsPaid'
  BY <1>1 DEF DebtsPaid
<1> QED
  BY <1>10, <1>11, <1>12, <1>13

\* The relay takes the oldest event, which its targets are owed from then on.
LEMMA TakeStep ==
    ASSUME RealtimeInv, Take
    PROVE  RealtimeInv'
<1> USE DEF RealtimeInv
<1>1. PICK e : e = Head(channel)
  OBVIOUS
<1>2. /\ channel \in Seq(EventRows) /\ channel # <<>> /\ channel' = Tail(channel)
      /\ bridge = "listening" /\ bridge' = "sending"
      /\ UNCHANGED <<socket, subscribed, published, received, restarts>>
  BY DEF EventsInOrder, Take
<1>3. /\ Len(channel) \in Nat /\ Len(channel) > 0 /\ e = channel[1] /\ e \in EventRows /\ channel' \in Seq(EventRows)
      /\ Len(channel') = Len(channel) - 1
      /\ \A i \in 1..Len(channel') : channel'[i] = channel[i + 1] /\ i + 1 \in 1..Len(channel)
  BY <1>1, <1>2
<1> DEFINE targets == {s \in subscribed[e.topic] : e.to = {} \/ s \in e.to}
<1>4. /\ event' = [id |-> e.id, left |-> targets, failed |-> {}]
      /\ owed' = [s \in Sockets |-> IF s \in targets THEN owed[s] \cup {e.id} ELSE owed[s]]
  BY <1>1 DEF Take, Recipients
<1>5. /\ e.topic \in Topics /\ e.id \in 1..MaxEvents /\ subscribed[e.topic] \subseteq Sockets
  BY <1>3 DEF EventRows, RealtimeTypeOK
<1>6. targets \subseteq Sockets /\ \A s \in targets : socket[s] \notin {"new", "known"}
  BY <1>5 DEF DebtsPaid
<1> HIDE DEF targets
<1>7. event'.id = e.id /\ event'.left = targets
  BY <1>4
<1>8. owed \in [Sockets -> SUBSET (1..MaxEvents)] /\ owed' \in [Sockets -> SUBSET (1..MaxEvents)]
  BY <1>4, <1>5 DEF RealtimeTypeOK
<1>9. RealtimeTypeOK'
  <2>1. event' \in [id : 0..MaxEvents, left : SUBSET Sockets, failed : SUBSET Sockets]
    BY <1>4, <1>5, <1>6
  <2>2. \A i \in 1..Len(channel') : channel'[i] \in EventRows
    BY <1>3
  <2> QED
    BY <1>2, <1>8, <2>1, <2>2 DEF RealtimeTypeOK, EventRows
<1>10. EventsInOrder'
  <2>1. \A i \in 1..Len(channel') : channel'[i].id <= published
    BY <1>3 DEF EventsInOrder
  <2>2. ASSUME NEW i \in 1..Len(channel'), NEW j \in 1..Len(channel'), i < j
        PROVE  channel'[i].id < channel'[j].id
    <3>1. /\ i + 1 \in 1..Len(channel) /\ j + 1 \in 1..Len(channel) /\ i + 1 < j + 1
          /\ channel'[i] = channel[i + 1] /\ channel'[j] = channel[j + 1]
      BY <1>3, <2>2
    <3> QED
      BY <3>1 DEF EventsInOrder
  <2>3. \A s \in Sockets : \A k \in 1..Len(received[s]) :
           received[s][k] <= published /\ \A i \in 1..Len(channel') : received[s][k] < channel'[i].id
    BY <1>3 DEF EventsInOrder
  <2>4. \A s \in Sockets : \A k, m \in 1..Len(received[s]) : k < m => received[s][k] < received[s][m]
    BY DEF EventsInOrder
  <2> QED
    BY <1>2, <1>3, <2>1, <2>2, <2>3, <2>4 DEF EventsInOrder
<1>11. \A s \in Sockets : \A k \in 1..Len(received[s]) : received[s][k] < e.id
  BY <1>3 DEF EventsInOrder
<1>12. EventBeingSent'
  <2>1. /\ e.id <= published
        /\ \A i \in 1..Len(channel') : e.id < channel'[i].id
    <3>1. e.id <= published
      BY <1>3 DEF EventsInOrder
    <3>2. ASSUME NEW i \in 1..Len(channel')
          PROVE  e.id < channel'[i].id
      <4>1. /\ 1 \in 1..Len(channel) /\ i + 1 \in 1..Len(channel) /\ 1 < i + 1
            /\ channel'[i] = channel[i + 1]
        BY <1>3
      <4> QED
        BY <1>3, <4>1 DEF EventsInOrder
    <3> QED
      BY <3>1, <3>2
  <2>2. \A s \in targets : e.id \in owed'[s]
    BY <1>4, <1>6, <1>8
  <2> QED
    BY <1>2, <1>6, <1>7, <1>11, <2>1, <2>2 DEF EventBeingSent
<1>13. DebtsPaid'
  <2>1. ASSUME NEW s \in Sockets, socket[s] \in {"new", "known", "open"}
        PROVE  ToSet(received[s]) = owed'[s] \ (IF s \in targets THEN {e.id} ELSE {})
    <3>1. ToSet(received[s]) = owed[s]
      BY <1>2, <2>1 DEF DebtsPaid, EventBeingSent
    <3>2. received[s] \in Seq(1..MaxEvents)
      BY DEF RealtimeTypeOK
    <3>3. e.id \notin ToSet(received[s])
      BY <1>5, <1>11, <3>2 DEF ToSet
    <3> QED
      BY <1>4, <3>1, <3>3
  <2> QED
    BY <1>2, <1>7, <2>1 DEF DebtsPaid
<1> QED
  BY <1>9, <1>10, <1>12, <1>13

\* The event reaches a client, which was owed it.
LEMMA SendStep ==
    ASSUME RealtimeInv, NEW s \in Sockets, Send(s)
    PROVE  RealtimeInv'
<1> USE DEF RealtimeInv
<1>1. /\ bridge = "sending" /\ s \in event.left /\ socket[s] = "open"
      /\ received' = [received EXCEPT ![s] = Append(received[s], event.id)]
      /\ event' = [event EXCEPT !.left = event.left \ {s}]
      /\ UNCHANGED <<socket, subscribed, channel, published, bridge, owed, restarts>>
  BY DEF Send
<1>2. /\ event \in [id : 0..MaxEvents, left : SUBSET Sockets, failed : SUBSET Sockets]
      /\ received \in [Sockets -> Seq(1..MaxEvents)] /\ owed \in [Sockets -> SUBSET (1..MaxEvents)]
      /\ published \in Nat
  BY RealtimeAssumption DEF RealtimeTypeOK
<1>3. event.id \in owed[s] /\ event.id \in 1..MaxEvents
  BY <1>1, <1>2 DEF EventBeingSent
<1>4. /\ event' \in [id : 0..MaxEvents, left : SUBSET Sockets, failed : SUBSET Sockets]
      /\ event'.id = event.id /\ event'.left = event.left \ {s}
  BY <1>1, <1>2
<1> DEFINE mine == Append(received[s], event.id)
<1>5. /\ mine \in Seq(1..MaxEvents) /\ Len(mine) = Len(received[s]) + 1 /\ Len(received[s]) \in Nat
      /\ \A k \in 1..Len(received[s]) : mine[k] = received[s][k] /\ received[s][k] \in 1..MaxEvents
      /\ mine[Len(received[s]) + 1] = event.id
  BY <1>2, <1>3, EventNumbers
<1>6. ToSet(mine) = ToSet(received[s]) \cup {event.id}
  <2>1. ToSet(mine) = {mine[k] : k \in 1..Len(received[s]) + 1}
    BY <1>5 DEF ToSet
  <2>2. ToSet(received[s]) = {received[s][k] : k \in 1..Len(received[s])}
    BY EventNumbers DEF ToSet
  <2>3. 1..Len(received[s]) + 1 = 1..Len(received[s]) \cup {Len(received[s]) + 1}
    BY <1>5
  <2> HIDE DEF mine
  <2> QED
    BY <1>5, <2>1, <2>2, <2>3
<1> HIDE DEF mine
<1>7. /\ received' \in [Sockets -> Seq(1..MaxEvents)] /\ received'[s] = mine
      /\ \A r \in Sockets : r # s => received'[r] = received[r]
  BY <1>1, <1>2, <1>5 DEF mine
<1>8. RealtimeTypeOK'
  BY <1>1, <1>4, <1>7 DEF RealtimeTypeOK
<1>9. EventsInOrder'
  <2>1. \A k \in 1..Len(mine) :
          /\ mine[k] <= published
          /\ \A i \in 1..Len(channel) : mine[k] < channel[i].id
    <3>1. \A k \in 1..Len(mine) : \/ k \in 1..Len(received[s]) /\ mine[k] = received[s][k]
                                 \/ mine[k] = event.id
      BY <1>5
    <3> QED
      BY <3>1 DEF EventsInOrder, EventBeingSent
  <2>2. \A k, m \in 1..Len(mine) : k < m => mine[k] < mine[m]
    <3>1. \A k, m \in 1..Len(mine) : k < m =>
             /\ k \in 1..Len(received[s]) /\ mine[k] = received[s][k]
             /\ \/ m \in 1..Len(received[s]) /\ mine[m] = received[s][m]
                \/ mine[m] = event.id
      BY <1>5
    <3> QED
      BY <1>1, <3>1 DEF EventsInOrder, EventBeingSent
  <2>3. ASSUME NEW r \in Sockets
        PROVE  /\ \A k \in 1..Len(received'[r]) :
                    /\ received'[r][k] <= published
                    /\ \A i \in 1..Len(channel) : received'[r][k] < channel[i].id
               /\ \A k, m \in 1..Len(received'[r]) : k < m => received'[r][k] < received'[r][m]
    BY <1>7, <2>1, <2>2 DEF EventsInOrder
  <2> QED
    BY <1>1, <2>3 DEF EventsInOrder
<1>10. EventBeingSent'
  BY <1>1, <1>2, <1>4, <1>7 DEF EventBeingSent
<1>11. DebtsPaid'
  <2>1. ASSUME NEW r \in Sockets, socket[r] \in {"new", "known", "open"}
        PROVE  ToSet(received'[r]) = owed[r] \ (IF r \in event'.left THEN {event'.id} ELSE {})
    <3>1. CASE r = s
      <4>1. ToSet(received[s]) = owed[s] \ {event.id}
        BY <1>1 DEF DebtsPaid
      <4> QED
        BY <1>3, <1>4, <1>6, <1>7, <3>1, <4>1
    <3>2. CASE r # s
      BY <1>4, <1>7, <2>1, <3>2 DEF DebtsPaid
    <3> QED
      BY <3>1, <3>2
  <2> QED
    BY <1>1, <2>1 DEF DebtsPaid
<1> QED
  BY <1>8, <1>9, <1>10, <1>11

\* The relay without its targets: it starts, fails to send, drops, goes back to listening or dies.
LEMMA RelayStep ==
    ASSUME RealtimeInv,
           \/ StartRelay \/ TuneIn \/ Listen \/ BridgeDies
           \/ \E s \in Sockets : SendFails(s) \/ Drop(s)
    PROVE  RealtimeInv'
<1> USE DEF RealtimeInv
<1>0. /\ event \in [id : 0..MaxEvents, left : SUBSET Sockets, failed : SUBSET Sockets]
      /\ subscribed \in [Topics -> SUBSET Sockets] /\ published \in Nat
  BY RealtimeAssumption DEF RealtimeTypeOK
<1>1. CASE StartRelay \/ TuneIn
  <2>1. UNCHANGED <<socket, subscribed, channel, published, event, received, owed, restarts>>
    BY <1>1 DEF StartRelay, TuneIn
  <2>2. bridge # "sending" /\ bridge' \in {"started", "listening", "dead"}
    BY <1>1 DEF StartRelay, TuneIn
  <2> QED
    BY <2>1, <2>2 DEF RealtimeTypeOK, EventsInOrder, EventBeingSent, DebtsPaid
<1>2. CASE Listen
  <2>1. /\ UNCHANGED <<socket, subscribed, channel, published, received, owed, restarts>>
        /\ event.left = {} /\ bridge' = "listening" /\ event' = NoEvent
    BY <1>2 DEF Listen
  <2>2. /\ event'.left = {} /\ event'.id = 0
        /\ event' \in [id : 0..MaxEvents, left : SUBSET Sockets, failed : SUBSET Sockets]
    BY <2>1, RealtimeAssumption DEF NoEvent
  <2>3. \A i \in 1..Len(channel) : 0 < channel[i].id
    BY EventNumbers
  <2> QED
    BY <1>0, <2>1, <2>2, <2>3 DEF RealtimeTypeOK, EventsInOrder, EventBeingSent, DebtsPaid
<1>3. CASE BridgeDies
  <2>1. /\ UNCHANGED <<socket, subscribed, published, event, received, owed, restarts>>
        /\ bridge # "sending" /\ bridge' = "dead" /\ channel' = <<>>
    BY <1>3 DEF BridgeDies
  <2>2. channel' \in Seq(EventRows) /\ Len(channel') = 0
    BY <2>1
  <2> QED
    BY <2>1, <2>2 DEF RealtimeTypeOK, EventsInOrder, EventBeingSent, DebtsPaid
<1>4. ASSUME NEW s \in Sockets, SendFails(s) PROVE RealtimeInv'
  <2>1. /\ s \in event.left /\ socket[s] # "open"
        /\ event' = [event EXCEPT !.left = event.left \ {s}, !.failed = event.failed \cup {s}]
        /\ UNCHANGED <<socket, subscribed, channel, published, bridge, received, owed, restarts>>
    BY <1>4 DEF SendFails
  <2>2. /\ event' \in [id : 0..MaxEvents, left : SUBSET Sockets, failed : SUBSET Sockets]
        /\ event'.left = event.left \ {s} /\ event'.id = event.id
    BY <1>0, <2>1
  <2>3. DebtsPaid'
    <3>1. socket[s] \notin {"new", "known", "open"}
      BY <2>1 DEF EventBeingSent
    <3>2. ASSUME NEW r \in Sockets, socket[r] \in {"new", "known", "open"}
          PROVE  ToSet(received[r]) = owed[r] \ (IF r \in event'.left THEN {event'.id} ELSE {})
      <4>1. r # s
        BY <3>1, <3>2
      <4> QED
        BY <2>2, <3>2, <4>1 DEF DebtsPaid
    <3> QED
      BY <2>1, <3>2 DEF DebtsPaid
  <2> QED
    BY <2>1, <2>2, <2>3 DEF RealtimeTypeOK, EventsInOrder, EventBeingSent
<1>5. ASSUME NEW s \in Sockets, Drop(s) PROVE RealtimeInv'
  <2>1. /\ subscribed' = Forgotten(s) /\ event' = [event EXCEPT !.failed = event.failed \ {s}]
        /\ UNCHANGED <<socket, channel, published, bridge, received, owed, restarts>>
    BY <1>5 DEF Drop
  <2>2. /\ event' \in [id : 0..MaxEvents, left : SUBSET Sockets, failed : SUBSET Sockets]
        /\ event'.left = event.left /\ event'.id = event.id
    BY <1>0, <2>1
  <2>3. /\ subscribed' \in [Topics -> SUBSET Sockets]
        /\ \A t \in Topics : subscribed'[t] \subseteq subscribed[t]
    BY <1>0, <2>1 DEF Forgotten
  <2> QED
    BY <2>1, <2>2, <2>3 DEF RealtimeTypeOK, EventsInOrder, EventBeingSent, DebtsPaid
<1> QED
  BY <1>1, <1>2, <1>3, <1>4, <1>5

\* After a restart everybody is new and owed what they have.
LEMMA RestartStep ==
    ASSUME RealtimeInv, ServerRestarts
    PROVE  RealtimeInv'
<1> USE DEF RealtimeInv
<1>1. /\ socket' = [s \in Sockets |-> "new"] /\ subscribed' = [t \in Topics |-> {}]
      /\ owed' = [s \in Sockets |-> ToSet(received[s])]
      /\ bridge' = "starting" /\ event' = NoEvent /\ channel' = <<>>
      /\ UNCHANGED <<published, received>> /\ restarts' \in 0..Restarts
  BY RealtimeAssumption DEF ServerRestarts, StopRelay, LeaveRedis, RealtimeTypeOK
<1>2. /\ event'.left = {} /\ event'.id = 0
      /\ event' \in [id : 0..MaxEvents, left : SUBSET Sockets, failed : SUBSET Sockets]
  BY <1>1, RealtimeAssumption DEF NoEvent
<1>3. channel' \in Seq(EventRows) /\ Len(channel') = 0
  BY <1>1
<1>4. owed' \in [Sockets -> SUBSET (1..MaxEvents)]
  <2>1. \A s \in Sockets : ToSet(received[s]) \subseteq 1..MaxEvents
    BY EventNumbers DEF ToSet
  <2> QED
    BY <1>1, <2>1
<1>5. published \in Nat
  BY RealtimeAssumption DEF RealtimeTypeOK
<1>6. RealtimeTypeOK'
  BY <1>1, <1>2, <1>3, <1>4 DEF RealtimeTypeOK
<1>7. EventsInOrder' /\ EventBeingSent'
  BY <1>1, <1>2, <1>3, <1>5 DEF EventsInOrder, EventBeingSent
<1>8. DebtsPaid'
  BY <1>1, <1>2 DEF DebtsPaid
<1> QED
  BY <1>6, <1>7, <1>8

LEMMA RealtimeInvStep == RealtimeInv /\ [RealtimeNext]_realtimeVars => RealtimeInv'
<1> SUFFICES ASSUME RealtimeInv, [RealtimeNext]_realtimeVars PROVE RealtimeInv'
  OBVIOUS
<1>1. CASE \/ \E s \in Sockets : PublishNotification(s)
           \/ PublishJobUpdate
  BY <1>1, PublishStep DEF PublishNotification, PublishJobUpdate, Topics
<1>2. CASE Relay
  BY <1>2, RelayStep, TakeStep, SendStep, RestartStep DEF Relay
<1>3. CASE UNCHANGED realtimeVars
  BY <1>3 DEF realtimeVars, RealtimeInv, RealtimeTypeOK, EventsInOrder, EventBeingSent, DebtsPaid
<1> QED
  BY <1>1, <1>2, <1>3, GatewayStep DEF RealtimeNext

LEMMA RealtimeInvInit == RealtimeInit => RealtimeInv
<1> SUFFICES ASSUME RealtimeInit PROVE RealtimeInv
  OBVIOUS
<1> USE DEF RealtimeInit
<1>1. /\ event.left = {} /\ event.id = 0
      /\ event \in [id : 0..MaxEvents, left : SUBSET Sockets, failed : SUBSET Sockets]
  BY RealtimeAssumption DEF NoEvent
<1>2. channel \in Seq(EventRows) /\ Len(channel) = 0
  OBVIOUS
<1>3. /\ received \in [Sockets -> Seq(1..MaxEvents)] /\ owed \in [Sockets -> SUBSET (1..MaxEvents)]
      /\ \A s \in Sockets : Len(received[s]) = 0 /\ received[s] = <<>> /\ owed[s] = {}
  OBVIOUS
<1>4. RealtimeTypeOK
  BY <1>1, <1>2, <1>3, RealtimeAssumption DEF RealtimeTypeOK
<1>5. EventsInOrder /\ EventBeingSent
  BY <1>1, <1>2, <1>3 DEF EventsInOrder, EventBeingSent
<1>6. ToSet(<<>>) = {}
  BY DEF ToSet
<1>7. DebtsPaid
  BY <1>1, <1>3, <1>6 DEF DebtsPaid
<1> QED
  BY <1>4, <1>5, <1>7 DEF RealtimeInv

\* For every number of clients, events and restarts: a client still there has received, once and
\* in order, what it was owed, whatever happened to the others.
THEOREM EventsDoArrive == RealtimeSpec => []EventsArrive
<1>1. RealtimeInv => EventsArrive
  <2> SUFFICES ASSUME RealtimeInv PROVE EventsArrive
    OBVIOUS
  <2>1. \A s \in Sockets : DOMAIN received[s] = 1..Len(received[s])
    BY DEF RealtimeInv, RealtimeTypeOK
  <2> QED
    BY <2>1 DEF RealtimeInv, EventsInOrder, DebtsPaid, EventsArrive
<1> QED
  BY <1>1, RealtimeInvInit, RealtimeInvStep, PTL DEF RealtimeSpec

-----------------------------------------------------------------------------
(***************************************************************************)
(* Jurisdictions. The rows above one are the values of a recursive         *)
(* function of the depth; that a move keeps the forest free of circles,    *)
(* and that a walk down meets exactly the rows below, is shown by the      *)
(* least depth at which it would fail.                                     *)
(***************************************************************************)

LEMMA LeastNumber ==
    ASSUME NEW T \in SUBSET Nat, T # {}
    PROVE  \E x \in T : \A y \in T : x <= y
<1>1. IsWellFoundedOn(OpToRel(<, Nat), Nat)  BY NatLessThanWellFounded
<1>2. PICK x \in T : \A y \in T : <<y, x>> \notin OpToRel(<, Nat)
  <2> HIDE DEF OpToRel
  <2> QED  BY <1>1, WFMin
<1>3. \A y \in T : ~(y < x)  BY <1>2 DEF OpToRel
<1> QED  BY <1>3

\* The values of a recursion over depths: they exist, and there is one way for them to be.
Unrolled(f, A, G, k) == f[0] = A /\ \A d \in 1..k : f[d] = G[f[d - 1]]

LEMMA RecursionExists ==
    ASSUME NEW U, NEW A \in SUBSET U, NEW G \in [SUBSET U -> SUBSET U], NEW K \in Nat
    PROVE  \E f \in [0..K -> SUBSET U] : Unrolled(f, A, G, K)
<1> DEFINE T == {k \in Nat : ~ \E f \in [0..k -> SUBSET U] : Unrolled(f, A, G, k)}
<1> SUFFICES ASSUME T # {} PROVE FALSE
    OBVIOUS
<1>1. PICK x \in T : \A y \in T : x <= y
  <2>1. T \in SUBSET Nat  OBVIOUS
  <2> HIDE DEF T
  <2> QED  BY <2>1, LeastNumber
<1>2. x # 0
  <2>1. [d \in 0..0 |-> A] \in [0..0 -> SUBSET U] /\ Unrolled([d \in 0..0 |-> A], A, G, 0)
      BY DEF Unrolled
  <2> QED  BY <2>1
<1>3. x \in Nat /\ x - 1 \in Nat /\ x - 1 \notin T
    BY <1>1, <1>2
<1>4. PICK f \in [0..(x - 1) -> SUBSET U] : Unrolled(f, A, G, x - 1)
    BY <1>3
<1> DEFINE g == [d \in 0..x |-> IF d = x THEN G[f[x - 1]] ELSE f[d]]
<1>5. g \in [0..x -> SUBSET U]
    BY <1>3, <1>4
<1>6. g[0] = A
    BY <1>2, <1>3, <1>4 DEF Unrolled
<1>7. ASSUME NEW d \in 1..x PROVE g[d] = G[g[d - 1]]
  <2>1. CASE d = x  BY <1>3, <1>4, <2>1
  <2>2. CASE d # x
    <3>1. d \in 1..(x - 1) /\ d - 1 \in 0..(x - 1) /\ d - 1 \in 0..x /\ d - 1 # x
        BY <1>3, <2>2
    <3>2. g[d] = f[d] /\ g[d - 1] = f[d - 1]  BY <1>3, <2>2, <3>1
    <3> QED  BY <1>4, <3>1, <3>2 DEF Unrolled
  <2> QED  BY <2>1, <2>2
<1>8. Unrolled(g, A, G, x)
  <2> HIDE DEF g
  <2> QED  BY <1>6, <1>7 DEF Unrolled
<1> QED
  <2> HIDE DEF g
  <2> QED  BY <1>1, <1>5, <1>8

\* A recursion that only adds to a set of n elements has nothing left to add after n steps.
LEMMA RecursionSaturates ==
    ASSUME NEW A \in SUBSET Nodes, A # {}, NEW G \in [SUBSET Nodes -> SUBSET Nodes],
           \A S \in SUBSET Nodes : S \subseteq G[S],
           NEW K \in Nat, K = Cardinality(Nodes),
           NEW f \in [0..K -> SUBSET Nodes], Unrolled(f, A, G, K)
    PROVE  G[f[K]] = f[K]
<1>0. K = Cardinality(Nodes)
    OBVIOUS
<1>a. f \in [0..K -> SUBSET Nodes] /\ f[0] = A /\ \A d \in 1..K : f[d] = G[f[d - 1]]
    BY DEF Unrolled
<1> SUFFICES ASSUME G[f[K]] # f[K] PROVE FALSE
    BY <1>0
<1>1. ASSUME NEW d \in 0..K, G[f[d]] = f[d] PROVE FALSE
  <2> DEFINE T == {k \in Nat : k \in d..K /\ f[k] # f[d]}
  <2>1. K \in T  BY <1>1
  <2>2. PICK x \in T : \A y \in T : x <= y
    <3>1. T \in SUBSET Nat /\ T # {}  BY <2>1
    <3> HIDE DEF T
    <3> QED  BY <3>1, LeastNumber
  <2>3. x \in 1..K /\ x # d /\ x - 1 \in d..K /\ x - 1 \in Nat  BY <2>2
  <2>4. f[x - 1] = f[d]  BY <2>2, <2>3
  <2>5. f[x] = G[f[x - 1]]  BY <1>a, <2>3
  <2> QED  BY <1>1, <2>2, <2>4, <2>5
<1>2. \A d \in 0..K : IsFiniteSet(f[d]) /\ Cardinality(f[d]) \in Nat
  <2>1. ASSUME NEW d \in 0..K PROVE IsFiniteSet(f[d]) /\ Cardinality(f[d]) \in Nat
    <3>1. f[d] \in SUBSET Nodes  BY <1>a
    <3> QED  BY <3>1, JurisdictionAssumption, FS_Subset, FS_CardinalityType
  <2> QED  BY <2>1
<1>3. \A d \in 0..K : Cardinality(f[d]) >= d + 1
  <2> DEFINE T == {d \in Nat : d \in 0..K /\ ~(Cardinality(f[d]) >= d + 1)}
  <2> SUFFICES ASSUME T # {} PROVE FALSE
      OBVIOUS
  <2>1. PICK x \in T : \A y \in T : x <= y
    <3>1. T \in SUBSET Nat  OBVIOUS
    <3> HIDE DEF T
    <3> QED  BY <3>1, LeastNumber
  <2>2. CASE x = 0
    <3>1. Cardinality(f[0]) # 0  BY <1>0, <1>2, <1>a, FS_EmptySet
    <3> QED  BY <1>2, <2>1, <2>2, <3>1
  <2>3. CASE x # 0
    <3>1. x \in 1..K /\ x - 1 \in 0..K /\ x - 1 \notin T  BY <2>1, <2>3
    <3>2. Cardinality(f[x - 1]) >= x  BY <3>1
    <3>3. f[x - 1] \in SUBSET Nodes /\ f[x] = G[f[x - 1]]  BY <1>a, <3>1
    <3>4. f[x - 1] \subseteq f[x] /\ f[x - 1] # f[x]  BY <1>1, <3>1, <3>3
    <3>5. Cardinality(f[x - 1]) < Cardinality(f[x])
      <4>1. Cardinality(f[x - 1]) <= Cardinality(f[x]) /\ Cardinality(f[x - 1]) # Cardinality(f[x])
          BY <1>2, <3>1, <3>4, JurisdictionAssumption, FS_Subset
      <4> QED  BY <1>2, <3>1, <4>1
    <3> QED  BY <1>2, <2>1, <3>1, <3>2, <3>5
  <2> QED  BY <2>2, <2>3
<1>4. Cardinality(f[K]) <= Cardinality(Nodes)
  <2>1. K \in 0..K  OBVIOUS
  <2>2. f[K] \in SUBSET Nodes  BY <1>a, <2>1
  <2> QED  BY <2>2, JurisdictionAssumption, FS_Subset
<1> QED  BY <1>0, <1>2, <1>3, <1>4

-----------------------------------------------------------------------------
\* The way up from a row, in a forest with the parents P.
Up(P, n) ==
    LET up[depth \in 0..Cardinality(Nodes)] ==
            IF depth = 0 THEN {n} \ {Root}
            ELSE up[depth - 1] \cup ({P[m] : m \in up[depth - 1]} \ {Root})
    IN up[Cardinality(Nodes)]

ClosedUpward(P, C) == C \subseteq Nodes /\ \A m \in C : P[m] = Root \/ P[m] \in C

Circleless(E, P) == \A n \in E : P[n] = Root \/ n \notin Up(P, P[n])

LEMMA UpUnrolled ==
    ASSUME NEW P \in [Nodes -> Nodes \cup {Root}], NEW n \in Nodes \cup {Root},
           NEW G, G = [S \in SUBSET Nodes |-> S \cup ({P[m] : m \in S} \ {Root})]
    PROVE  /\ G \in [SUBSET Nodes -> SUBSET Nodes]
           /\ \E f \in [0..Cardinality(Nodes) -> SUBSET Nodes] :
                 Unrolled(f, {n} \ {Root}, G, Cardinality(Nodes)) /\ Up(P, n) = f[Cardinality(Nodes)]
<1> DEFINE K == Cardinality(Nodes)
<1>0. K \in Nat
    BY JurisdictionAssumption, FS_CardinalityType
<1>1. G \in [SUBSET Nodes -> SUBSET Nodes]
  <2>1. \A S \in SUBSET Nodes : S \cup ({P[m] : m \in S} \ {Root}) \in SUBSET Nodes
      OBVIOUS
  <2> QED  BY <2>1
<1> DEFINE A == {n} \ {Root}
           Good(g) == g = [depth \in 0..K |->
                             IF depth = 0 THEN A
                             ELSE g[depth - 1] \cup ({P[m] : m \in g[depth - 1]} \ {Root})]
<1>2. A \in SUBSET Nodes
    OBVIOUS
<1> HIDE DEF K
<1>3. PICK f \in [0..K -> SUBSET Nodes] : Unrolled(f, A, G, K)
    BY <1>0, <1>1, <1>2, RecursionExists
<1>4. Good(f)
  <2>1. f[0] = A /\ \A d \in 1..K : f[d] = G[f[d - 1]]  BY <1>3 DEF Unrolled
  <2>2. ASSUME NEW d \in 1..K
        PROVE  f[d] = f[d - 1] \cup ({P[m] : m \in f[d - 1]} \ {Root})
    <3>1. d - 1 \in 0..K  BY <1>0
    <3>2. f[d - 1] \in SUBSET Nodes  BY <1>3, <3>1
    <3> QED  BY <2>1, <3>2
  <2> HIDE DEF A
  <2> QED  BY <1>3, <2>1, <2>2
<1>5. PICK up : Good(up) /\ Up(P, n) = up[K]
  <2>1. f = [depth \in 0..Cardinality(Nodes) |->
               IF depth = 0 THEN {n} \ {Root}
               ELSE f[depth - 1] \cup ({P[m] : m \in f[depth - 1]} \ {Root})]
      BY <1>4 DEF K
  <2>2. PICK g : /\ g = [depth \in 0..Cardinality(Nodes) |->
                          IF depth = 0 THEN {n} \ {Root}
                          ELSE g[depth - 1] \cup ({P[m] : m \in g[depth - 1]} \ {Root})]
                 /\ Up(P, n) = g[Cardinality(Nodes)]
      BY <2>1 DEF Up
  <2>3. Good(g)  BY <2>2 DEF K
  <2>4. Up(P, n) = g[K]  BY <2>2 DEF K
  <2> HIDE DEF Good
  <2> QED  BY <2>3, <2>4
<1>6. up \in [0..K -> SUBSET Nodes] /\ Unrolled(up, A, G, K)
  <2>1. up[0] = A /\ \A d \in 1..K : up[d] = up[d - 1] \cup ({P[m] : m \in up[d - 1]} \ {Root})
    <3>1. up[0] = A  BY <1>0, <1>5
    <3>2. ASSUME NEW d \in 1..K
          PROVE  up[d] = up[d - 1] \cup ({P[m] : m \in up[d - 1]} \ {Root})
      <4>1. d \in 0..K /\ d # 0  BY <1>0
      <4> QED  BY <1>5, <4>1
    <3> QED  BY <3>1, <3>2
  <2> DEFINE T == {d \in Nat : d \in 0..K /\ up[d] # f[d]}
  <2>2. T = {}
    <3> SUFFICES ASSUME T # {} PROVE FALSE
        OBVIOUS
    <3>1. PICK x \in T : \A y \in T : x <= y
      <4>1. T \in SUBSET Nat  OBVIOUS
      <4> HIDE DEF T
      <4> QED  BY <4>1, LeastNumber
    <3>2. x # 0  BY <1>0, <1>3, <2>1, <3>1 DEF Unrolled
    <3>3. x \in 1..K /\ x - 1 \in 0..K /\ x - 1 \notin T  BY <1>0, <3>1, <3>2
    <3>4. up[x - 1] = f[x - 1]  BY <3>3
    <3>5. f[x] = f[x - 1] \cup ({P[m] : m \in f[x - 1]} \ {Root})
        BY <1>4, <3>3
    <3>6. up[x] = f[x]  BY <2>1, <3>3, <3>4, <3>5
    <3> QED  BY <3>1, <3>6
  <2>3. \A d \in 0..K : up[d] = f[d]  BY <2>2
  <2>4. up = f  BY <1>3, <1>5, <2>3
  <2> QED  BY <1>3, <2>4
<1> QED  BY <1>1, <1>5, <1>6 DEF K

\* It is the least set that holds n and is closed upwards.
LEMMA UpIsLeast ==
    ASSUME NEW P \in [Nodes -> Nodes \cup {Root}], NEW n \in Nodes
    PROVE  /\ n \in Up(P, n) /\ ClosedUpward(P, Up(P, n))
           /\ \A C : ClosedUpward(P, C) /\ n \in C => Up(P, n) \subseteq C
<1>0. PICK K \in Nat : K = Cardinality(Nodes)
    BY JurisdictionAssumption, FS_CardinalityType
<1>1. PICK G : G = [S \in SUBSET Nodes |-> S \cup ({P[m] : m \in S} \ {Root})]
    OBVIOUS
<1>2. G \in [SUBSET Nodes -> SUBSET Nodes]
    BY <1>1, UpUnrolled
<1>3. PICK f \in [0..K -> SUBSET Nodes] : Unrolled(f, {n} \ {Root}, G, K) /\ Up(P, n) = f[K]
    BY <1>0, <1>1, UpUnrolled
<1>4. f[0] = {n} /\ \A d \in 1..K : f[d] = G[f[d - 1]]
    BY <1>3, JurisdictionAssumption DEF Unrolled
<1>5. \A S \in SUBSET Nodes : S \subseteq G[S]
    BY <1>1
<1>6. G[f[K]] = f[K]
  <2>1. IsFiniteSet(Nodes) /\ {n} \ {Root} \in SUBSET Nodes /\ {n} \ {Root} # {}
      BY JurisdictionAssumption
  <2>2. PICK A \in SUBSET Nodes : A = {n} \ {Root} /\ A # {}
      BY <2>1
  <2>3. Unrolled(f, A, G, K)  BY <1>3, <2>2
  <2> QED  BY <1>0, <1>2, <1>5, <2>1, <2>2, <2>3, RecursionSaturates
<1>a. K \in 0..K  OBVIOUS
<1>7. f[K] \in SUBSET Nodes  BY <1>3, <1>a
<1>8. ClosedUpward(P, f[K])
    BY <1>1, <1>6, <1>7 DEF ClosedUpward
<1>9. n \in f[K]
  <2> DEFINE T == {d \in Nat : d \in 0..K /\ n \notin f[d]}
  <2>1. T = {}
    <3> SUFFICES ASSUME T # {} PROVE FALSE
        OBVIOUS
    <3>1. PICK x \in T : \A y \in T : x <= y
      <4>1. T \in SUBSET Nat  OBVIOUS
      <4> HIDE DEF T
      <4> QED  BY <4>1, LeastNumber
    <3>2. x # 0  BY <1>4, <3>1
    <3>3. x \in 1..K /\ x - 1 \in 0..K /\ x - 1 \notin T  BY <3>1, <3>2
    <3>4. n \in f[x - 1] /\ f[x - 1] \in SUBSET Nodes /\ f[x] = G[f[x - 1]]
        BY <1>3, <1>4, <3>3
    <3> QED  BY <1>5, <3>1, <3>4
  <2> QED  BY <1>a, <2>1
<1>10. ASSUME NEW C, ClosedUpward(P, C), n \in C
       PROVE  f[K] \subseteq C
  <2> DEFINE T == {d \in Nat : d \in 0..K /\ ~(f[d] \subseteq C)}
  <2>1. T = {}
    <3> SUFFICES ASSUME T # {} PROVE FALSE
        OBVIOUS
    <3>1. PICK x \in T : \A y \in T : x <= y
      <4>1. T \in SUBSET Nat  OBVIOUS
      <4> HIDE DEF T
      <4> QED  BY <4>1, LeastNumber
    <3>2. x # 0  BY <1>4, <1>10, <3>1
    <3>3. x \in 1..K /\ x - 1 \in 0..K /\ x - 1 \notin T  BY <3>1, <3>2
    <3>4. f[x - 1] \subseteq C /\ f[x - 1] \in SUBSET Nodes /\ f[x] = G[f[x - 1]]
        BY <1>3, <1>4, <3>3
    <3>5. f[x] = f[x - 1] \cup ({P[m] : m \in f[x - 1]} \ {Root})
        BY <1>1, <3>4
    <3>6. f[x] \subseteq C  BY <1>10, <3>4, <3>5 DEF ClosedUpward
    <3> QED  BY <3>1, <3>6
  <2> QED  BY <1>a, <2>1
<1> QED  BY <1>3, <1>8, <1>9, <1>10

\* A move to a row that is not below the moved one closes no circle.
LEMMA MoveKeepsForest ==
    ASSUME NEW E \in SUBSET Nodes, NEW P \in [Nodes -> E \cup {Root}], Circleless(E, P),
           NEW n \in E, NEW under \in E \cup {Root}, under = Root \/ n \notin Up(P, under),
           NEW Q, Q = [P EXCEPT ![n] = under]
    PROVE  Circleless(E, Q)
<1>0. /\ Root \notin E /\ P \in [Nodes -> Nodes \cup {Root}] /\ Q \in [Nodes -> Nodes \cup {Root}]
      /\ Q[n] = under /\ \A m \in Nodes : m # n => Q[m] = P[m]
    BY JurisdictionAssumption
<1>1. ASSUME NEW m \in E, Q[m] # Root
      PROVE  \E C : ClosedUpward(Q, C) /\ Q[m] \in C /\ m \notin C
  <2>1. CASE m = n
    <3>1. under \in Nodes /\ under # Root  BY <1>0, <1>1, <2>1
    <3>2. under \in Up(P, under) /\ ClosedUpward(P, Up(P, under)) /\ n \notin Up(P, under)
        BY <1>0, <3>1, UpIsLeast
    <3>3. ClosedUpward(Q, Up(P, under))  BY <1>0, <3>2 DEF ClosedUpward
    <3> QED  BY <1>0, <2>1, <3>2, <3>3
  <2>2. CASE m # n
    <3>1. P[m] = Q[m] /\ P[m] \in Nodes /\ P[m] # Root  BY <1>0, <1>1, <2>2
    <3>2. PICK C : C = Up(P, P[m]) /\ P[m] \in C /\ ClosedUpward(P, C) /\ m \notin C
        BY <1>0, <1>1, <3>1, UpIsLeast DEF Circleless
    <3>3. CASE n \notin C \/ under = Root
      <4>1. ClosedUpward(Q, C)  BY <1>0, <3>2, <3>3 DEF ClosedUpward
      <4> QED  BY <3>1, <3>2, <4>1
    <3>4. CASE n \in C /\ under # Root
      <4>1. under \in Nodes  BY <3>4
      <4>2. PICK D : D = Up(P, under) /\ under \in D /\ ClosedUpward(P, D) /\ n \notin D
          BY <1>0, <3>4, <4>1, UpIsLeast
      <4>3. m \notin D
        <5>1. SUFFICES ASSUME m \in D PROVE FALSE
            OBVIOUS
        <5>2. P[m] \in D  BY <3>1, <4>2, <5>1 DEF ClosedUpward
        <5>3. C \subseteq D  BY <1>0, <3>1, <3>2, <4>2, <5>2, UpIsLeast
        <5> QED  BY <3>4, <4>2, <5>3
      <4>4. ClosedUpward(Q, C \cup D)  BY <1>0, <3>2, <4>2 DEF ClosedUpward
      <4> QED  BY <3>1, <3>2, <4>3, <4>4
    <3> QED  BY <3>3, <3>4
  <2> QED  BY <2>1, <2>2
<1>2. ASSUME NEW m \in E, Q[m] # Root
      PROVE  m \notin Up(Q, Q[m])
  <2>1. PICK u \in Nodes : u = Q[m]  BY <1>0, <1>2
  <2>2. PICK C : ClosedUpward(Q, C) /\ u \in C /\ m \notin C  BY <1>1, <1>2, <2>1
  <2>3. Up(Q, u) \subseteq C  BY <1>0, <2>2, UpIsLeast
  <2> QED  BY <2>1, <2>2, <2>3
<1> QED  BY <1>2 DEF Circleless

\* Nor does a new row, and it changes nobody's way up.
LEMMA NewRowKeepsForest ==
    ASSUME NEW E \in SUBSET Nodes, NEW P \in [Nodes -> E \cup {Root}], Circleless(E, P),
           NEW n \in Nodes \ E, NEW under \in E \cup {Root},
           NEW Q, Q = [P EXCEPT ![n] = under]
    PROVE  /\ Circleless(E \cup {n}, Q)
           /\ \A u \in E, m \in E : m \notin Up(P, u) => m \notin Up(Q, u)
<1>0. /\ Root \notin E /\ P \in [Nodes -> Nodes \cup {Root}] /\ Q \in [Nodes -> Nodes \cup {Root}]
      /\ Q[n] = under /\ \A m \in Nodes : m # n => Q[m] = P[m]
    BY JurisdictionAssumption
<1>1. ASSUME NEW u \in E, NEW m \in E, m \notin Up(P, u)
      PROVE  m \notin Up(Q, u)
  <2>1. PICK C : C = Up(P, u) \cap E
      OBVIOUS
  <2>2. u \in C /\ m \notin C /\ ClosedUpward(P, Up(P, u))
      BY <1>0, <1>1, <2>1, UpIsLeast
  <2>3. ClosedUpward(Q, C)
    <3>1. ASSUME NEW k \in C PROVE Q[k] = Root \/ Q[k] \in C
      <4>1. k \in E /\ k # n /\ k \in Up(P, u) /\ Q[k] = P[k]  BY <1>0, <2>1, <3>1
      <4>2. P[k] = Root \/ P[k] \in Up(P, u)  BY <2>2, <4>1 DEF ClosedUpward
      <4>3. P[k] \in E \cup {Root}  BY <4>1
      <4> QED  BY <2>1, <4>1, <4>2, <4>3
    <3> QED  BY <2>1, <3>1 DEF ClosedUpward
  <2> QED  BY <1>0, <2>2, <2>3, UpIsLeast
<1>2. ASSUME NEW m \in E \cup {n}, Q[m] # Root
      PROVE  m \notin Up(Q, Q[m])
  <2>1. CASE m = n
    <3>1. under \in E /\ Q[m] = under  BY <1>0, <1>2, <2>1
    <3>2. ClosedUpward(Q, E)  BY <1>0 DEF ClosedUpward
    <3> QED  BY <1>0, <2>1, <3>1, <3>2, UpIsLeast
  <2>2. CASE m # n
    <3>1. m \in E /\ Q[m] = P[m] /\ P[m] \in E  BY <1>0, <1>2, <2>2
    <3>2. m \notin Up(P, P[m])  BY <1>0, <3>1 DEF Circleless
    <3> QED  BY <1>1, <3>1, <3>2
  <2> QED  BY <2>1, <2>2
<1> QED  BY <1>1, <1>2 DEF Circleless

-----------------------------------------------------------------------------
\* The way down, among the rows E; it stays among them.
Descent(E, P, S) ==
    LET down[depth \in 0..Cardinality(Nodes)] ==
            IF depth = 0 THEN S
            ELSE down[depth - 1] \cup {n \in E : P[n] \in down[depth - 1]}
    IN down[Cardinality(Nodes)]

LEMMA DownIsAmong ==
    ASSUME NEW E \in SUBSET Nodes, NEW P, NEW S \in SUBSET E
    PROVE  Descent(E, P, S) \subseteq E
<1> DEFINE K == Cardinality(Nodes)
           G == [T \in SUBSET E |-> T \cup {n \in E : P[n] \in T}]
<1>0. K \in Nat
    BY JurisdictionAssumption, FS_CardinalityType
<1>1. G \in [SUBSET E -> SUBSET E]
  <2>1. \A T \in SUBSET E : T \cup {n \in E : P[n] \in T} \in SUBSET E
      OBVIOUS
  <2> QED  BY <2>1
<1> HIDE DEF K
<1>2. PICK f \in [0..K -> SUBSET E] : Unrolled(f, S, G, K)
  <2> HIDE DEF G
  <2> QED  BY <1>0, <1>1, RecursionExists
<1>3. f = [depth \in 0..K |->
             IF depth = 0 THEN S
             ELSE f[depth - 1] \cup {n \in E : P[n] \in f[depth - 1]}]
  <2>1. f[0] = S  BY <1>2 DEF Unrolled
  <2>2. ASSUME NEW d \in 1..K
        PROVE  f[d] = f[d - 1] \cup {n \in E : P[n] \in f[d - 1]}
    <3>1. d - 1 \in 0..K  BY <1>0
    <3>2. f[d - 1] \in SUBSET E  BY <1>2, <3>1
    <3>3. f[d] = G[f[d - 1]]
      <4> HIDE DEF G
      <4> QED  BY <1>2 DEF Unrolled
    <3> QED  BY <3>2, <3>3
  <2> HIDE DEF G
  <2> QED  BY <1>0, <1>2, <2>1, <2>2
<1>4. PICK g : /\ g = [depth \in 0..K |->
                         IF depth = 0 THEN S
                         ELSE g[depth - 1] \cup {n \in E : P[n] \in g[depth - 1]}]
               /\ Descent(E, P, S) = g[K]
    BY <1>3 DEF Descent, K
<1>5. g[0] = S
    BY <1>0, <1>4
<1>6. ASSUME NEW d \in 1..K PROVE g[d] = g[d - 1] \cup {n \in E : P[n] \in g[d - 1]}
  <2>1. d \in 0..K /\ d # 0  BY <1>0
  <2> QED  BY <1>4, <2>1
<1> DEFINE T == {d \in Nat : d \in 0..K /\ ~(g[d] \subseteq E)}
<1>7. T = {}
  <2> SUFFICES ASSUME T # {} PROVE FALSE
      OBVIOUS
  <2>1. PICK x \in T : \A y \in T : x <= y
    <3>1. T \in SUBSET Nat  OBVIOUS
    <3> HIDE DEF T
    <3> QED  BY <3>1, LeastNumber
  <2>2. x # 0  BY <1>5, <2>1
  <2>3. x \in 1..K /\ x - 1 \in 0..K /\ x - 1 \notin T  BY <1>0, <2>1, <2>2
  <2>4. g[x - 1] \subseteq E  BY <2>3
  <2>5. g[x] \subseteq E  BY <1>6, <2>3, <2>4
  <2> QED  BY <2>1, <2>5
<1>8. K \in Nat /\ K \in 0..K  BY <1>0
<1>9. g[K] \subseteq E  BY <1>7, <1>8
<1> QED  BY <1>4, <1>9

-----------------------------------------------------------------------------
(* The inductive invariant.                                                *)

EditRows == [stage : Stages, node : Nodes \cup {Root}, under : Nodes \cup {Root},
             ids : SUBSET Nodes, archive : BOOLEAN]

ForestTypes ==
    /\ exists \in SUBSET Nodes /\ archived \in SUBSET exists
    /\ parent \in [Nodes -> exists \cup {Root}]
    /\ edit \in [Editors -> EditRows]
    /\ outdated \in SUBSET Editors /\ raced \in BOOLEAN

\* A request is about rows.
AboutRows(x) ==
    /\ x.node \in exists \cup {Root} /\ x.under \in exists \cup {Root} /\ x.ids \subseteq exists
    /\ x.stage \in {"checked", "walked", "committed"} => x.node \in exists

\* The walk of a move that is about to commit is still right.
StillAbove(x) == x.stage = "walked" => x.under = Root \/ x.node \notin Up(parent, x.under)

\* A request that no other has overtaken still has the subtree it read.
StillSubtree(e, x) ==
    x.stage = "apply" /\ x.node # Root /\ e \notin outdated => x.ids = Descent(exists, parent, {x.node})

OneWalker == \A e, f \in Editors : edit[e].stage = "walked" /\ edit[f].stage = "walked" => e = f

ForestInv ==
    /\ ForestTypes
    /\ \A e \in Editors : AboutRows(edit[e]) /\ StillSubtree(e, edit[e])
    /\ ~raced => OneWalker /\ Circleless(exists, parent) /\ \A e \in Editors : StillAbove(edit[e])

\* One request goes on as y; the rows keep their parents.
LEMMA EditorMoves ==
    ASSUME ForestInv, NEW e \in Editors, NEW y \in EditRows, edit' = [edit EXCEPT ![e] = y],
           UNCHANGED <<exists, parent>>, archived' \in SUBSET exists,
           outdated' \in SUBSET Editors, outdated \ {e} \subseteq outdated',
           raced' \in BOOLEAN, raced => raced',
           AboutRows(y), StillAbove(y),
           y.stage = "walked" /\ ~raced' => \A f \in Editors : f # e => edit[f].stage # "walked",
           y.stage = "apply" /\ y.node # Root => y.ids = Descent(exists, parent, {y.node})
    PROVE  ForestInv'
<1>0. ForestTypes /\ edit \in [Editors -> EditRows]
    BY DEF ForestInv, ForestTypes
<1>1. edit'[e] = y /\ \A f \in Editors : f # e => edit'[f] = edit[f]
    BY <1>0
<1>2. ForestTypes'
    BY <1>0 DEF ForestTypes
<1>3. \A f \in Editors : AboutRows(edit[f])'
    BY <1>1 DEF ForestInv, AboutRows
<1>4. ASSUME NEW f \in Editors PROVE StillSubtree(f, edit[f])'
  <2>1. CASE f = e  BY <1>1, <2>1 DEF StillSubtree
  <2>2. CASE f # e  BY <1>1, <2>2 DEF ForestInv, StillSubtree
  <2> QED  BY <2>1, <2>2
<1>5. ASSUME ~raced'
      PROVE  OneWalker' /\ Circleless(exists, parent)' /\ \A f \in Editors : StillAbove(edit[f])'
  <2>0. OneWalker /\ Circleless(exists, parent) /\ \A f \in Editors : StillAbove(edit[f])
      BY <1>5 DEF ForestInv
  <2>1. OneWalker'
    <3>1. ASSUME NEW f \in Editors, NEW g \in Editors,
                 edit'[f].stage = "walked", edit'[g].stage = "walked"
          PROVE  f = g
        BY <1>1, <1>5, <2>0, <3>1 DEF OneWalker
    <3> QED  BY <3>1 DEF OneWalker
  <2>2. Circleless(exists, parent)'  BY <2>0 DEF Circleless
  <2>3. \A f \in Editors : StillAbove(edit[f])'
      BY <1>1, <2>0 DEF StillAbove
  <2> QED  BY <2>1, <2>2, <2>3
<1> QED  BY <1>2, <1>3, <1>4, <1>5 DEF ForestInv

LEMMA NoEditTyped ==
    /\ NoEdit \in EditRows /\ NoEdit.stage = "none" /\ NoEdit.node = Root /\ NoEdit.under = Root
    /\ NoEdit.ids = {}
BY DEF NoEdit, EditRows, Stages

\* What a request begins with, and goes on with.
LEMMA StageTyped ==
    ASSUME NEW x \in EditRows, NEW stage \in Stages
    PROVE  \E y \in EditRows :
              /\ y = [x EXCEPT !.stage = stage]
              /\ y.stage = stage /\ y.node = x.node /\ y.under = x.under /\ y.ids = x.ids
<1>1. [x EXCEPT !.stage = stage] \in EditRows
    BY DEF EditRows
<1> QED  BY <1>1 DEF EditRows

-----------------------------------------------------------------------------
(* One lemma for each request.                                             *)

LEMMA Unpack ==
    ASSUME ForestInv
    PROVE  /\ exists \in SUBSET Nodes /\ archived \in SUBSET exists
           /\ parent \in [Nodes -> exists \cup {Root}] /\ parent \in [Nodes -> Nodes \cup {Root}]
           /\ edit \in [Editors -> EditRows]
           /\ outdated \in SUBSET Editors /\ raced \in BOOLEAN
BY DEF ForestInv, ForestTypes

\* The functions of the model are those of this module.
LEMMA UpDown ==
    /\ \A n : Ancestors(n) = Up(parent, n)
    /\ \A S : Descendants(S) = Descent(exists, parent, S)
<1>1. \A n : Ancestors(n) = Up(parent, n)
    BY DEF Ancestors, Up
<1>2. \A S : Descendants(S) = Descent(exists, parent, S)
    BY DEF Descendants, Children, Descent
<1> QED  BY <1>1, <1>2

-----------------------------------------------------------------------------
\* The inductive invariant, action by action.
LEMMA CreateJurisdictionHolds ==
    ASSUME ForestInv, NEW n \in Nodes, NEW under \in Nodes \cup {Root}, CreateJurisdiction(n, under)
    PROVE  ForestInv'
<1>0. /\ n \in Nodes \ exists /\ under \in exists \cup {Root} /\ exists' = exists \cup {n}
      /\ parent' = [parent EXCEPT ![n] = under]
      /\ outdated' = {f \in Editors : edit[f].stage = "apply"} \cup outdated
      /\ UNCHANGED <<archived, edit, raced>>
    BY DEF CreateJurisdiction
<1>1. /\ exists \in SUBSET Nodes /\ archived \in SUBSET exists
      /\ parent \in [Nodes -> exists \cup {Root}] /\ edit \in [Editors -> EditRows]
      /\ outdated \in SUBSET Editors /\ raced \in BOOLEAN
    BY Unpack
<1>2. ForestTypes'
  <2>1. parent' \in [Nodes -> exists' \cup {Root}]  BY <1>0, <1>1
  <2> QED  BY <1>0, <1>1, <2>1 DEF ForestTypes
<1>3. \A e \in Editors : AboutRows(edit[e])'
    BY <1>0 DEF ForestInv, AboutRows
<1>4. \A e \in Editors : StillSubtree(e, edit[e])'
    BY <1>0 DEF StillSubtree
<1>5. ASSUME ~raced
      PROVE  OneWalker' /\ Circleless(exists, parent)' /\ \A e \in Editors : StillAbove(edit[e])'
  <2>0. OneWalker /\ Circleless(exists, parent) /\ \A e \in Editors : StillAbove(edit[e])
      BY <1>5 DEF ForestInv
  <2>1. OneWalker'  BY <1>0, <2>0 DEF OneWalker
  <2>2. PICK P : P = parent'  OBVIOUS
  <2>3. /\ Circleless(exists \cup {n}, P)
        /\ \A u \in exists, m \in exists : m \notin Up(parent, u) => m \notin Up(P, u)
      BY <1>0, <1>1, <2>0, <2>2, NewRowKeepsForest
  <2>4. Circleless(exists, parent)'  BY <1>0, <2>2, <2>3 DEF Circleless
  <2>5. \A e \in Editors : StillAbove(edit[e])'
    <3>1. ASSUME NEW e \in Editors, edit[e].stage = "walked", edit[e].under # Root
          PROVE  edit[e].node \notin Up(P, edit[e].under)
      <4>1. edit[e].node \in exists /\ edit[e].under \in exists
          BY <3>1 DEF ForestInv, AboutRows
      <4>2. edit[e].node \notin Up(parent, edit[e].under)
          BY <2>0, <3>1 DEF StillAbove
      <4> QED  BY <2>3, <4>1, <4>2
    <3> QED  BY <1>0, <2>2, <3>1 DEF StillAbove
  <2> QED  BY <2>1, <2>4, <2>5
<1> QED  BY <1>0, <1>2, <1>3, <1>4, <1>5 DEF ForestInv

LEMMA CommitMoveHolds ==
    ASSUME ForestInv, NEW e \in Editors, CommitMove(e)
    PROVE  ForestInv'
<1>1. /\ exists \in SUBSET Nodes /\ archived \in SUBSET exists
      /\ parent \in [Nodes -> exists \cup {Root}] /\ edit \in [Editors -> EditRows]
      /\ outdated \in SUBSET Editors /\ raced \in BOOLEAN
    BY Unpack
<1>2. PICK x \in EditRows : x = edit[e]
    BY <1>1
<1>3. PICK y \in EditRows : /\ y = [x EXCEPT !.stage = "committed"]
                         /\ y.stage = "committed" /\ y.node = x.node /\ y.under = x.under
                         /\ y.ids = x.ids
    BY StageTyped DEF Stages
<1>4. /\ x.stage = "walked" /\ edit' = [edit EXCEPT ![e] = y]
      /\ parent' = [parent EXCEPT ![x.node] = x.under]
      /\ outdated' = {f \in Editors \ {e} : edit[f].stage = "apply"} \cup (outdated \ {e})
      /\ UNCHANGED <<exists, archived, raced>>
    BY <1>1, <1>2, <1>3 DEF CommitMove, Stage, Commits
<1>5. AboutRows(x) /\ x.node \in exists /\ x.under \in exists \cup {Root}
    BY <1>2, <1>4 DEF ForestInv, AboutRows
<1>6. edit'[e] = y /\ \A f \in Editors : f # e => edit'[f] = edit[f]
    BY <1>1, <1>4
<1>7. ForestTypes'
  <2>1. parent' \in [Nodes -> exists' \cup {Root}]  BY <1>1, <1>4, <1>5
  <2>2. edit' \in [Editors -> EditRows]  BY <1>1, <1>4
  <2> QED  BY <1>1, <1>4, <2>1, <2>2 DEF ForestTypes
<1>8. \A f \in Editors : AboutRows(edit[f])'
    BY <1>3, <1>4, <1>5, <1>6 DEF ForestInv, AboutRows
<1>9. \A f \in Editors : StillSubtree(f, edit[f])'
    BY <1>3, <1>4, <1>6 DEF StillSubtree
<1>10. ASSUME ~raced
       PROVE  OneWalker' /\ Circleless(exists, parent)' /\ \A f \in Editors : StillAbove(edit[f])'
  <2>0. OneWalker /\ Circleless(exists, parent) /\ StillAbove(x)
      BY <1>2, <1>10 DEF ForestInv
  <2>1. \A f \in Editors : edit'[f].stage # "walked"
      BY <1>2, <1>3, <1>4, <1>6, <2>0 DEF OneWalker
  <2>2. PICK P : P = parent'  OBVIOUS
  <2>3. Circleless(exists, P)
    <3>1. x.under = Root \/ x.node \notin Up(parent, x.under)
        BY <1>4, <2>0 DEF StillAbove
    <3>2. P = [parent EXCEPT ![x.node] = x.under]  BY <1>4, <2>2
    <3> QED  BY <1>1, <1>5, <2>0, <3>1, <3>2, MoveKeepsForest
  <2>4. Circleless(exists, parent)'  BY <1>4, <2>2, <2>3 DEF Circleless
  <2> QED  BY <2>1, <2>4 DEF OneWalker, StillAbove
<1> QED  BY <1>4, <1>7, <1>8, <1>9, <1>10 DEF ForestInv

LEMMA CheckMoveHolds ==
    ASSUME ForestInv, NEW e \in Editors, NEW n \in Nodes, NEW under \in Nodes \cup {Root},
           CheckMove(e, n, under)
    PROVE  ForestInv'
<1>1. PICK z \in EditRows : z = NoEdit /\ z.stage = "none" /\ z.node = Root /\ z.under = Root /\ z.ids = {}
    BY NoEditTyped
<1>2. PICK y \in EditRows : /\ y = [z EXCEPT !.stage = "checked", !.node = n, !.under = under]
                         /\ y.stage = "checked" /\ y.node = n /\ y.under = under /\ y.ids = z.ids
  <2>1. [z EXCEPT !.stage = "checked", !.node = n, !.under = under] \in EditRows
      BY DEF EditRows, Stages
  <2> QED  BY <2>1 DEF EditRows
<1>3. /\ n \in exists /\ under \in exists \cup {Root} /\ edit' = [edit EXCEPT ![e] = y]
      /\ UNCHANGED <<exists, parent, archived, outdated, raced>>
    BY <1>1, <1>2 DEF CheckMove
<1>4. AboutRows(y) /\ StillAbove(y)  BY <1>1, <1>2, <1>3 DEF AboutRows, StillAbove
<1> QED  BY <1>2, <1>3, <1>4, Unpack, EditorMoves

LEMMA WalkUpHolds ==
    ASSUME ForestInv, NEW e \in Editors, WalkUp(e)
    PROVE  ForestInv'
<1>0. edit \in [Editors -> EditRows] /\ raced \in BOOLEAN  BY Unpack
<1>1. PICK x \in EditRows : x = edit[e]  BY <1>0
<1>2. /\ x.stage = "checked" /\ UNCHANGED <<exists, parent, archived, outdated>>
      /\ raced' = (raced \/ \E f \in Editors \ {e} : edit[f].stage = "walked")
    BY <1>1 DEF WalkUp, Stage
<1>3. AboutRows(x)  BY <1>1 DEF ForestInv
<1>4. raced' \in BOOLEAN /\ (raced => raced')  BY <1>0, <1>2
<1>5. CASE NoCircle(x.node, x.under)
  <2>1. PICK y \in EditRows : /\ y = [x EXCEPT !.stage = "walked"]
                           /\ y.stage = "walked" /\ y.node = x.node /\ y.under = x.under
                           /\ y.ids = x.ids
      BY StageTyped DEF Stages
  <2>2. edit' = [edit EXCEPT ![e] = y]
      BY <1>0, <1>1, <1>5, <2>1 DEF WalkUp
  <2>3. AboutRows(y)  BY <1>2, <1>3, <2>1 DEF AboutRows
  <2>4. x.node \notin Up(parent, x.under)  BY <1>5, UpDown DEF NoCircle
  <2>5. StillAbove(y)  BY <2>1, <2>4 DEF StillAbove
  <2>6. ~raced' => \A f \in Editors : f # e => edit[f].stage # "walked"
      BY <1>2
  <2> QED  BY <1>2, <1>4, <2>1, <2>2, <2>3, <2>5, <2>6, Unpack, EditorMoves
<1>6. CASE ~NoCircle(x.node, x.under)
  <2>1. PICK y \in EditRows : /\ y = NoEdit
                           /\ y.stage = "none" /\ y.node = Root /\ y.under = Root /\ y.ids = {}
      BY NoEditTyped
  <2>2. edit' = [edit EXCEPT ![e] = y]
      BY <1>0, <1>1, <1>6, <2>1 DEF WalkUp
  <2>3. AboutRows(y) /\ StillAbove(y)  BY <2>1 DEF AboutRows, StillAbove
  <2> QED  BY <1>2, <1>4, <2>1, <2>2, <2>3, Unpack, EditorMoves
<1> QED  BY <1>5, <1>6

LEMMA RenameHolds ==
    ASSUME ForestInv, NEW e \in Editors, NEW n \in Nodes, Rename(e, n)
    PROVE  ForestInv'
<1>1. PICK z \in EditRows : z = NoEdit /\ z.stage = "none" /\ z.node = Root /\ z.under = Root /\ z.ids = {}
    BY NoEditTyped
<1>2. PICK y \in EditRows : /\ y = [z EXCEPT !.stage = "committed", !.node = n]
                         /\ y.stage = "committed" /\ y.node = n /\ y.under = z.under /\ y.ids = z.ids
  <2>1. [z EXCEPT !.stage = "committed", !.node = n] \in EditRows
      BY DEF EditRows, Stages
  <2> QED  BY <2>1 DEF EditRows
<1>3. /\ n \in exists /\ edit' = [edit EXCEPT ![e] = y]
      /\ UNCHANGED <<exists, parent, archived, outdated, raced>>
    BY <1>1, <1>2 DEF Rename
<1>4. AboutRows(y) /\ StillAbove(y)  BY <1>1, <1>2, <1>3 DEF AboutRows, StillAbove
<1> QED  BY <1>2, <1>3, <1>4, Unpack, EditorMoves

\* A request that has read its subtree.
LEMMA SubtreeRead ==
    ASSUME ForestInv, NEW e \in Editors, NEW n \in exists, NEW y \in EditRows,
           edit' = [edit EXCEPT ![e] = y], Reads(e), UNCHANGED <<exists, parent, archived, raced>>,
           y.stage = "apply", y.node = n, y.under = Root, y.ids = Descent(exists, parent, {n})
    PROVE  ForestInv'
<1>1. exists \in SUBSET Nodes /\ outdated \in SUBSET Editors /\ archived \in SUBSET exists
      /\ raced \in BOOLEAN
    BY Unpack
<1>2. y.ids \subseteq exists  BY <1>1, DownIsAmong
<1>3. AboutRows(y) /\ StillAbove(y)  BY <1>2 DEF AboutRows, StillAbove
<1>4. outdated' \in SUBSET Editors /\ outdated \ {e} \subseteq outdated'  BY <1>1 DEF Reads
<1> QED  BY <1>1, <1>3, <1>4, EditorMoves

LEMMA ReadAgainHolds ==
    ASSUME ForestInv, NEW e \in Editors, ReadAgain(e)
    PROVE  ForestInv'
<1>0. edit \in [Editors -> EditRows] /\ exists \in SUBSET Nodes  BY Unpack
<1>1. PICK z \in EditRows : z = NoEdit /\ z.stage = "none" /\ z.node = Root /\ z.under = Root /\ z.ids = {}
    BY NoEditTyped
<1>2. PICK n \in exists : n = edit[e].node /\ n \in Nodes
    BY <1>0 DEF ReadAgain, Stage, ForestInv, AboutRows
<1>3. PICK ids \in SUBSET Nodes : ids = Subtree(n) /\ ids = Descent(exists, parent, {n})
  <2>1. Subtree(n) = Descent(exists, parent, {n})  BY UpDown DEF Subtree
  <2>2. Descent(exists, parent, {n}) \in SUBSET Nodes  BY <1>0, DownIsAmong
  <2> QED  BY <2>1, <2>2
<1>4. PICK b \in BOOLEAN : b = (n \in archived)
  <2>1. (n \in archived) \in BOOLEAN  OBVIOUS
  <2> QED  BY <2>1, Zenon
<1>5. PICK y \in EditRows :
         /\ y = [z EXCEPT !.stage = "apply", !.ids = ids, !.archive = b, !.node = n]
         /\ y.stage = "apply" /\ y.node = n /\ y.under = z.under /\ y.ids = ids
  <2>1. [z EXCEPT !.stage = "apply", !.ids = ids, !.archive = b, !.node = n] \in EditRows
      BY <1>2 DEF EditRows, Stages
  <2> QED  BY <2>1 DEF EditRows
<1>6. edit' = [edit EXCEPT ![e] = y] /\ Reads(e) /\ UNCHANGED <<exists, parent, archived, raced>>
    BY <1>1, <1>2, <1>3, <1>4, <1>5 DEF ReadAgain
<1> QED  BY <1>1, <1>3, <1>5, <1>6, SubtreeRead

LEMMA ReadSubtreeHolds ==
    ASSUME ForestInv, NEW e \in Editors, NEW n \in Nodes, NEW flag \in BOOLEAN,
           ReadSubtree(e, n, flag)
    PROVE  ForestInv'
<1>0. n \in exists /\ exists \in SUBSET Nodes  BY Unpack DEF ReadSubtree
<1>1. PICK z \in EditRows : z = NoEdit /\ z.stage = "none" /\ z.node = Root /\ z.under = Root /\ z.ids = {}
    BY NoEditTyped
<1>2. PICK ids \in SUBSET Nodes : ids = Subtree(n) /\ ids = Descent(exists, parent, {n})
  <2>1. Subtree(n) = Descent(exists, parent, {n})  BY UpDown DEF Subtree
  <2>2. Descent(exists, parent, {n}) \in SUBSET Nodes  BY <1>0, DownIsAmong
  <2> QED  BY <2>1, <2>2
<1>3. PICK y \in EditRows :
         /\ y = [z EXCEPT !.stage = "apply", !.node = n, !.ids = ids, !.archive = flag]
         /\ y.stage = "apply" /\ y.node = n /\ y.under = z.under /\ y.ids = ids
  <2>1. [z EXCEPT !.stage = "apply", !.node = n, !.ids = ids, !.archive = flag] \in EditRows
      BY DEF EditRows, Stages
  <2> QED  BY <2>1 DEF EditRows
<1>4. edit' = [edit EXCEPT ![e] = y] /\ Reads(e) /\ UNCHANGED <<exists, parent, archived, raced>>
    BY <1>1, <1>2, <1>3 DEF ReadSubtree
<1> QED  BY <1>0, <1>1, <1>2, <1>3, <1>4, SubtreeRead

LEMMA ReadManyHolds ==
    ASSUME ForestInv, NEW e \in Editors, ReadProject(e) \/ ReadArchived(e)
    PROVE  ForestInv'
<1>0. /\ exists \in SUBSET Nodes /\ archived \in SUBSET exists /\ raced \in BOOLEAN
      /\ outdated \in SUBSET Editors
    BY Unpack
<1>1. PICK z \in EditRows : z = NoEdit /\ z.stage = "none" /\ z.node = Root /\ z.under = Root /\ z.ids = {}
    BY NoEditTyped
<1>2. PICK y \in EditRows : /\ edit' = [edit EXCEPT ![e] = y]
                         /\ y.stage = "apply" /\ y.node = Root /\ y.under = Root
                         /\ y.ids \subseteq exists
  <2>1. CASE ReadProject(e)
    <3>1. PICK ids \in SUBSET Nodes : ids = Descendants(ProjectRoots) /\ ids \subseteq exists
      <4>1. ProjectRoots \in SUBSET exists  BY DEF ProjectRoots
      <4>2. Descendants(ProjectRoots) = Descent(exists, parent, ProjectRoots)  BY UpDown
      <4>3. Descent(exists, parent, ProjectRoots) \subseteq exists  BY <1>0, <4>1, DownIsAmong
      <4> QED  BY <1>0, <4>2, <4>3
    <3>2. PICK y \in EditRows :
             /\ y = [z EXCEPT !.stage = "apply", !.ids = ids, !.archive = TRUE]
             /\ y.stage = "apply" /\ y.node = z.node /\ y.under = z.under /\ y.ids = ids
      <4>1. [z EXCEPT !.stage = "apply", !.ids = ids, !.archive = TRUE] \in EditRows
          BY DEF EditRows, Stages
      <4> QED  BY <4>1 DEF EditRows
    <3>3. edit' = [edit EXCEPT ![e] = y]  BY <1>1, <2>1, <3>1, <3>2 DEF ReadProject
    <3> QED  BY <1>1, <3>1, <3>2, <3>3
  <2>2. CASE ReadArchived(e)
    <3>1. PICK ids \in SUBSET Nodes : ids = archived  BY <1>0
    <3>2. PICK y \in EditRows :
             /\ y = [z EXCEPT !.stage = "apply", !.ids = ids]
             /\ y.stage = "apply" /\ y.node = z.node /\ y.under = z.under /\ y.ids = ids
      <4>1. [z EXCEPT !.stage = "apply", !.ids = ids] \in EditRows
          BY DEF EditRows, Stages
      <4> QED  BY <4>1 DEF EditRows
    <3>3. edit' = [edit EXCEPT ![e] = y]  BY <1>1, <2>2, <3>1, <3>2 DEF ReadArchived
    <3> QED  BY <1>0, <1>1, <3>1, <3>2, <3>3
  <2> QED  BY <2>1, <2>2
<1>3. AboutRows(y) /\ StillAbove(y)  BY <1>2 DEF AboutRows, StillAbove
<1>4. Reads(e) /\ UNCHANGED <<exists, parent, archived, raced>>
    BY DEF ReadProject, ReadArchived
<1>5. outdated' \in SUBSET Editors /\ outdated \ {e} \subseteq outdated'  BY <1>0, <1>4 DEF Reads
<1> QED  BY <1>0, <1>2, <1>3, <1>4, <1>5, EditorMoves

\* A request that is over.
LEMMA EditorDone ==
    ASSUME ForestInv, NEW e \in Editors, Apply(e) \/ Abandon(e)
    PROVE  ForestInv'
<1>0. /\ exists \in SUBSET Nodes /\ archived \in SUBSET exists /\ raced \in BOOLEAN
      /\ outdated \in SUBSET Editors
    BY Unpack
<1>1. PICK z \in EditRows : z = NoEdit /\ z.stage = "none" /\ z.node = Root /\ z.under = Root /\ z.ids = {}
    BY NoEditTyped
<1>2. edit' = [edit EXCEPT ![e] = z] /\ UNCHANGED <<exists, parent, raced>>
    BY <1>1 DEF Apply, Abandon
<1>3. archived' \in SUBSET exists
  <2>1. edit[e].ids \subseteq exists  BY DEF ForestInv, AboutRows
  <2> QED  BY <1>0, <2>1 DEF Apply, Abandon
<1>4. outdated' \in SUBSET Editors /\ outdated \ {e} \subseteq outdated'
    BY <1>0 DEF Apply, Abandon, Reads, Commits
<1>5. AboutRows(z) /\ StillAbove(z)  BY <1>1 DEF AboutRows, StillAbove
<1> QED  BY <1>0, <1>1, <1>2, <1>3, <1>4, <1>5, EditorMoves

LEMMA ForestBegins == ForestInit => ForestInv
<1> SUFFICES ASSUME ForestInit PROVE ForestInv
    OBVIOUS
<1>0. /\ exists = {} /\ archived = {} /\ parent = [n \in Nodes |-> Root]
      /\ edit = [e \in Editors |-> NoEdit] /\ outdated = {} /\ raced = FALSE
    BY DEF ForestInit
<1>1. ForestTypes
  <2>1. parent \in [Nodes -> exists \cup {Root}]  BY <1>0
  <2>2. edit \in [Editors -> EditRows]  BY <1>0, NoEditTyped
  <2>3. raced \in BOOLEAN  BY <1>0
  <2> QED  BY <1>0, <2>1, <2>2, <2>3 DEF ForestTypes
<1>2. \A e \in Editors : edit[e] = NoEdit  BY <1>0
<1>3. \A e \in Editors : AboutRows(edit[e]) /\ StillSubtree(e, edit[e])
    BY <1>2, NoEditTyped DEF AboutRows, StillSubtree
<1>4. OneWalker /\ Circleless(exists, parent) /\ \A e \in Editors : StillAbove(edit[e])
    BY <1>0, <1>2, NoEditTyped DEF OneWalker, Circleless, StillAbove
<1> QED  BY <1>1, <1>3, <1>4 DEF ForestInv

\* However requests overlap: the rows are a forest unless two moves raced, and what a request holds
\* of the rows above or below its own is still so unless another request has passed it.
THEOREM ForestInvHolds == ForestSpec => []ForestInv
<1>1. ForestInv /\ [ForestNext]_forestVars => ForestInv'
  <2> SUFFICES ASSUME ForestInv, [ForestNext]_forestVars PROVE ForestInv'
      OBVIOUS
  <2>1. CASE ForestNext
      BY <2>1, CreateJurisdictionHolds, CommitMoveHolds, CheckMoveHolds, WalkUpHolds, RenameHolds,
         ReadAgainHolds, ReadSubtreeHolds, ReadManyHolds, EditorDone
         DEF ForestNext, UpdateJurisdiction, ArchiveOrRestore
  <2>2. CASE UNCHANGED forestVars
      BY <2>2 DEF forestVars, ForestInv, ForestTypes, AboutRows, StillSubtree, OneWalker,
         Circleless, StillAbove
  <2> QED  BY <2>1, <2>2
<1> QED  BY <1>1, ForestBegins, PTL DEF ForestSpec

\* For any number of rows and requests: no row comes to be above itself, in which the recursive
\* queries would not end, but for two moves that both walked up before either committed (update).
THEOREM NoCirclesForm == ForestSpec => []Acyclic
<1>1. ForestInv => Acyclic
    BY UpDown DEF ForestInv, Circleless, Acyclic
<1> QED  BY <1>1, ForestInvHolds, PTL

\* For any number of rows: archiving or restoring a row takes along every row below it and the
\* commit misses none, unless another request committed after the read
\* (soft_delete, restore_jurisdiction_and_children, restore_all_archived_jurisdictions).
THEOREM SubtreesStayTogether == ForestSpec => SubtreeTogether
<1> DEFINE Together ==
        \A e \in Editors :
            Apply(e) /\ e \notin outdated /\ edit[e].node # Root
            => IF edit[e].archive THEN Descendants({edit[e].node}) \subseteq archived'
                                  ELSE Descendants({edit[e].node}) \cap archived' = {}
<1>1. ForestInv => Together
  <2> SUFFICES ASSUME ForestInv, NEW e \in Editors, Apply(e), e \notin outdated, edit[e].node # Root
               PROVE  IF edit[e].archive THEN Descendants({edit[e].node}) \subseteq archived'
                                         ELSE Descendants({edit[e].node}) \cap archived' = {}
      OBVIOUS
  <2>1. edit[e].ids = Descendants({edit[e].node})
      BY UpDown DEF ForestInv, StillSubtree, Apply, Stage
  <2>2. archived' = IF edit[e].archive THEN archived \cup edit[e].ids ELSE archived \ edit[e].ids
      BY DEF Apply
  <2> QED  BY <2>1, <2>2
<1>2. ForestInv /\ [ForestNext]_forestVars => [Together]_forestVars
    BY <1>1
<1> QED  BY <1>2, ForestInvHolds, PTL DEF ForestSpec, SubtreeTogether

-----------------------------------------------------------------------------
(***************************************************************************)
(* Workspace. The parts side by side.                                      *)
(***************************************************************************)

\* A move of Workspace is a move of one part; the others stutter.
LEMMA OnePartMoves ==
    [Next]_<<part, membershipVars, projectVars, forestVars, captureVars, realtimeVars, formVars, planVars>>
    => /\ [MembershipNext]_membershipVars /\ [ProjectsNext]_projectVars /\ [ForestNext]_forestVars
       /\ [CaptureNext]_captureVars /\ [RealtimeNext]_realtimeVars /\ [FormsNext]_formVars
       /\ [PlansNext]_planVars
BY DEF Next, MembersMove, ProjectsMove, JurisdictionsMove, CaptureMoves, EventsMove, FormsMove, PlansMove

\* Side by side, each part still behaves as its own specification says: what is proved of a part
\* (of its routes, services and tasks, see its module) holds of the composition that is run.
THEOREM PartsBehave ==
    Spec => /\ MembershipSpec /\ ProjectsSpec /\ ForestSpec /\ CaptureSpec
            /\ RealtimeSpec /\ FormsSpec /\ PlansSpec
<1>1. Init => /\ MembershipInit /\ ProjectsInit /\ ForestInit /\ CaptureInit
              /\ RealtimeInit /\ FormsInit /\ PlansInit
  BY DEF Init
<1> QED
  BY <1>1, OnePartMoves, PTL
     DEF Spec, MembershipSpec, ProjectsSpec, ForestSpec, CaptureSpec, RealtimeSpec, FormsSpec, PlansSpec

\* The state of every part keeps its types.
THEOREM WorkspaceTypes == Spec => []TypeOK
<1>1. ProjectsInv => ProjectsTypeOK
  BY DEF ProjectsInv, ProjectTypes
<1>2. ForestInv => ForestTypeOK
  BY DEF ForestInv, ForestTypes, ForestTypeOK, EditRows
<1>3. CaptureInv => CaptureTypeOK
  BY DEF CaptureInv, CaptureTypes
<1>4. RealtimeInv => RealtimeTypeOK
  BY DEF RealtimeInv
<1>5. MembershipTypeOK /\ ProjectsTypeOK /\ ForestTypeOK /\ CaptureTypeOK /\ RealtimeTypeOK
      /\ FormsTypeOK /\ PlansTypeOK => TypeOK
  BY DEF TypeOK
<1>6. ProjectsSpec => []ProjectsTypeOK
  BY <1>1, ProjectsInvInit, ProjectsInvStep, PTL DEF ProjectsSpec
<1>7. CaptureSpec => []CaptureTypeOK
  BY <1>3, CaptureInvInit, CaptureInvStep, PTL DEF CaptureSpec
<1>8. RealtimeSpec => []RealtimeTypeOK
  BY <1>4, RealtimeInvInit, RealtimeInvStep, PTL DEF RealtimeSpec
<1>9. ForestSpec => []ForestTypeOK
  BY <1>2, ForestInvHolds, PTL
<1> QED
  BY <1>5, <1>6, <1>7, <1>8, <1>9, PartsBehave, MembershipTypes, FormsTypes, PlansTypes, PTL

\* All that the run checks of Workspace, for every value of the constants: owners, sources, trees,
\* archives, revisions, events, waitlist and plans are as their parts promise.
THEOREM WorkspaceKeepsItsPromises ==
    Spec => /\ []OwnerRemains /\ []DeletedAlone /\ RemovedStaysRemoved
            /\ []SourcesHaveAHome /\ []OneSourcePerUrl /\ []Acyclic /\ SubtreeTogether
            /\ []ArchiveMatchesHash /\ []ChangesAreFound /\ []EventsArrive
            /\ []WaitlistKeepsItsWord /\ []CatalogueOfOneRelease
BY PartsBehave, FounderStays, NobodyLeftBehind, RemovalIsFinal, SourcesAreAtHome, SourcesAreOnePerUrl,
   NoCirclesForm, SubtreesStayTogether, ArchivesMatch, ChangesAreGrounded, EventsDoArrive, WordKept,
   OneRelease, PTL
=============================================================================

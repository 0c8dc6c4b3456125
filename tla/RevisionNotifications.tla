------------------------ MODULE RevisionNotifications ------------------------
(***************************************************************************)
(* The announcement of one revision: send_revision_notifications_task      *)
(* (src/app/api/modules/v1/notifications/service/                          *)
(* revision_notification_task.py), which RevisionPipeline queues once for  *)
(* a revision with a diff, the revision_notifications rows it writes, the  *)
(* users who work on those rows meanwhile (notification_service.py) and    *)
(* the project's membership (projects/services/project_service.py).        *)
(*                                                                         *)
(* An attempt sends all its e-mails inside one transaction and commits at  *)
(* the end; an error after some e-mails went out starts it over.           *)
(***************************************************************************)
EXTENDS Naturals

CONSTANTS
    Users,           \* users of the organization
    MaxRetries,      \* max_retries of the task, 3 in the code
    RealtimeEnabled, \* settings.ENABLE_REALTIME_WEBSOCKETS
    MaxFaults        \* bound on crashes and on database or publisher failures

ASSUME NotificationsAssumption ==
    /\ MaxRetries \in Nat
    /\ RealtimeEnabled \in BOOLEAN
    /\ MaxFaults \in Nat

VARIABLES
    members, \* users in project_users
    row,     \* the revision's committed row of each user: its status, or "none"
    att,     \* the task and what its current attempt holds
    inbox,   \* e-mails each user has got
    pushed,  \* users a realtime event about their row was published for
    meddled, \* ghost: users who have read, edited or deleted their row
    faults   \* faults that have happened

vars == <<members, row, att, inbox, pushed, meddled, faults>>

Status == {"PENDING", "SENT", "FAILED", "READ"}
Rows == [Users -> Status \cup {"none"}]
Over == {"done", "dead"}

\* owed: the members the attempt loaded.  batch: those it mails, with their status as
\* loaded (old) and as the session has it now (new).  todo: the part of the batch the
\* loop it is in has still to visit.
NoRows == [u \in Users |-> "none"]
Idle == [pc |-> "queued", retries |-> 0, owed |-> {}, batch |-> {}, todo |-> {},
         old |-> NoRows, new |-> NoRows]
Attempt == [pc : {"queued", "send", "publish"} \cup Over, retries : 0..MaxRetries,
            owed : SUBSET Users, batch : SUBSET Users, todo : SUBSET Users,
            old : Rows, new : Rows]

TypeOK ==
    /\ members \subseteq Users
    /\ row \in Rows
    /\ att \in Attempt
    /\ att.todo \subseteq att.batch /\ att.batch \subseteq att.owed
    /\ inbox \in [Users -> Nat]
    /\ pushed \subseteq Users
    /\ meddled \subseteq Users
    /\ faults \in 0..MaxFaults

Init ==
    /\ members \in SUBSET Users
    /\ row = NoRows
    /\ att = Idle
    /\ inbox = [u \in Users |-> 0]
    /\ pushed = {}
    /\ meddled = {}
    /\ faults = 0

-----------------------------------------------------------------------------
(* Users.                                                                  *)

\* add_user: check_project_user_exists keeps it to one membership.
AddMember(u) ==
    /\ u \notin members
    /\ members' = members \cup {u}
    /\ UNCHANGED <<row, att, inbox, pushed, meddled, faults>>

RemoveMember(u) ==
    /\ u \in members
    /\ members' = members \ {u}
    /\ UNCHANGED <<row, att, inbox, pushed, meddled, faults>>

SetStatus(u, status) ==
    /\ row[u] # "none"
    /\ row' = [row EXCEPT ![u] = status]
    /\ meddled' = meddled \cup {u}
    /\ UNCHANGED <<members, att, inbox, pushed, faults>>

\* mark_as_read and mark_all_as_read, and update_notification with any status.
MarkRead(u) == SetStatus(u, "READ")
UpdateNotification(u) == \E status \in Status : SetStatus(u, status)

\* delete_notification.
DeleteNotification(u) ==
    /\ row[u] # "none"
    /\ row' = [row EXCEPT ![u] = "none"]
    /\ meddled' = meddled \cup {u}
    /\ UNCHANGED <<members, att, inbox, pushed, faults>>

-----------------------------------------------------------------------------
(* The task.                                                               *)

\* An exception rolls the session back and reaches self.retry: the attempt starts
\* over, or the last one gives up.
TryAgain ==
    att' = IF att.retries < MaxRetries
           THEN [Idle EXCEPT !.retries = att.retries + 1]
           ELSE [Idle EXCEPT !.retries = att.retries, !.pc = "dead"]

\* The members and their rows are read and the missing rows inserted, uncommitted.
\* Only a row that says SENT takes its user out; with nobody left the task is done.
Load ==
    LET batch == {u \in members : row[u] # "SENT"}
        loaded(u) == IF row[u] = "none" THEN "PENDING" ELSE row[u]
    IN  /\ att.pc = "queued"
        /\ att' = IF batch = {} THEN [att EXCEPT !.pc = "done", !.owed = members]
                  ELSE [att EXCEPT
                          !.pc = "send", !.owed = members, !.batch = batch, !.todo = batch,
                          !.old = [u \in Users |-> IF u \in batch THEN row[u] ELSE "none"],
                          !.new = [u \in Users |-> IF u \in batch THEN loaded(u) ELSE "none"]]
        /\ UNCHANGED <<members, row, inbox, pushed, meddled, faults>>

\* Mutant of Email: what send_email answers is not looked at.
EmailUnchecked(u, delivered) ==
    /\ att.pc = "send"
    /\ u \in att.todo
    /\ inbox' = IF delivered THEN [inbox EXCEPT ![u] = @ + 1] ELSE inbox
    /\ att' = [att EXCEPT !.new[u] = "SENT", !.todo = @ \ {u}]
    /\ UNCHANGED <<members, row, pushed, meddled, faults>>

\* Mutant of Email: the loop does not get on.
EmailAgain(u, delivered) ==
    /\ att.pc = "send"
    /\ u \in att.todo
    /\ inbox[u] <= MaxRetries + 1
    /\ inbox' = IF delivered THEN [inbox EXCEPT ![u] = @ + 1] ELSE inbox
    /\ att' = [att EXCEPT !.new[u] = IF delivered THEN "SENT" ELSE "FAILED"]
    /\ UNCHANGED <<members, row, pushed, meddled, faults>>

\* send_email for one user of the batch, and what it answers.
Email(u, delivered) ==
    /\ att.pc = "send"
    /\ u \in att.todo
    /\ inbox' = IF delivered THEN [inbox EXCEPT ![u] = @ + 1] ELSE inbox
    /\ att' = [att EXCEPT !.new[u] = IF delivered THEN "SENT" ELSE "FAILED",
                          !.todo = @ \ {u}]
    /\ UNCHANGED <<members, row, pushed, meddled, faults>>

\* The server takes the e-mail and the connection breaks before it says so.
EmailUnconfirmed(u) ==
    /\ att.pc = "send"
    /\ u \in att.todo
    /\ faults < MaxFaults
    /\ faults' = faults + 1
    /\ inbox' = [inbox EXCEPT ![u] = @ + 1]
    /\ att' = [att EXCEPT !.new[u] = "FAILED", !.todo = @ \ {u}]
    /\ UNCHANGED <<members, row, pushed, meddled>>

\* A row of the batch that existed when it was loaded is gone.
RowVanished == \E u \in att.batch : att.old[u] # "none" /\ row[u] = "none"

\* The session's rows replace those of the batch: a status the session did not change
\* is not written, one it did change replaces whatever the user made of the row.
WriteBatch ==
    row' = [u \in Users |->
               IF u \in att.batch /\ att.new[u] # att.old[u] THEN att.new[u] ELSE row[u]]

\* After the last write: the events, when there is someone to publish them.
GoOn == IF RealtimeEnabled
        THEN [att EXCEPT !.pc = "publish", !.todo = att.batch, !.old = NoRows, !.new = NoRows]
        ELSE [att EXCEPT !.pc = "done", !.old = NoRows, !.new = NoRows]

\* Mutant of Commit: the session is flushed and never committed.
CommitForgotten ==
    /\ att.pc = "send" /\ att.todo = {}
    /\ ~RowVanished
    /\ att' = GoOn
    /\ UNCHANGED <<members, row, inbox, pushed, meddled, faults>>

\* One commit for the whole batch.
Commit ==
    /\ att.pc = "send" /\ att.todo = {}
    /\ ~RowVanished
    /\ WriteBatch
    /\ att' = GoOn
    /\ UNCHANGED <<members, inbox, pushed, meddled, faults>>

\* The UPDATE of a row its user has deleted matches nothing (StaleDataError).
CommitStale ==
    /\ att.pc = "send" /\ att.todo = {}
    /\ RowVanished
    /\ TryAgain
    /\ UNCHANGED <<members, row, inbox, pushed, meddled, faults>>

\* publisher.publish for one notification of the batch; the last ends the task.
Publish(u) ==
    /\ att.pc = "publish"
    /\ u \in att.todo
    /\ pushed' = pushed \cup {u}
    /\ att' = [att EXCEPT !.todo = @ \ {u},
                          !.pc = IF att.todo = {u} THEN "done" ELSE "publish"]
    /\ UNCHANGED <<members, row, inbox, meddled, faults>>

\* The database fails before the commit, or the publisher after it.
AttemptFails ==
    /\ att.pc \notin Over
    /\ faults < MaxFaults
    /\ faults' = faults + 1
    /\ TryAgain
    /\ UNCHANGED <<members, row, inbox, pushed, meddled>>

\* The worker dies; the message was acknowledged when it was taken.
WorkerCrash ==
    /\ att.pc \notin Over
    /\ faults < MaxFaults
    /\ faults' = faults + 1
    /\ att' = [Idle EXCEPT !.retries = att.retries, !.pc = "dead"]
    /\ UNCHANGED <<members, row, inbox, pushed, meddled>>

-----------------------------------------------------------------------------
UserStep ==
    \E u \in Users :
        \/ AddMember(u) \/ RemoveMember(u) \/ DeleteNotification(u)
        \/ MarkRead(u) \/ UpdateNotification(u)

TaskStep ==
    \/ Load
    \/ \E u \in Users : (\E delivered \in BOOLEAN : Email(u, delivered)) \/ EmailUnconfirmed(u)
    \/ Commit \/ CommitStale
    \/ \E u \in Users : Publish(u)

Next == UserStep \/ TaskStep \/ AttemptFails \/ WorkerCrash

Spec == Init /\ [][Next]_vars

\* A worker takes the message and goes on with it.
FairSpec == Spec /\ WF_vars(TaskStep)

-----------------------------------------------------------------------------
(* Properties.                                                             *)

\* However often an attempt fails between its e-mails and its commit, no user gets
\* more than one e-mail for each attempt.
OneEmailPerAttempt == \A u \in Users : inbox[u] <= att.retries + 1

\* A task that comes to its end has dealt with everyone who was a member when its
\* last attempt began, those served by an earlier attempt included: the row says
\* FAILED, or it says SENT and an e-mail did go out.
NoMemberForgotten ==
    att.pc = "done" =>
        \A u \in att.owed \ meddled :
            row[u] = "FAILED" \/ (row[u] = "SENT" /\ inbox[u] > 0)

\* "After database commits, notification and scrape job services emit domain events"
\* (README.md:233): an event tells of a committed row.
EventsAfterCommit == \A u \in pushed \ meddled : row[u] \in {"SENT", "FAILED"}

\* The task comes to an end, whatever users do to the rows it works on.
TaskEnds == <>(att.pc \in Over)

\* "Send emails with retry logic" (revision_notification_task.py:156): an e-mail that
\* failed is not left at that while there are retries.
FailedEmailIsRetried ==
    att.pc = "done" /\ att.retries < MaxRetries =>
        \A u \in att.owed \ meddled : row[u] # "FAILED"
=============================================================================

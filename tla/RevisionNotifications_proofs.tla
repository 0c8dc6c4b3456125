--------------------- MODULE RevisionNotifications_proofs ---------------------
(***************************************************************************)
(* Proofs about RevisionNotifications, for any set of users, any limit of  *)
(* retries and any number of faults.  MailInv counts the e-mails of the    *)
(* attempts that are over and of the one in progress; RowInv relates the   *)
(* rows, what the attempt's session holds of them and the e-mails.         *)
(***************************************************************************)
EXTENDS RevisionNotifications, TLAPS

\* The attempt in progress has had its turn with u.
Mailed(u) == att.pc # "queued" /\ ~(att.pc = "send" /\ u \in att.todo)

MailInv == \A u \in Users : inbox[u] <= att.retries + (IF Mailed(u) THEN 1 ELSE 0)

\* A row nobody meddled with says SENT only after an e-mail, and an event about it was
\* published only if it says SENT or FAILED.
RowsAreTrue ==
    \A u \in Users \ meddled :
        /\ row[u] = "SENT" => inbox[u] > 0
        /\ u \in pushed => row[u] \in {"SENT", "FAILED"}

\* What the session holds while it sends: members outside the batch have a SENT row,
\* the rows of the batch are as they were loaded unless a user meddled, and those the
\* loop has visited say what became of the e-mail.
SessionIsTrue ==
    att.pc = "send" =>
        /\ \A u \in att.owed \ (att.batch \cup meddled) : row[u] = "SENT"
        /\ \A u \in att.batch \ meddled : row[u] = att.old[u]
        /\ \A u \in att.batch \ att.todo : att.new[u] \in {"SENT", "FAILED"}
        /\ \A u \in att.batch : att.new[u] = "SENT" => inbox[u] > 0

\* After the commit.
AllServed ==
    att.pc \in {"publish", "done"} =>
        \A u \in att.owed \ meddled : row[u] \in {"SENT", "FAILED"}

QueuedIsIdle == att.pc = "queued" => att.batch = {} /\ att.todo = {}

RowInv == RowsAreTrue /\ SessionIsTrue /\ AllServed /\ QueuedIsIdle

-----------------------------------------------------------------------------
LEMMA InitInv == ASSUME Init PROVE TypeOK /\ MailInv /\ RowInv
BY NotificationsAssumption
   DEF Init, TypeOK, Idle, NoRows, Attempt, Rows, Status, Over, MailInv, Mailed, RowInv,
       RowsAreTrue, SessionIsTrue, AllServed, QueuedIsIdle

\* Users touch neither the task nor the inboxes, and a row they touch is meddled with.
LEMMA UserInv ==
    ASSUME TypeOK, MailInv, RowInv, NEW u \in Users,
           \/ AddMember(u) \/ RemoveMember(u) \/ DeleteNotification(u)
           \/ MarkRead(u) \/ UpdateNotification(u)
    PROVE  TypeOK' /\ MailInv' /\ RowInv'
<1>1. CASE AddMember(u) \/ RemoveMember(u)
  BY <1>1 DEF AddMember, RemoveMember, TypeOK, MailInv, Mailed, RowInv, RowsAreTrue,
              SessionIsTrue, AllServed, QueuedIsIdle
<1>2. CASE DeleteNotification(u) \/ MarkRead(u) \/ UpdateNotification(u)
  <2>1. PICK s \in Status \cup {"none"} :
            /\ row' = [row EXCEPT ![u] = s]
            /\ meddled' = meddled \cup {u}
            /\ UNCHANGED <<members, att, inbox, pushed, faults>>
    BY <1>2 DEF DeleteNotification, MarkRead, UpdateNotification, SetStatus, Status
  <2>2. TypeOK'
    BY <2>1 DEF TypeOK, Rows
  <2>3. MailInv'
    BY <2>1 DEF MailInv, Mailed
  <2>4. \A m \in Users \ meddled' : m \notin meddled /\ row'[m] = row[m]
    BY <2>1 DEF TypeOK, Rows
  <2>5. att.owed \subseteq Users /\ att.batch \subseteq Users
    BY DEF TypeOK, Attempt
  <2>6. RowInv'
    BY <2>1, <2>4, <2>5 DEF RowInv, RowsAreTrue, SessionIsTrue, AllServed, QueuedIsIdle
  <2> QED
    BY <2>2, <2>3, <2>6
<1> QED
  BY <1>1, <1>2

-----------------------------------------------------------------------------
LEMMA LoadInv == ASSUME TypeOK, MailInv, RowInv, Load PROVE TypeOK' /\ MailInv' /\ RowInv'
<1> DEFINE batch == {u \in members : row[u] # "SENT"}
           loaded(u) == IF row[u] = "none" THEN "PENDING" ELSE row[u]
           next == [att EXCEPT
                      !.pc = "send", !.owed = members, !.batch = batch, !.todo = batch,
                      !.old = [u \in Users |-> IF u \in batch THEN row[u] ELSE "none"],
                      !.new = [u \in Users |-> IF u \in batch THEN loaded(u) ELSE "none"]]
<1>1. /\ att.pc = "queued"
      /\ UNCHANGED <<members, row, inbox, pushed, meddled, faults>>
  BY DEF Load
<1>2. CASE batch = {}
  <2>1. att' = [att EXCEPT !.pc = "done", !.owed = members]
    BY <1>2 DEF Load
  <2>2. TypeOK'
    <3>1. att' \in Attempt
      BY <2>1 DEF TypeOK, Attempt, Over
    <3>2. att'.batch = att.batch /\ att'.todo = att.todo /\ att'.owed = members
      BY <2>1 DEF TypeOK, Attempt
    <3>3. att.batch = {} /\ att.todo = {}
      BY <1>1 DEF RowInv, QueuedIsIdle
    <3> QED
      BY <1>1, <3>1, <3>2, <3>3 DEF TypeOK
  <2>3. MailInv'
    BY <1>1, <2>1 DEF TypeOK, Attempt, MailInv, Mailed
  <2>4. RowInv'
    BY <1>1, <1>2, <2>1 DEF TypeOK, Attempt, RowInv, RowsAreTrue, SessionIsTrue, AllServed, QueuedIsIdle
  <2> QED
    BY <2>2, <2>3, <2>4
<1>3. CASE batch # {}
  <2>1. att' = next
    BY <1>3 DEF Load
  <2>2. /\ att'.pc = "send" /\ att'.owed = members /\ att'.batch = batch
        /\ att'.todo = batch /\ att'.retries = att.retries
        /\ att'.old = [u \in Users |-> IF u \in batch THEN row[u] ELSE "none"]
        /\ att'.new = [u \in Users |-> IF u \in batch THEN loaded(u) ELSE "none"]
    BY <2>1 DEF TypeOK, Attempt
  <2>3. batch \subseteq members /\ members \subseteq Users
    BY DEF TypeOK
  <2>4. att' \in Attempt
    BY <2>1, <2>3 DEF TypeOK, Attempt, Rows, Status
  <2>5. TypeOK'
    BY <1>1, <2>2, <2>3, <2>4 DEF TypeOK
  <2>6. MailInv'
    BY <1>1, <2>2 DEF TypeOK, Attempt, MailInv, Mailed
  <2>7. RowInv'
    <3>1. \A u \in batch : att'.new[u] = loaded(u) /\ loaded(u) # "SENT" /\ att'.old[u] = row[u]
      BY <2>2, <2>3
    <3> QED
      BY <1>1, <2>2, <2>3, <3>1 DEF RowInv, RowsAreTrue, SessionIsTrue, AllServed, QueuedIsIdle
  <2> QED
    BY <2>5, <2>6, <2>7
<1> QED
  BY <1>2, <1>3

\* send_email, whatever it answers and whether or not the message arrived.
LEMMA EmailInv ==
    ASSUME TypeOK, MailInv, RowInv, NEW u \in Users, NEW d \in BOOLEAN,
           Email(u, d) \/ EmailUnconfirmed(u)
    PROVE  TypeOK' /\ MailInv' /\ RowInv'
<1>1. PICK status \in {"SENT", "FAILED"}, n \in {0, 1} :
        /\ att.pc = "send" /\ u \in att.todo
        /\ inbox' = [inbox EXCEPT ![u] = @ + n]
        /\ status = "SENT" => n = 1
        /\ att' = [att EXCEPT !.new[u] = status, !.todo = @ \ {u}]
        /\ UNCHANGED <<members, row, pushed, meddled>>
        /\ faults' \in 0..MaxFaults
  <2>1. inbox = [inbox EXCEPT ![u] = @ + 0]
    BY DEF TypeOK
  <2>2. CASE Email(u, TRUE) /\ d = TRUE
    BY <2>2 DEF Email, TypeOK
  <2>3. CASE Email(u, FALSE) /\ d = FALSE
    BY <2>1, <2>3 DEF Email, TypeOK
  <2>4. CASE EmailUnconfirmed(u)
    BY <2>4, NotificationsAssumption DEF EmailUnconfirmed, TypeOK
  <2> QED
    BY <2>2, <2>3, <2>4
<1>2. /\ att'.pc = "send" /\ att'.owed = att.owed /\ att'.batch = att.batch
      /\ att'.todo = att.todo \ {u} /\ att'.retries = att.retries /\ att'.old = att.old
      /\ att'.new = [att.new EXCEPT ![u] = status]
  BY <1>1 DEF TypeOK, Attempt
<1>3. inbox'[u] = inbox[u] + n /\ \A m \in Users \ {u} : inbox'[m] = inbox[m]
  BY <1>1 DEF TypeOK
<1>4. att'.new[u] = status /\ \A m \in Users \ {u} : att'.new[m] = att.new[m]
  BY <1>2 DEF TypeOK, Attempt, Rows
<1>5. TypeOK'
  <2>1. att' \in Attempt
    BY <1>1 DEF TypeOK, Attempt, Rows, Status
  <2>2. inbox' \in [Users -> Nat]
    BY <1>1 DEF TypeOK
  <2> QED
    BY <1>1, <1>2, <2>1, <2>2 DEF TypeOK
<1>6. MailInv'
  BY <1>1, <1>2, <1>3 DEF TypeOK, Attempt, MailInv, Mailed
<1>7. RowInv'
  <2>1. \A m \in Users : inbox[m] > 0 => inbox'[m] > 0
    BY <1>3 DEF TypeOK
  <2>2. RowsAreTrue'
    BY <1>1, <2>1 DEF RowInv, RowsAreTrue
  <2>3. status = "SENT" => inbox'[u] > 0
    BY <1>1, <1>3 DEF TypeOK
  <2>4. att.batch \subseteq Users
    BY DEF TypeOK, Attempt
  <2>5. SessionIsTrue'
    BY <1>1, <1>2, <1>4, <2>1, <2>3, <2>4 DEF RowInv, SessionIsTrue
  <2>6. AllServed' /\ QueuedIsIdle'
    BY <1>2 DEF AllServed, QueuedIsIdle
  <2> QED
    BY <2>2, <2>5, <2>6 DEF RowInv
<1> QED
  BY <1>5, <1>6, <1>7

LEMMA CommitInv == ASSUME TypeOK, MailInv, RowInv, Commit PROVE TypeOK' /\ MailInv' /\ RowInv'
<1>1. /\ att.pc = "send" /\ att.todo = {}
      /\ row' = [u \in Users |-> IF u \in att.batch /\ att.new[u] # att.old[u]
                                 THEN att.new[u] ELSE row[u]]
      /\ UNCHANGED <<members, inbox, pushed, meddled, faults>>
  BY DEF Commit, WriteBatch
<1>2. /\ att' \in Attempt /\ att'.pc \in {"publish", "done"}
      /\ att'.todo \subseteq att.batch /\ att'.batch = att.batch
      /\ att'.owed = att.owed /\ att'.retries = att.retries
  <2>1. att' = GoOn
    BY DEF Commit
  <2> QED
    BY <1>1, <2>1 DEF GoOn, NoRows, TypeOK, Attempt, Rows, Over
<1>3. TypeOK'
  <2>1. row' \in Rows
    BY <1>1 DEF TypeOK, Attempt, Rows
  <2> QED
    BY <1>1, <1>2, <2>1 DEF TypeOK
<1>4. MailInv'
  BY <1>1, <1>2 DEF MailInv, Mailed
<1>5. att.batch \subseteq att.owed /\ att.owed \subseteq Users
  BY DEF TypeOK, Attempt
<1>6. \A u \in Users \ meddled :
          row'[u] = IF u \in att.batch THEN att.new[u] ELSE row[u]
  BY <1>1, <1>5 DEF RowInv, SessionIsTrue
<1>7. \A u \in att.batch : att.new[u] \in {"SENT", "FAILED"}
                           /\ (att.new[u] = "SENT" => inbox[u] > 0)
  BY <1>1 DEF RowInv, SessionIsTrue
<1>8. RowsAreTrue'
  BY <1>1, <1>6, <1>7 DEF RowInv, RowsAreTrue
<1>9. AllServed'
  BY <1>1, <1>2, <1>5, <1>6, <1>7 DEF RowInv, SessionIsTrue, AllServed
<1>10. SessionIsTrue' /\ QueuedIsIdle'
  BY <1>2 DEF SessionIsTrue, QueuedIsIdle
<1> QED
  BY <1>3, <1>4, <1>8, <1>9, <1>10 DEF RowInv

LEMMA PublishInv ==
    ASSUME TypeOK, MailInv, RowInv, NEW u \in Users, Publish(u)
    PROVE  TypeOK' /\ MailInv' /\ RowInv'
<1>1. /\ att.pc = "publish" /\ u \in att.todo
      /\ pushed' = pushed \cup {u}
      /\ UNCHANGED <<members, row, inbox, meddled, faults>>
  BY DEF Publish
<1>2. att' = [att EXCEPT !.todo = @ \ {u},
                         !.pc = IF att.todo = {u} THEN "done" ELSE "publish"]
  BY DEF Publish
<1>3. /\ att'.pc \in {"publish", "done"} /\ att'.todo = att.todo \ {u}
      /\ att'.batch = att.batch /\ att'.owed = att.owed /\ att'.retries = att.retries
      /\ att' \in Attempt
  BY <1>2 DEF TypeOK, Attempt, Over
<1>4. TypeOK'
  BY <1>1, <1>3 DEF TypeOK
<1>5. MailInv'
  BY <1>1, <1>3 DEF MailInv, Mailed
<1>6. u \in att.owed
  BY <1>1 DEF TypeOK
<1>7. RowInv'
  BY <1>1, <1>3, <1>6 DEF RowInv, RowsAreTrue, SessionIsTrue, AllServed, QueuedIsIdle
<1> QED
  BY <1>4, <1>5, <1>7

\* An attempt that is given up: the error, the stale row and the crash.
LEMMA GiveUpInv ==
    ASSUME TypeOK, MailInv, RowInv, CommitStale \/ AttemptFails \/ WorkerCrash
    PROVE  TypeOK' /\ MailInv' /\ RowInv'
<1>1. /\ UNCHANGED <<members, row, inbox, pushed, meddled>>
      /\ faults' \in 0..MaxFaults
  BY NotificationsAssumption DEF CommitStale, AttemptFails, WorkerCrash, TypeOK
<1>2. /\ att' \in Attempt /\ att'.batch = {} /\ att'.todo = {} /\ att'.owed = {}
      /\ \/ att'.pc = "queued" /\ att'.retries = att.retries + 1
         \/ att'.pc = "dead" /\ att'.retries = att.retries
  <2>1. \/ /\ att.retries < MaxRetries
           /\ att' = [Idle EXCEPT !.retries = att.retries + 1]
        \/ att' = [Idle EXCEPT !.retries = att.retries, !.pc = "dead"]
    BY DEF CommitStale, AttemptFails, WorkerCrash, TryAgain
  <2>2. att.retries \in 0..MaxRetries
    BY DEF TypeOK, Attempt
  <2>3. Idle \in Attempt
    BY NotificationsAssumption DEF Idle, NoRows, Attempt, Rows
  <2>4. CASE att' = [Idle EXCEPT !.retries = att.retries, !.pc = "dead"]
    BY <2>2, <2>3, <2>4 DEF Idle, Attempt, Over
  <2>5. CASE att.retries < MaxRetries /\ att' = [Idle EXCEPT !.retries = att.retries + 1]
    <3>1. att.retries + 1 \in 0..MaxRetries
      BY <2>2, <2>5, NotificationsAssumption
    <3> QED
      BY <2>3, <2>5, <3>1 DEF Idle, Attempt
  <2> QED
    BY <2>1, <2>4, <2>5
<1>3. TypeOK'
  BY <1>1, <1>2 DEF TypeOK
<1>4. MailInv'
  <2>1. att.retries \in Nat /\ \A u \in Users : inbox[u] \in Nat
    BY NotificationsAssumption DEF TypeOK, Attempt
  <2> QED
    BY <1>1, <1>2, <2>1 DEF MailInv, Mailed
<1>5. RowInv'
  BY <1>1, <1>2 DEF RowInv, RowsAreTrue, SessionIsTrue, AllServed, QueuedIsIdle
<1> QED
  BY <1>3, <1>4, <1>5

-----------------------------------------------------------------------------
LEMMA StepInv ==
    ASSUME TypeOK, MailInv, RowInv, [Next]_vars
    PROVE  TypeOK' /\ MailInv' /\ RowInv'
<1>1. CASE UserStep
  BY <1>1, UserInv DEF UserStep
<1>2. CASE TaskStep
  <2>1. CASE Load
    BY <2>1, LoadInv
  <2>2. CASE \E u \in Users : (\E d \in BOOLEAN : Email(u, d)) \/ EmailUnconfirmed(u)
    <3>1. PICK u \in Users, d \in BOOLEAN : Email(u, d) \/ EmailUnconfirmed(u)
      BY <2>2
    <3> QED
      BY <3>1, EmailInv
  <2>3. CASE Commit
    BY <2>3, CommitInv
  <2>4. CASE CommitStale
    BY <2>4, GiveUpInv
  <2>5. CASE \E u \in Users : Publish(u)
    BY <2>5, PublishInv
  <2> QED
    BY <1>2, <2>1, <2>2, <2>3, <2>4, <2>5 DEF TaskStep
<1>3. CASE AttemptFails \/ WorkerCrash
  BY <1>3, GiveUpInv
<1>4. CASE UNCHANGED vars
  BY <1>4 DEF vars, TypeOK, MailInv, Mailed, RowInv, RowsAreTrue, SessionIsTrue, AllServed, QueuedIsIdle
<1> QED
  BY <1>1, <1>2, <1>3, <1>4 DEF Next

LEMMA AlwaysInv == Spec => [](TypeOK /\ MailInv /\ RowInv)
<1>1. Init => TypeOK /\ MailInv /\ RowInv
  BY InitInv
<1>2. TypeOK /\ MailInv /\ RowInv /\ [Next]_vars => (TypeOK /\ MailInv /\ RowInv)'
  BY StepInv
<1> QED
  BY <1>1, <1>2, PTL DEF Spec

\* The task, its session and the rows keep their types; retries stay within the limit.
THEOREM TypeCorrect == Spec => []TypeOK
BY AlwaysInv, PTL

\* However the attempts fail, a user gets at most one e-mail for each of them.
THEOREM EmailsBounded == Spec => []OneEmailPerAttempt
<1>1. TypeOK /\ MailInv => OneEmailPerAttempt
  <2> SUFFICES ASSUME TypeOK, MailInv, NEW u \in Users
               PROVE  inbox[u] <= att.retries + 1
    BY DEF OneEmailPerAttempt
  <2>1. att.retries \in Nat /\ inbox[u] \in Nat
    BY NotificationsAssumption DEF TypeOK, Attempt
  <2> QED
    BY <2>1 DEF MailInv
<1> QED
  BY <1>1, AlwaysInv, PTL

\* A task that is done has an answer for every member it loaded.
THEOREM NobodyForgotten == Spec => []NoMemberForgotten
<1>1. TypeOK /\ RowInv => NoMemberForgotten
  BY DEF TypeOK, Attempt, RowInv, RowsAreTrue, AllServed, NoMemberForgotten
<1> QED
  BY <1>1, AlwaysInv, PTL

\* A realtime event about a row is published after the row was committed.
THEOREM CommitThenEvent == Spec => []EventsAfterCommit
<1>1. TypeOK /\ RowInv => EventsAfterCommit
  BY DEF TypeOK, RowInv, RowsAreTrue, EventsAfterCommit
<1> QED
  BY <1>1, AlwaysInv, PTL
=============================================================================

------------------------------- MODULE Forms -------------------------------
(***************************************************************************)
(* The public forms: the waitlist, the contact form, and the request for a *)
(* specialist.  What a form refuses by its fields alone never gets here.   *)
(*                                                                         *)
(* E-mails are sent by the request itself or queued as its background      *)
(* tasks, which run once an answer has been returned, be it an error.      *)
(***************************************************************************)
EXTENDS Naturals, FiniteSets

CONSTANTS
    Visits,         \* requests served at the same time
    Visitors,       \* e-mail addresses
    MaxContacts,    \* MAX_CONTACT_ATTEMPTS
    IpMultiplier,   \* IP_RATE_LIMIT_MULTIPLIER
    FormFaults      \* bound on failures

ASSUME FormsAssumption ==
    MaxContacts \in Nat \ {0} /\ IpMultiplier \in Nat \ {0} /\ FormFaults \in Nat

VARIABLES
    waitlist,   \* the addresses in table waitlist
    contacts,   \* the addresses with rows in contact_us
    hires,      \* the addresses with rows in specialist_hires
    attempts,   \* the rate_limit:contact:email counters
    ipAttempts, \* rate_limit:contact:ip, of the one IP address they all come from
    visit,      \* each request in progress
    sent,       \* e-mails sent
    told,       \* ghost: the waitlist's answers
    faults      \* failures that have happened

formVars == <<waitlist, contacts, hires, attempts, ipAttempts, visit, sent, told, faults>>

NoVisit == [pc |-> "idle", by |-> "nobody"]
FormMails == {"waitlist", "contact_us_admin", "contact_us_confirmation"}

FormsTypeOK ==
    /\ waitlist \subseteq Visitors /\ contacts \subseteq Visitors /\ hires \subseteq Visitors
    /\ attempts \in [Visitors -> 0..MaxContacts + 1]
    /\ ipAttempts \in 0..MaxContacts * IpMultiplier + 1
    /\ visit \in [Visits -> [pc : {"idle", "insert", "confirm", "confirm again", "save",
                                   "tell admin", "tell visitor"},
                             by : Visitors \cup {"nobody"}]]
    /\ sent \subseteq [mail : FormMails, about : Visitors]
    /\ told \subseteq [by : Visitors, status : {201, 400, 500}]
    /\ faults \in 0..FormFaults

FormsInit ==
    /\ waitlist = {} /\ contacts = {} /\ hires = {}
    /\ attempts = [a \in Visitors |-> 0] /\ ipAttempts = 0
    /\ visit = [v \in Visits |-> NoVisit]
    /\ sent = {} /\ told = {} /\ faults = 0

Visiting(v, pc) == visit[v].pc = pc
GoTo(v, pc) == visit' = [visit EXCEPT ![v].pc = pc]
Leave(v) == visit' = [visit EXCEPT ![v] = NoVisit]
Fault == faults < FormFaults /\ faults' = faults + 1
Tell(v, status) == told' = told \cup {[by |-> visit[v].by, status |-> status]}
\* send_email answers FALSE instead of raising, and nobody looks.
Mail(v, mail) ==
    \/ sent' = sent \cup {[mail |-> mail, about |-> visit[v].by]} /\ UNCHANGED faults
    \/ UNCHANGED sent /\ Fault

-----------------------------------------------------------------------------
(* The waitlist.                                                           *)

EmailExists(a) == a \in waitlist

\* Mutant of SignUp: the confirmation goes out before the row.
SignUpConfirming(v, a) ==
    /\ Visiting(v, "idle") /\ ~EmailExists(a)
    /\ visit' = [visit EXCEPT ![v] = [pc |-> "insert", by |-> a]]
    /\ sent' = sent \cup {[mail |-> "waitlist", about |-> a]}
    /\ UNCHANGED <<waitlist, contacts, hires, attempts, ipAttempts, told, faults>>

\* add_to_waitlist looks for the address ...
SignUp(v, a) ==
    /\ Visiting(v, "idle") /\ ~EmailExists(a)
    /\ visit' = [visit EXCEPT ![v] = [pc |-> "insert", by |-> a]]
    /\ UNCHANGED <<waitlist, contacts, hires, attempts, ipAttempts, sent, told, faults>>
SignUpAgain(a) ==
    /\ EmailExists(a)
    /\ told' = told \cup {[by |-> a, status |-> 400]}
    /\ UNCHANGED <<waitlist, contacts, hires, attempts, ipAttempts, visit, sent, faults>>
\* ... and inserts it; the column is unique.
AddToWaitlist(v) ==
    /\ Visiting(v, "insert") /\ ~EmailExists(visit[v].by)
    /\ waitlist' = waitlist \cup {visit[v].by}
    /\ GoTo(v, "confirm")
    /\ UNCHANGED <<contacts, hires, attempts, ipAttempts, sent, told, faults>>
SignUpFails(v) ==
    /\ Visiting(v, "insert")
    /\ IF EmailExists(visit[v].by) THEN UNCHANGED faults ELSE Fault
    /\ Tell(v, 500) /\ Leave(v)
    /\ UNCHANGED <<waitlist, contacts, hires, attempts, ipAttempts, sent>>
\* _send_confirmation_email by the service, and once more as the route's background task.
Confirm(v) ==
    /\ Visiting(v, "confirm")
    /\ Mail(v, "waitlist")
    /\ Tell(v, 201) /\ GoTo(v, "confirm again")
    /\ UNCHANGED <<waitlist, contacts, hires, attempts, ipAttempts>>
ConfirmAgain(v) ==
    /\ Visiting(v, "confirm again")
    /\ Mail(v, "waitlist") /\ Leave(v)
    /\ UNCHANGED <<waitlist, contacts, hires, attempts, ipAttempts, told>>

-----------------------------------------------------------------------------
(* The contact form.                                                       *)

Counted(n, limit) == IF n > limit THEN n ELSE n + 1

\* check_rate_limit (LoginLockout has its two calls) by address, and only then by IP address.
ContactUs(v, a) ==
    /\ Visiting(v, "idle")
    /\ attempts' = [attempts EXCEPT ![a] = Counted(@, MaxContacts)]
    /\ ipAttempts' = IF attempts[a] < MaxContacts
                     THEN Counted(ipAttempts, MaxContacts * IpMultiplier) ELSE ipAttempts
    /\ visit' = IF attempts[a] < MaxContacts /\ ipAttempts < MaxContacts * IpMultiplier
                THEN [visit EXCEPT ![v] = [pc |-> "save", by |-> a]] ELSE visit
    /\ UNCHANGED <<waitlist, contacts, hires, sent, told, faults>>
\* Without Redis nobody is refused.
LimitUnknown(v, a) ==
    /\ Visiting(v, "idle") /\ Fault
    /\ visit' = [visit EXCEPT ![v] = [pc |-> "save", by |-> a]]
    /\ UNCHANGED <<waitlist, contacts, hires, attempts, ipAttempts, sent, told>>
LimitLapses ==
    /\ \/ \E a \in Visitors : attempts' = [attempts EXCEPT ![a] = 0] /\ UNCHANGED ipAttempts
       \/ ipAttempts' = 0 /\ UNCHANGED attempts
    /\ UNCHANGED <<waitlist, contacts, hires, visit, sent, told, faults>>
\* submit_contact_form has queued both e-mails by now: they go out whether the row is committed,
SubmitContactForm(v) ==
    /\ Visiting(v, "save")
    /\ contacts' = contacts \cup {visit[v].by}
    /\ GoTo(v, "tell admin")
    /\ UNCHANGED <<waitlist, hires, attempts, ipAttempts, sent, told, faults>>
\* or not: the error is an answer too.
SubmitFails(v) ==
    /\ Visiting(v, "save") /\ Fault
    /\ GoTo(v, "tell admin")
    /\ UNCHANGED <<waitlist, contacts, hires, attempts, ipAttempts, sent, told>>
TellAdmin(v) ==
    /\ Visiting(v, "tell admin")
    /\ Mail(v, "contact_us_admin") /\ GoTo(v, "tell visitor")
    /\ UNCHANGED <<waitlist, contacts, hires, attempts, ipAttempts, told>>
TellVisitor(v) ==
    /\ Visiting(v, "tell visitor")
    /\ Mail(v, "contact_us_confirmation") /\ Leave(v)
    /\ UNCHANGED <<waitlist, contacts, hires, attempts, ipAttempts, told>>

-----------------------------------------------------------------------------
\* One insert and its commit; a request that fails leaves nothing.
HireSpecialist(a) ==
    /\ hires' = hires \cup {a}
    /\ UNCHANGED <<waitlist, contacts, attempts, ipAttempts, visit, sent, told, faults>>

\* The server ends, and with it what the request has still to do.
VisitCutShort(v) ==
    /\ ~Visiting(v, "idle") /\ Fault
    /\ Leave(v)
    /\ UNCHANGED <<waitlist, contacts, hires, attempts, ipAttempts, sent, told>>

Waitlist(v) ==
    \/ \E a \in Visitors : SignUp(v, a)
    \/ AddToWaitlist(v) \/ SignUpFails(v) \/ Confirm(v) \/ ConfirmAgain(v)

Contact(v) ==
    \/ \E a \in Visitors : ContactUs(v, a) \/ LimitUnknown(v, a)
    \/ SubmitContactForm(v) \/ SubmitFails(v) \/ TellAdmin(v) \/ TellVisitor(v)

FormsNext ==
    \/ \E v \in Visits : Waitlist(v) \/ Contact(v) \/ VisitCutShort(v)
    \/ \E a \in Visitors : SignUpAgain(a) \/ HireSpecialist(a)
    \/ LimitLapses

FormsSpec == FormsInit /\ [][FormsNext]_formVars

\* Who was told to be on the waitlist, by an answer or by e-mail, is on it; and while nothing
\* fails so is everyone who was answered at all, although of two sign-ups at once one is
\* answered with an error.
WaitlistKeepsItsWord ==
    /\ \A e \in sent : e.mail = "waitlist" => e.about \in waitlist
    /\ \A t \in told : t.status # 500 \/ faults = 0 => t.by \in waitlist
=============================================================================

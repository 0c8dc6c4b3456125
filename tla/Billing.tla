------------------------------- MODULE Billing -------------------------------
(***************************************************************************)
(* The billing of one organization: its billing_accounts row, the mirror   *)
(* of it in organizations.billing_info, the card and invoice rows, the     *)
(* routes that call Stripe (billing/routes/billing_routes.py) and the      *)
(* webhook (billing/stripe/webhook_processor.py), by which Stripe tells    *)
(* what became of a subscription.                                          *)
(*                                                                         *)
(* Stripe delivers an event until it is answered with 200, in any order,   *)
(* and sometimes again after that.  A handler is several commits; between  *)
(* two of them other handlers and requests run.                            *)
(***************************************************************************)
EXTENDS Naturals, Sequences

CONSTANTS
    Workers,     \* requests the API serves at the same time
    Subs,        \* Stripe subscriptions
    Customers,   \* Stripe customers
    Prices,      \* Stripe prices of the configured plans
    Cards,       \* Stripe payment methods
    None,        \* NULL in a column
    MaxTime,     \* bound on the clock
    MaxEvents,   \* bound on the events Stripe emits
    MaxRows,     \* bound on the card rows ever inserted
    MaxFaults    \* bound on failures and on repeated deliveries

ASSUME BillingAssumption ==
    /\ None \notin Subs \cup Customers \cup Prices
    /\ MaxTime \in Nat \ {0} /\ MaxEvents \in Nat /\ MaxRows \in Nat /\ MaxFaults \in Nat

VARIABLES
    now,       \* the clock: trials and paid periods end with the unit they are in
    account,   \* the billing_accounts row
    org,       \* organizations.billing_info, a copy of that row
    invoice,   \* status of the row of the one Stripe invoice, or None
    cards,     \* the billing_payment_methods rows
    rows,      \* card rows inserted so far (their primary keys)
    session,   \* the checkout session through which a subscription can be bought
    events,    \* everything Stripe has emitted; its index is the event's id
    owed,      \* events Stripe has had no 200 for
    marked,    \* the stripe_event_processed keys in Redis
    job,       \* what each worker is doing
    applied,   \* ghost: subscription events whose values have been committed
    version,   \* ghost: index of the newest event written to account, and to org
    overtaken, \* ghost: an older value has been written over a newer one
    overlap,   \* ghost: two handlers were recording a card at the same time
    faults     \* failures that have happened

stripe == <<session, events>>
ghosts == <<applied, version, overtaken, overlap>>
vars == <<now, account, org, invoice, cards, rows, session, events, owed, marked, job,
          applied, version, overtaken, overlap, faults>>

NoTime == 0
NoSession == [cust |-> None, price |-> None, open |-> FALSE]
NoAccount == [cust |-> None, sub |-> None, status |-> "TRIALING", cancel |-> FALSE,
              price |-> None, trialEnd |-> NoTime, periodEnd |-> NoTime]
\* ev: the event it handles, or caused.  sub: of a checkout.  saw: whether the row it
\* looked for was there.  cleared: the card rows whose flag it has cleared, uncommitted.
\* snap: the account as refreshed, ver its version.
Idle == [pc |-> "idle", ask |-> "none", ev |-> 0, sub |-> None, saw |-> FALSE,
         cleared |-> {}, snap |-> NoAccount, ver |-> 0]
BillingStatus == {"TRIALING", "ACTIVE", "PAST_DUE", "UNPAID", "CANCELLED", "BLOCKED"}
StripeStatus == {"trialing", "active", "past_due", "incomplete", "canceled"}
InvoiceStatus == {"DRAFT", "OPEN", "PAID", "VOID", "PENDING", "FAILED", "REFUNDED"}
Account == [cust : Customers \cup {None}, sub : Subs \cup {None}, status : BillingStatus,
            cancel : BOOLEAN, price : Prices \cup {None}, trialEnd : Nat, periodEnd : Nat]
SubEvent == [kind : {"subscription"}, cust : Customers, sub : Subs, status : StripeStatus,
             cancel : BOOLEAN, price : Prices, until : Nat]
Event == SubEvent
    \cup [kind : {"checkout"}, cust : Customers, sub : Subs]
    \cup [kind : {"card"}, cust : Customers, card : Cards]
    \cup [kind : {"invoice"}, cust : Customers, status : {"open", "paid", "void"}]
    \cup [kind : {"intent"}, ok : BOOLEAN]
Card == [id : 1..MaxRows, card : Cards, default : BOOLEAN]
Steps == {"idle", "look", "attach", "update", "refresh", "sync", "save", "clear",
          "insert", "mark", "customer", "called"}
Asks == {"none", "event", "checkout", "change", "cancel"}

TypeOK ==
    /\ now \in 1..MaxTime
    /\ account \in Account /\ org \in Account
    /\ invoice \in InvoiceStatus \cup {None}
    /\ cards \subseteq Card /\ rows \in 0..MaxRows
    /\ session \in [Subs -> [cust : Customers \cup {None}, price : Prices \cup {None},
                             open : BOOLEAN]]
    /\ events \in Seq(Event) /\ Len(events) <= MaxEvents
    /\ owed \subseteq 1..Len(events) /\ marked \subseteq 1..Len(events)
    /\ job \in [Workers -> [pc : Steps, ask : Asks, ev : 0..Len(events), sub : Subs \cup {None},
                            saw : BOOLEAN, cleared : SUBSET (1..MaxRows), snap : Account,
                            ver : 0..Len(events)]]
    /\ applied \subseteq 1..Len(events)
    /\ version \in [account : 0..Len(events), org : 0..Len(events)]
    /\ overtaken \in BOOLEAN /\ overlap \in BOOLEAN
    /\ faults \in 0..MaxFaults


\* create_billing_account as organization_service.create_organization calls it: without an
\* e-mail, hence without a Stripe customer; then the mirror.
Init ==
    /\ now = 1
    /\ account = [NoAccount EXCEPT !.trialEnd = now]
    /\ org = account
    /\ invoice = None
    /\ cards = {} /\ rows = 0
    /\ session = [s \in Subs |-> NoSession]
    /\ events = <<>> /\ owed = {} /\ marked = {}
    /\ job = [w \in Workers |-> Idle]
    /\ applied = {} /\ version = [account |-> 0, org |-> 0]
    /\ overtaken = FALSE /\ overlap = FALSE
    /\ faults = 0

Tick ==
    /\ now < MaxTime
    /\ now' = now + 1
    /\ UNCHANGED <<account, org, invoice, cards, rows, stripe, owed, marked, job, ghosts, faults>>

-----------------------------------------------------------------------------
\* Stripe

EventsOf(s) == {i \in 1..Len(events) : events[i].kind = "subscription" /\ events[i].sub = s}
Newest(I) == CHOOSE i \in I : \A j \in I : j <= i
Current(s) == events[Newest(EventsOf(s))]
Lives(s) == EventsOf(s) # {} /\ Current(s).status # "canceled"

Emit(e) ==
    /\ Len(events) < MaxEvents
    /\ events' = Append(events, e)
    /\ owed' = owed \cup {Len(events) + 1}

\* The customer pays in an open checkout session.
Subscribe(s, status) ==
    /\ session[s].open /\ EventsOf(s) = {}
    /\ Emit([kind |-> "subscription", cust |-> session[s].cust, sub |-> s, status |-> status,
             cancel |-> FALSE, price |-> session[s].price, until |-> now])

CheckoutCompletes(s) ==
    /\ EventsOf(s) # {}
    /\ \A i \in 1..Len(events) : ~(events[i].kind = "checkout" /\ events[i].sub = s)
    /\ Emit([kind |-> "checkout", cust |-> session[s].cust, sub |-> s])

\* A renewal, a failed payment, the end.
SubscriptionMoves(s) ==
    /\ Lives(s)
    /\ \E e \in {[Current(s) EXCEPT !.status = "active", !.until = now],
                 [Current(s) EXCEPT !.status = "past_due"],
                 [Current(s) EXCEPT !.status = "canceled"]} :
           e # Current(s) /\ Emit(e)

CardAttached(c, cust) ==
    /\ \E s \in Subs : session[s].open /\ session[s].cust = cust
    /\ Emit([kind |-> "card", cust |-> cust, card |-> c])

InvoiceMoves(cust, status) ==
    /\ \E s \in Subs : session[s].open /\ session[s].cust = cust
    /\ LET old == {events[i].status : i \in {j \in 1..Len(events) : events[j].kind = "invoice"}}
       IN  /\ status \notin old
           /\ IF old = {} THEN status = "open" ELSE old = {"open"}
    /\ Emit([kind |-> "invoice", cust |-> cust, status |-> status])

\* payment_intent.*: ok for succeeded, anything else (created, processing, failed) is not.
IntentMoves(ok) ==
    /\ \E i \in 1..Len(events) : events[i].kind = "invoice"
    /\ Emit([kind |-> "intent", ok |-> ok])

Stripe ==
    /\ \/ \E s \in Subs, status \in {"active", "trialing"} : Subscribe(s, status)
       \/ \E s \in Subs : CheckoutCompletes(s) \/ SubscriptionMoves(s)
       \/ \E cust \in Customers, c \in Cards : CardAttached(c, cust)
       \/ \E cust \in Customers, status \in {"open", "paid", "void"} : InvoiceMoves(cust, status)
       \/ \E ok \in BOOLEAN : IntentMoves(ok)
    /\ UNCHANGED <<now, account, org, invoice, cards, rows, session, marked, job, ghosts, faults>>

-----------------------------------------------------------------------------
\* The webhook

Fault == faults < MaxFaults /\ faults' = faults + 1
Goto(w, pc) == job' = [job EXCEPT ![w].pc = pc]
Evt(w) == events[job[w].ev]
Handle(w, i) == job' = [job EXCEPT ![w] = [Idle EXCEPT !.pc = "look", !.ask = "event", !.ev = i]]

\* Mutant of Deliver: the event is marked before it is handled.
DeliverMarked(w, i) ==
    /\ job[w].pc = "idle"
    /\ i \in owed \ marked
    /\ \A v \in Workers : job[v].ev # i
    /\ marked' = marked \cup {i}
    /\ Handle(w, i)
    /\ UNCHANGED <<now, account, org, invoice, cards, rows, stripe, owed, ghosts, faults>>

\* stripe_webhook and the first check of process_stripe_event.
Deliver(w, i) ==
    /\ job[w].pc = "idle"
    /\ i \in owed \ marked
    /\ \A v \in Workers : job[v].ev # i
    /\ Handle(w, i)
    /\ UNCHANGED <<now, account, org, invoice, cards, rows, stripe, owed, marked, ghosts, faults>>

\* Stripe repeats a delivery it got no answer to in time, or any other; and
\* _is_event_processed takes an error of Redis for "no".
DeliverAgain(w, i) ==
    /\ job[w].pc = "idle"
    /\ Fault
    /\ Handle(w, i)
    /\ UNCHANGED <<now, account, org, invoice, cards, rows, stripe, owed, marked, ghosts>>

AlreadyProcessed(i) ==
    /\ i \in marked
    /\ owed' = owed \ {i}
    /\ UNCHANGED <<now, account, org, invoice, cards, rows, stripe, marked, job, ghosts, faults>>

\* find_billing_account_by_customer_id, find_payment_method_by_stripe_id
AccountFound(e) == account.cust = e.cust
CardFound(e) == \E r \in cards : r.card = e.card
\* find_invoice_by_stripe_invoice_id, find_invoice_by_payment_intent_id
InvoiceFound == invoice # None

\* What each handler looks up before it writes, and where it goes from there.
LookSubscription(w) ==
    /\ Evt(w).kind = "subscription"
    /\ Goto(w, IF AccountFound(Evt(w)) THEN "attach" ELSE "mark")
    /\ UNCHANGED ghosts
LookCheckout(w) ==
    /\ Evt(w).kind = "checkout"
    /\ Goto(w, IF account.sub = None THEN "attach" ELSE "mark")
    /\ UNCHANGED ghosts
LookCard(w) ==
    /\ Evt(w).kind = "card"
    /\ LET adds == AccountFound(Evt(w)) /\ ~CardFound(Evt(w))
       IN  /\ Goto(w, IF adds THEN "clear" ELSE "mark")
           /\ overlap' = (overlap \/ (adds /\ \E v \in Workers : job[v].pc \in {"clear", "insert"}))
    /\ UNCHANGED <<applied, version, overtaken>>
LookInvoice(w) ==
    /\ Evt(w).kind = "invoice"
    /\ job' = [job EXCEPT ![w].pc = IF AccountFound(Evt(w)) THEN "save" ELSE "mark",
                          ![w].saw = InvoiceFound]
    /\ UNCHANGED ghosts
LookIntent(w) ==
    /\ Evt(w).kind = "intent"
    /\ Goto(w, IF InvoiceFound THEN "save" ELSE "mark")
    /\ UNCHANGED ghosts
Look(w) ==
    /\ job[w].pc = "look"
    /\ LookSubscription(w) \/ LookCheckout(w) \/ LookCard(w) \/ LookInvoice(w) \/ LookIntent(w)
    /\ UNCHANGED <<now, account, org, invoice, cards, rows, stripe, owed, marked, faults>>

\* attach_stripe_customer, its own commit.
Attach(w) ==
    /\ job[w].pc = "attach"
    /\ account' = [account EXCEPT !.cust = Evt(w).cust, !.sub = Evt(w).sub]
    /\ overtaken' = (overtaken \/ job[w].ev < version.account
                       \/ (Evt(w).kind = "checkout" /\ account.sub \notin {None, Evt(w).sub}))
    /\ Goto(w, IF Evt(w).kind = "subscription" THEN "update" ELSE "mark")
    /\ UNCHANGED <<now, org, invoice, cards, rows, stripe, owed, marked, applied, version,
                   overlap, faults>>

MapStatus(status) ==
    CASE status = "trialing" -> "TRIALING"
      [] status = "active" -> "ACTIVE"
      [] status = "past_due" -> "PAST_DUE"
      [] status \in {"incomplete", "unpaid"} -> "UNPAID"
      [] status = "canceled" -> "CANCELLED"

\* Mutant of Updates: cancel_at_period_end is not taken over.
UpdatesButCancel(a, e) ==
    [a EXCEPT !.cust = e.cust, !.sub = e.sub, !.status = MapStatus(e.status),
              !.price = e.price, !.periodEnd = e.until,
              !.trialEnd = IF e.status = "trialing" THEN e.until ELSE NoTime]

\* _build_billing_account_updates_from_stripe_subscription
Updates(a, e) ==
    [a EXCEPT !.cust = e.cust, !.sub = e.sub, !.status = MapStatus(e.status),
              !.cancel = e.cancel, !.price = e.price, !.periodEnd = e.until,
              !.trialEnd = IF e.status = "trialing" THEN e.until ELSE NoTime]

Newer(a, b) == IF a < b THEN b ELSE a

Update(w) ==
    /\ job[w].pc = "update"
    /\ account' = Updates(account, Evt(w))
    /\ applied' = applied \cup {job[w].ev}
    /\ overtaken' = (overtaken \/ job[w].ev < version.account)
    /\ version' = [version EXCEPT !.account = Newer(@, job[w].ev)]
    /\ Goto(w, "refresh")
    /\ UNCHANGED <<now, org, invoice, cards, rows, stripe, owed, marked, overlap, faults>>

Refresh(w) ==
    /\ job[w].pc = "refresh"
    /\ job' = [job EXCEPT ![w].pc = "sync", ![w].snap = account, ![w].ver = version.account]
    /\ UNCHANGED <<now, account, org, invoice, cards, rows, stripe, owed, marked, ghosts, faults>>

\* _sync_org_billing_from_account writes the account as it was refreshed.
Sync(w) ==
    /\ job[w].pc = "sync"
    /\ org' = job[w].snap
    /\ overtaken' = (overtaken \/ job[w].ver < version.org)
    /\ version' = [version EXCEPT !.org = Newer(@, job[w].ver)]
    /\ job' = [job EXCEPT ![w] =
                    IF job[w].ask = "event"
                    THEN [Idle EXCEPT !.pc = "mark", !.ask = "event", !.ev = job[w].ev]
                    ELSE Idle]
    /\ UNCHANGED <<now, account, invoice, cards, rows, stripe, owed, marked, applied, overlap, faults>>

MapInvoiceStatus == [open |-> "OPEN", paid |-> "PAID", void |-> "VOID"]

\* create_invoice_record: an insert that meets the unique stripe_invoice_id of another
\* handler's row leaves that row as it is.
CreateInvoiceRecord(status) == invoice' = IF invoice = None THEN status ELSE invoice
\* upsert_invoice_from_stripe
UpsertInvoice(w) ==
    /\ Evt(w).kind = "invoice"
    /\ LET status == MapInvoiceStatus[Evt(w).status]
       IN  IF job[w].saw THEN invoice' = status ELSE CreateInvoiceRecord(status)
MarkInvoicePaid(w) == Evt(w).kind = "intent" /\ Evt(w).ok /\ invoice' = "PAID"
MarkInvoiceFailed(w) == Evt(w).kind = "intent" /\ ~Evt(w).ok /\ invoice' = "FAILED"
SaveInvoice(w) ==
    /\ job[w].pc = "save"
    /\ UpsertInvoice(w) \/ MarkInvoicePaid(w) \/ MarkInvoiceFailed(w)
    /\ job' = [job EXCEPT ![w].pc = "mark", ![w].saw = FALSE]
    /\ UNCHANGED <<now, account, org, cards, rows, stripe, owed, marked, ghosts, faults>>

\* Mutant of ClearDefaults: the default stays with the older card too.
ClearNothing(w) ==
    /\ job[w].pc = "clear"
    /\ Goto(w, "insert")
    /\ UNCHANGED <<now, account, org, invoice, cards, rows, stripe, owed, marked, ghosts, faults>>

\* add_payment_method(is_default=True): clear the flags, insert, attach at Stripe, commit.
\* The UPDATE that clears sees what was committed when it ran.
ClearDefaults(w) ==
    /\ job[w].pc = "clear"
    /\ job' = [job EXCEPT ![w].pc = "insert", ![w].cleared = {r.id : r \in {c \in cards : c.default}}]
    /\ UNCHANGED <<now, account, org, invoice, cards, rows, stripe, owed, marked, ghosts, faults>>
InsertCard(w) ==
    /\ job[w].pc = "insert"
    /\ rows < MaxRows
    /\ rows' = rows + 1
    /\ cards' = {[r EXCEPT !.default = @ /\ r.id \notin job[w].cleared] : r \in cards}
                  \cup {[id |-> rows + 1, card |-> Evt(w).card, default |-> TRUE]}
    /\ job' = [job EXCEPT ![w].pc = "mark", ![w].cleared = {}]
    /\ UNCHANGED <<now, account, org, invoice, stripe, owed, marked, ghosts, faults>>

\* _mark_event_processed and the 200; an error of either is survived, not both lost.
Finish(w) ==
    /\ job[w].pc = "mark"
    /\ marked' = marked \cup {job[w].ev}
    /\ owed' = owed \ {job[w].ev}
    /\ job' = [job EXCEPT ![w] = Idle]
    /\ UNCHANGED <<now, account, org, invoice, cards, rows, stripe, ghosts, faults>>
MarkLost(w) ==
    /\ job[w].pc = "mark" /\ Fault
    /\ owed' = owed \ {job[w].ev}
    /\ job' = [job EXCEPT ![w] = Idle]
    /\ UNCHANGED <<now, account, org, invoice, cards, rows, stripe, marked, ghosts>>
AnswerLost(w) ==
    /\ job[w].pc = "mark" /\ Fault
    /\ marked' = marked \cup {job[w].ev}
    /\ job' = [job EXCEPT ![w] = Idle]
    /\ UNCHANGED <<now, account, org, invoice, cards, rows, stripe, owed, ghosts>>

\* An exception in a handler (400: Stripe will deliver again) or in a route, or a crash.
Fails(w) ==
    /\ job[w].pc # "idle" /\ Fault
    /\ job' = [job EXCEPT ![w] = Idle]
    /\ UNCHANGED <<now, account, org, invoice, cards, rows, stripe, owed, marked, ghosts>>

-----------------------------------------------------------------------------
\* The routes

\* create_checkout_session, whose organization may have a subscription already.
FreshCustomer == CHOOSE c \in Customers : \A s \in Subs : session[s].cust # c
FreshSub == CHOOSE s \in Subs : session[s] = NoSession
Checkout(price) ==
    /\ \E s \in Subs : session[s] = NoSession
    /\ account.cust # None
    /\ session' = [session EXCEPT ![FreshSub] = [cust |-> account.cust, price |-> price, open |-> TRUE]]
    /\ UNCHANGED <<now, account, org, invoice, cards, rows, events, owed, marked, job, ghosts, faults>>
\* The first time it creates a customer at Stripe, ...
CheckoutNewCustomer(w, price) ==
    /\ job[w].pc = "idle"
    /\ \E s \in Subs : session[s] = NoSession
    /\ \E c \in Customers : \A s \in Subs : session[s].cust # c
    /\ account.cust = None
    /\ session' = [session EXCEPT ![FreshSub] =
                       [cust |-> FreshCustomer, price |-> price, open |-> FALSE]]
    /\ job' = [job EXCEPT ![w] = [Idle EXCEPT !.pc = "customer", !.ask = "checkout", !.sub = FreshSub]]
    /\ UNCHANGED <<now, account, org, invoice, cards, rows, events, owed, marked, ghosts, faults>>
\* ... and attach_stripe_customer, with its default for the subscription: NULL.
AttachCustomer(w) ==
    /\ job[w].pc = "customer"
    /\ account' = [account EXCEPT !.cust = session[job[w].sub].cust, !.sub = None]
    /\ session' = [session EXCEPT ![job[w].sub].open = TRUE]
    /\ overtaken' = (overtaken \/ account.cust # None)
    /\ job' = [job EXCEPT ![w] = Idle]
    /\ UNCHANGED <<now, org, invoice, cards, rows, events, owed, marked, applied, version,
                   overlap, faults>>

\* update_subscription_price and cancel_subscription of the Stripe adapter
WithPrice(s, price) == [Current(s) EXCEPT !.price = price]
WithCancel(s) == [Current(s) EXCEPT !.cancel = TRUE]

\* change_subscription_plan and cancel_subscription call Stripe before they write.
\* _run_blocking: the call runs in a thread, which goes on when the request that waits for it
\* has given up (Fails).
AtStripe(e) ==
    /\ account.sub # None /\ Lives(account.sub)
    /\ e # Current(account.sub)
    /\ Emit(e)
Ask(w, ask, e) ==
    /\ job[w].pc = "idle"
    /\ AtStripe(e)
    /\ job' = [job EXCEPT ![w] = [Idle EXCEPT !.pc = "called", !.ask = ask, !.ev = Len(events) + 1]]
    /\ UNCHANGED <<now, account, org, invoice, cards, rows, session, marked, ghosts, faults>>
ChangePlan(w, price) ==
    /\ account.status # "CANCELLED"
    /\ Ask(w, "change", WithPrice(account.sub, price))
CancelPlan(w) == Ask(w, "cancel", WithCancel(account.sub))

WritePrice(w) == job[w].ask = "change" /\ account' = [account EXCEPT !.price = Evt(w).price]
WriteCancel(w) ==
    /\ job[w].ask = "cancel"
    /\ account' = [account EXCEPT !.cancel = TRUE, !.periodEnd = Evt(w).until]
WriteLocally(w) ==
    /\ job[w].pc = "called"
    /\ WritePrice(w) \/ WriteCancel(w)
    /\ overtaken' = (overtaken \/ job[w].ev < version.account)
    /\ Goto(w, "refresh")
    /\ UNCHANGED <<now, org, invoice, cards, rows, stripe, owed, marked, applied, version,
                   overlap, faults>>

\* One commit; that Stripe is told afterwards, and in vain, changes nothing here.
Without(r) == cards' = cards \ {r}
DeletePaymentMethod(r) ==
    /\ Without(r)
    /\ UNCHANGED <<now, account, org, invoice, rows, stripe, owed, marked, job, ghosts, faults>>

Webhook(w) ==
    \/ \E i \in 1..Len(events) : Deliver(w, i)
    \/ Look(w) \/ Attach(w) \/ Update(w) \/ Refresh(w) \/ Sync(w)
    \/ SaveInvoice(w) \/ ClearDefaults(w) \/ InsertCard(w) \/ Finish(w)
Failures(w) ==
    \/ \E i \in 1..Len(events) : DeliverAgain(w, i)
    \/ MarkLost(w) \/ AnswerLost(w) \/ Fails(w)
Routes(w) ==
    \/ AttachCustomer(w)
    \/ \E price \in Prices : CheckoutNewCustomer(w, price) \/ ChangePlan(w, price)
    \/ CancelPlan(w) \/ WriteLocally(w)

Next ==
    \/ Tick \/ Stripe
    \/ \E price \in Prices : Checkout(price)
    \/ \E w \in Workers : Webhook(w) \/ Failures(w) \/ Routes(w)
    \/ \E i \in 1..Len(events) : AlreadyProcessed(i)
    \/ \E r \in cards : DeletePaymentMethod(r)

Spec == Init /\ [][Next]_vars

-----------------------------------------------------------------------------
\* Properties

\* Mutant of EffectiveStatus: only trials end.
EffectiveStatusOfTrial ==
    IF account.status = "TRIALING" /\ account.trialEnd # NoTime /\ now > account.trialEnd
    THEN "UNPAID" ELSE account.status

\* is_org_allowed_usage
EffectiveStatus ==
    IF account.status = "TRIALING" /\ account.trialEnd # NoTime /\ now > account.trialEnd
    THEN "UNPAID"
    ELSE IF account.status = "ACTIVE" /\ account.periodEnd # NoTime /\ now > account.periodEnd
    THEN (IF account.cancel THEN "CANCELLED" ELSE "PAST_DUE")
    ELSE account.status
IsOrgAllowedUsage == EffectiveStatus \in {"TRIALING", "ACTIVE"}

\* Usage is only allowed within the local trial or a period Stripe has announced, whatever
\* events are lost, late or out of order (is_org_allowed_usage against the clock).
UsageWithinPeriods ==
    IsOrgAllowedUsage =>
        \/ now <= 1
        \/ \E i \in 1..Len(events) : events[i].kind = "subscription" /\ now <= events[i].until

\* A subscription event of the account's customer that Stripe takes for delivered has been
\* written: no failure, repeated delivery or early mark loses it (process_stripe_event).
AnsweredWasApplied ==
    ~overtaken => \A i \in 1..Len(events) :
        events[i].kind = "subscription" /\ i \notin owed => i \in applied

Settled == owed = {} /\ \A w \in Workers : job[w].pc = "idle"
SubEvents == {i \in 1..Len(events) : events[i].kind = "subscription"}

\* What get_subscription_status answers.
SubscriptionStatus(a) == [sub |-> a.sub, status |-> a.status, cancel |-> a.cancel,
                          price |-> a.price, periodEnd |-> a.periodEnd]
AsStripeHasIt(e) == [sub |-> e.sub, status |-> MapStatus(e.status), cancel |-> e.cancel,
                     price |-> e.price, periodEnd |-> e.until]

\* Once everything is delivered, account and mirror tell what Stripe told last, though routes
\* write after calling Stripe and may fail in between; unless an older value was written
\* after a newer one, which nothing in the code prevents.
FollowsStripe ==
    Settled /\ ~overtaken /\ SubEvents # {} =>
        /\ SubscriptionStatus(account) = AsStripeHasIt(events[Newest(SubEvents)])
        /\ org = account

\* One card row for each Stripe card and one default at most, unless two handlers of
\* payment_method.attached ran at the same time (add_payment_method has no constraint).
CardsKept ==
    ~overlap => \A r, q \in cards : r # q => r.card # q.card /\ ~(r.default /\ q.default)

=============================================================================

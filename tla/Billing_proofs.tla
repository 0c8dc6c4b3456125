--------------------------- MODULE Billing_proofs ---------------------------
(***************************************************************************)
(* Proofs about Billing: the types with what a worker holds at each step,  *)
(* then that one card stays the default, and that account and mirror       *)
(* follow what Stripe said last. Whatever a worker has read may be old     *)
(* when it writes; the invariants say how old it can be.                   *)
(***************************************************************************)
EXTENDS Billing, SequenceTheorems, NaturalsInduction, WellFoundedInduction, TLAPS

\* A nonempty set of numbers has a least one.
LEMMA LeastNumber ==
    ASSUME NEW T \in SUBSET Nat, T # {}
    PROVE  \E x \in T : \A y \in T : x <= y
<1>1. IsWellFoundedOn(OpToRel(<, Nat), Nat)  BY NatLessThanWellFounded
<1>2. PICK x \in T : \A y \in T : <<y, x>> \notin OpToRel(<, Nat)
  <2> HIDE DEF OpToRel
  <2> QED  BY <1>1, WFMin
<1>3. \A y \in T : ~(y < x)  BY <1>2 DEF OpToRel
<1> QED  BY <1>3
\* A nonempty set of numbers up to n has a greatest one.
LEMMA GreatestNumber ==
    ASSUME NEW n \in Nat, NEW T \in SUBSET (1..n), T # {}
    PROVE  \E x \in T : \A y \in T : y <= x
<1> DEFINE D == {n - x : x \in T}
<1>a. \A x \in T : x \in 1..n /\ n - x \in Nat  OBVIOUS
<1>1. D \in SUBSET Nat /\ D # {}
  <2>1. \A d \in D : d \in Nat  BY <1>a
  <2>2. PICK x \in T : TRUE  OBVIOUS
  <2>3. n - x \in D  BY <2>2
  <2> QED  BY <2>1, <2>3
<1>2. PICK d \in D : \A e \in D : d <= e
  <2> HIDE DEF D
  <2> QED  BY <1>1, LeastNumber
<1>3. PICK x \in T : d = n - x  BY <1>2
<1>4. ASSUME NEW y \in T PROVE y <= x
  <2>1. n - x <= n - y  BY <1>2, <1>3
  <2> QED  BY <2>1
<1> QED  BY <1>4

Jobs(n) == [pc : Steps, ask : Asks, ev : 0..n, sub : Subs \cup {None}, saw : BOOLEAN,
            cleared : SUBSET (1..MaxRows), snap : Account, ver : 0..n]

\* What the work in hand says of the event it is about, and of the session.
Handling == {"look", "attach", "update", "save", "clear", "insert", "mark"}
WorkFits(j) ==
    /\ j.pc \in Handling => j.ask = "event"
    /\ j.pc \in Handling \cup {"refresh", "sync", "called"} => j.ev \in 1..Len(events)
    /\ j.pc = "attach" => events[j.ev].kind \in {"subscription", "checkout"}
    /\ j.pc \in {"update", "refresh", "sync", "called"} => events[j.ev].kind = "subscription"
    /\ j.pc \in {"clear", "insert"} => events[j.ev].kind = "card"
    /\ j.pc = "called" => /\ j.ask \in {"change", "cancel"}
                          /\ j.ask = "cancel" => events[j.ev].cancel
    /\ j.pc = "customer" => j.sub \in Subs /\ session[j.sub] # NoSession
WorkOK == \A w \in Workers : WorkFits(job[w])

SessionsOK ==
    /\ \A s \in Subs : \/ session[s] = NoSession
                       \/ session[s].cust \in Customers /\ session[s].price \in Prices
    /\ \A i \in 1..Len(events) :
           events[i].kind = "subscription" => session[events[i].sub].open /\ events[i].until >= 1

\* The ends of periods that Stripe has announced.
Announced == {events[i].until : i \in SubEvents}
PeriodsOK ==
    /\ account.status = "TRIALING" => account.trialEnd = 1 \/ account.trialEnd \in Announced
    /\ account.status = "ACTIVE" => account.periodEnd \in Announced

BillingTypes == TypeOK /\ WorkOK /\ SessionsOK /\ PeriodsOK

-----------------------------------------------------------------------------
\* Events are only appended, and a session stays what it has become.
EventsGrow ==
    /\ Len(events) \in Nat /\ Len(events') \in Nat /\ Len(events) <= Len(events')
    /\ \A i \in 1..Len(events) : events'[i] = events[i]
Grows ==
    /\ EventsGrow
    /\ \A s \in Subs : session[s] # NoSession => session'[s] # NoSession
    /\ \A s \in Subs : session[s].open => session'[s].open

LEMMA BillingBounds ==
    ASSUME BillingTypes
    PROVE  /\ events \in Seq(Event) /\ Len(events) \in Nat /\ Len(events) <= MaxEvents
           /\ \A i \in 1..Len(events) : events[i] \in Event
           /\ MaxTime \in Nat /\ MaxRows \in Nat /\ MaxFaults \in Nat /\ now \in Nat /\ rows \in Nat
           /\ None \notin Subs /\ None \notin Customers /\ None \notin Prices
           /\ job \in [Workers -> Jobs(Len(events))]
<1>1. events \in Seq(Event) /\ Len(events) <= MaxEvents  BY DEF BillingTypes, TypeOK
<1>2. Len(events) \in Nat  BY <1>1, LenProperties
<1>3. \A i \in 1..Len(events) : events[i] \in Event  BY <1>1, ElementOfSeq
<1>4. job \in [Workers -> Jobs(Len(events))]  BY DEF BillingTypes, TypeOK, Jobs
<1>5. now \in Nat /\ rows \in Nat /\ MaxTime \in Nat /\ MaxRows \in Nat /\ MaxFaults \in Nat
    BY BillingAssumption DEF BillingTypes, TypeOK
<1> QED  BY <1>1, <1>2, <1>3, <1>4, <1>5, BillingAssumption

\* What kind of event has which fields.
LEMMA EventKinds ==
    ASSUME NEW e \in Event
    PROVE  /\ e.kind = "subscription" => e \in SubEvent
           /\ e.kind \in {"subscription", "checkout"} => e.cust \in Customers /\ e.sub \in Subs
           /\ e.kind = "card" => e.cust \in Customers /\ e.card \in Cards
           /\ e.kind = "invoice" => e.cust \in Customers /\ e.status \in {"open", "paid", "void"}
           /\ e.kind \in {"subscription", "checkout", "card", "invoice", "intent"}
BY DEF Event, SubEvent

LEMMA JobFields ==
    ASSUME NEW n \in Nat, NEW j \in Jobs(n)
    PROVE  /\ j.pc \in Steps /\ j.ask \in Asks /\ j.ev \in 0..n /\ j.sub \in Subs \cup {None}
           /\ j.saw \in BOOLEAN /\ j.cleared \subseteq 1..MaxRows /\ j.snap \in Account
           /\ j.ver \in 0..n
           /\ \A m \in Nat : n <= m => j \in Jobs(m)
           /\ \A pc \in Steps : [j EXCEPT !.pc = pc] \in Jobs(n)
<1>1. ASSUME NEW m \in Nat, n <= m PROVE j \in Jobs(m)
  <2>1. \A i \in 0..n : i \in 0..m  BY <1>1
  <2>2. j.ev \in 0..m /\ j.ver \in 0..m  BY <2>1 DEF Jobs
  <2> QED  BY <2>2 DEF Jobs
<1>2. \A pc \in Steps : [j EXCEPT !.pc = pc] \in Jobs(n)  BY DEF Jobs
<1> QED  BY <1>1, <1>2 DEF Jobs

LEMMA NoAccountTyped == NoAccount \in Account
<1>1. FALSE \in BOOLEAN /\ NoTime \in Nat  BY DEF NoTime
<1>2. \A b \in BOOLEAN, t \in Nat :
        [cust |-> None, sub |-> None, status |-> "TRIALING", cancel |-> b,
         price |-> None, trialEnd |-> t, periodEnd |-> t] \in Account
    BY DEF Account, BillingStatus
<1> QED  BY <1>1, <1>2 DEF NoAccount

LEMMA IdleTyped ==
    ASSUME NEW n \in Nat
    PROVE  Idle \in Jobs(n)
<1>1. FALSE \in BOOLEAN /\ 0 \in 0..n /\ {} \in SUBSET (1..MaxRows)  OBVIOUS
<1>2. \A b \in BOOLEAN, i \in 0..n, c \in SUBSET (1..MaxRows), a \in Account :
        [pc |-> "idle", ask |-> "none", ev |-> i, sub |-> None, saw |-> b,
         cleared |-> c, snap |-> a, ver |-> i] \in Jobs(n)
    BY DEF Jobs, Steps, Asks
<1> QED  BY <1>1, <1>2, NoAccountTyped DEF Idle

\* The work of the others goes on as before.
LEMMA WorkerMoves ==
    ASSUME BillingTypes, Grows,
           NEW w \in Workers, NEW row \in Jobs(Len(events')), WorkFits(row)',
           job' = [job EXCEPT ![w] = row]
    PROVE  job' \in [Workers -> Jobs(Len(events'))] /\ WorkOK'
<1> USE BillingBounds
<1>1. \A v \in Workers : job[v] \in Jobs(Len(events'))  BY JobFields DEF Grows, EventsGrow
<1>2. job' \in [Workers -> Jobs(Len(events'))]  BY <1>1
<1>3. ASSUME NEW v \in Workers, v # w PROVE WorkFits(job[v])'
  <2>1. job'[v] = job[v]  BY <1>3
  <2>2. WorkFits(job[v])  BY DEF BillingTypes, WorkOK
  <2>3. job[v].ev \in 1..Len(events) => job[v].ev \in 1..Len(events')
                                         /\ events'[job[v].ev] = events[job[v].ev]
    BY DEF Grows, EventsGrow
  <2> QED  BY <2>1, <2>2, <2>3 DEF WorkFits, Grows, EventsGrow, Handling
<1>4. job'[w] = row  OBVIOUS
<1>5. WorkFits(job[w])'  BY <1>4 DEF WorkFits
<1> QED  BY <1>2, <1>3, <1>5 DEF WorkOK

\* The types of all but the work and the events.
RestOK ==
    /\ now \in 1..MaxTime /\ account \in Account /\ org \in Account
    /\ invoice \in InvoiceStatus \cup {None}
    /\ cards \subseteq Card /\ rows \in 0..MaxRows
    /\ owed \subseteq 1..Len(events) /\ marked \subseteq 1..Len(events)
    /\ applied \subseteq 1..Len(events)
    /\ version \in [account : 0..Len(events), org : 0..Len(events)]
    /\ overtaken \in BOOLEAN /\ overlap \in BOOLEAN /\ faults \in 0..MaxFaults

Sessions == [Subs -> [cust : Customers \cup {None}, price : Prices \cup {None}, open : BOOLEAN]]

LEMMA TypesSplit ==
    TypeOK <=> /\ RestOK /\ session \in Sessions
               /\ events \in Seq(Event) /\ Len(events) <= MaxEvents
               /\ job \in [Workers -> Jobs(Len(events))]
BY Zenon DEF TypeOK, RestOK, Jobs, Sessions

\* A step of one worker, when Stripe and its sessions stay as they are.
LEMMA WorkerStep ==
    ASSUME BillingTypes, UNCHANGED stripe,
           NEW w \in Workers, NEW row \in Jobs(Len(events)), WorkFits(row),
           job' = [job EXCEPT ![w] = row],
           RestOK', PeriodsOK'
    PROVE  BillingTypes'
<1> USE BillingBounds
<1>1. session' = session /\ events' = events  BY DEF stripe
<1>2. Grows  BY <1>1 DEF Grows, EventsGrow
<1>3. WorkFits(row)'  BY <1>1 DEF WorkFits
<1>4. job' \in [Workers -> Jobs(Len(events'))] /\ WorkOK'  BY <1>1, <1>2, <1>3, WorkerMoves
<1>5. (events \in Seq(Event) /\ Len(events) <= MaxEvents)'  BY <1>1
<1>6. session' \in Sessions  BY <1>1, TypesSplit DEF BillingTypes
<1>7. TypeOK'  BY Zenon, <1>4, <1>5, <1>6 DEF TypeOK, RestOK, Jobs, Sessions
<1>8. SessionsOK'  BY <1>1 DEF BillingTypes, SessionsOK
<1> QED  BY <1>4, <1>7, <1>8 DEF BillingTypes

LEMMA PeriodsKeep ==
    ASSUME BillingTypes, Grows, account' = account
    PROVE  PeriodsOK'
<1>1. \A x \in Announced : x \in Announced'  BY DEF Announced, SubEvents, Grows, EventsGrow
<1> QED  BY <1>1 DEF BillingTypes, PeriodsOK

LEMMA Emitted ==
    ASSUME BillingTypes, NEW e \in Event, Emit(e), session' = session
    PROVE  /\ Grows /\ events' \in Seq(Event)
           /\ Len(events') = Len(events) + 1 /\ Len(events') <= MaxEvents
           /\ events'[Len(events) + 1] = e
           /\ owed' = owed \cup {Len(events) + 1}
<1> USE BillingBounds, BillingAssumption
<1>1. events' = Append(events, e) /\ Len(events) < MaxEvents
        /\ owed' = owed \cup {Len(events) + 1}  BY DEF Emit
<1>2. /\ events' \in Seq(Event) /\ Len(events') = Len(events) + 1
      /\ \A i \in 1..Len(events) : events'[i] = events[i]
      /\ events'[Len(events) + 1] = e
    BY <1>1, AppendProperties
<1> QED  BY <1>1, <1>2 DEF Grows, EventsGrow

\* What Stripe emits is about a customer with an open session.
LEMMA EmitStep ==
    ASSUME BillingTypes, NEW e \in Event, Emit(e),
           e.kind = "subscription" => session[e.sub].open /\ e.until >= 1,
           UNCHANGED <<now, account, org, invoice, cards, rows, session, marked, ghosts, faults>>,
           job' \in [Workers -> Jobs(Len(events'))], WorkOK'
    PROVE  BillingTypes'
<1> USE BillingBounds
<1>1. /\ Grows /\ events' \in Seq(Event)
      /\ Len(events') = Len(events) + 1 /\ Len(events') <= MaxEvents
      /\ events'[Len(events) + 1] = e
      /\ owed' = owed \cup {Len(events) + 1}
    BY Emitted
<1>2. RestOK /\ session \in Sessions  BY TypesSplit DEF BillingTypes
<1>3. RestOK'
  <2>1. UNCHANGED <<now, account, org, invoice, cards, rows, marked, applied, version,
                    overtaken, overlap, faults>>  BY DEF ghosts
  <2>3. \A I \in SUBSET (1..Len(events)) : I \subseteq 1..Len(events')  BY <1>1
  <2>2. owed' \subseteq 1..Len(events')
    <3>1. owed \subseteq 1..Len(events')  BY <1>2, <2>3 DEF RestOK
    <3>2. Len(events) + 1 \in 1..Len(events')  BY <1>1
    <3> QED  BY <1>1, <3>1, <3>2
  <2>4. marked' \subseteq 1..Len(events') /\ applied' \subseteq 1..Len(events')
    BY <1>2, <2>1, <2>3 DEF RestOK
  <2>5. version' \in [account : 0..Len(events'), org : 0..Len(events')]
    <3>1. version.account \in 0..Len(events') /\ version.org \in 0..Len(events')
      BY <1>1, <1>2 DEF RestOK
    <3> QED  BY <1>2, <2>1, <3>1 DEF RestOK
  <2> QED  BY <1>2, <2>1, <2>2, <2>4, <2>5 DEF RestOK
<1>4. TypeOK'
  <2>1. session' \in Sessions  BY <1>2
  <2> QED  BY Zenon, <1>1, <1>3, <2>1 DEF TypeOK, RestOK, Jobs, Sessions
<1>5. SessionsOK'
  <2>1. SessionsOK  BY DEF BillingTypes
  <2>2. ASSUME NEW i \in 1..Len(events'), events'[i].kind = "subscription"
        PROVE  session[events'[i].sub].open /\ events'[i].until >= 1
    <3>1. CASE i \in 1..Len(events)
      BY <1>1, <2>1, <2>2, <3>1 DEF SessionsOK, Grows, EventsGrow
    <3>2. CASE i = Len(events) + 1  BY <1>1, <2>2, <3>2
    <3> QED  BY <1>1, <3>1, <3>2
  <2> QED  BY <2>1, <2>2 DEF SessionsOK
<1>6. PeriodsOK'  BY <1>1, PeriodsKeep
<1> QED  BY <1>4, <1>5, <1>6 DEF BillingTypes

\* With the work of everybody as it is.
LEMMA WorkStays ==
    ASSUME BillingTypes, Grows, job' = job
    PROVE  job' \in [Workers -> Jobs(Len(events'))] /\ WorkOK'
<1> USE BillingBounds
<1>1. \A v \in Workers : job[v] \in Jobs(Len(events'))  BY JobFields DEF Grows, EventsGrow
<1>2. ASSUME NEW v \in Workers PROVE WorkFits(job[v])'
  <2>2. WorkFits(job[v])  BY DEF BillingTypes, WorkOK
  <2>3. job[v].ev \in 1..Len(events) => job[v].ev \in 1..Len(events')
                                         /\ events'[job[v].ev] = events[job[v].ev]
    BY DEF Grows, EventsGrow
  <2> QED  BY <2>2, <2>3 DEF WorkFits, Grows, EventsGrow, Handling
<1> QED  BY <1>1, <1>2 DEF WorkOK

-----------------------------------------------------------------------------
\* A subscription that Stripe has told of has a state it told last.
LEMMA NewestIs ==
    ASSUME NEW n \in Nat, NEW I \in SUBSET (1..n), I # {}
    PROVE  Newest(I) \in I /\ \A j \in I : j <= Newest(I)
<1>1. \E i \in I : \A j \in I : j <= i  BY GreatestNumber
<1> QED  BY <1>1 DEF Newest

LEMMA CurrentIs ==
    ASSUME BillingTypes, NEW s, EventsOf(s) # {}
    PROVE  /\ Current(s) \in SubEvent /\ Current(s).sub = s
           /\ session[s].open /\ Current(s).until >= 1
           /\ \E i \in EventsOf(s) : Current(s) = events[i]
<1> USE BillingBounds
<1>1. EventsOf(s) \in SUBSET (1..Len(events))  BY DEF EventsOf
<1>2. Newest(EventsOf(s)) \in EventsOf(s)  BY <1>1, NewestIs
<1>3. PICK i \in EventsOf(s) : i = Newest(EventsOf(s))  BY <1>2
<1>4. Current(s) = events[i]  BY <1>3 DEF Current
<1>5. i \in 1..Len(events) /\ events[i].kind = "subscription" /\ events[i].sub = s
    BY DEF EventsOf
<1>6. events[i] \in SubEvent  BY <1>5, EventKinds
<1>7. session[s].open /\ events[i].until >= 1  BY <1>5 DEF BillingTypes, SessionsOK
<1> QED  BY <1>4, <1>5, <1>6, <1>7

\* The customers and prices of open sessions.
LEMMA OpenSession ==
    ASSUME BillingTypes, NEW s \in Subs, session[s].open
    PROVE  session[s].cust \in Customers /\ session[s].price \in Prices
<1>1. ~NoSession.open  BY DEF NoSession
<1> QED  BY <1>1 DEF BillingTypes, SessionsOK

\* Customers with an open session, or with a subscription.
KnownCustomer(cust) ==
    \/ \E s \in Subs : session[s].open /\ session[s].cust = cust
    \/ \E i \in SubEvents : events[i].cust = cust

\* What Stripe says of its own accord.
LEMMA StripeSays ==
    ASSUME BillingTypes, Stripe
    PROVE  \E e \in Event : /\ Emit(e)
                            /\ e.kind = "subscription" => session[e.sub].open /\ e.until >= 1
                            /\ e.kind # "intent" => KnownCustomer(e.cust)
<1> DEFINE Right(e) == /\ e \in Event /\ Emit(e)
                       /\ e.kind = "subscription" => session[e.sub].open /\ e.until >= 1
                       /\ e.kind # "intent" => KnownCustomer(e.cust)
<1> USE BillingBounds
<1>1. ASSUME NEW s \in Subs, NEW status \in {"active", "trialing"}, Subscribe(s, status)
      PROVE  \E e \in Event : Right(e)
  <2> DEFINE e == [kind |-> "subscription", cust |-> session[s].cust, sub |-> s,
                   status |-> status, cancel |-> FALSE, price |-> session[s].price, until |-> now]
  <2>1. session[s].open /\ Emit(e)  BY <1>1 DEF Subscribe
  <2>2. session[s].cust \in Customers /\ session[s].price \in Prices  BY <2>1, OpenSession
  <2>3. now \in Nat /\ now >= 1
    <3>1. now \in 1..MaxTime  BY DEF BillingTypes, TypeOK
    <3> QED  BY <3>1
  <2>4. \A b \in BOOLEAN, t \in Nat :
           [kind |-> "subscription", cust |-> session[s].cust, sub |-> s, status |-> status,
            cancel |-> b, price |-> session[s].price, until |-> t] \in SubEvent
    BY <2>2 DEF SubEvent, StripeStatus
  <2>5. FALSE \in BOOLEAN  OBVIOUS
  <2>6. e \in SubEvent  BY <2>3, <2>4, <2>5
  <2>7. e \in Event  BY <2>6 DEF Event
  <2>8. e.sub = s /\ e.until = now /\ e.cust = session[s].cust  OBVIOUS
  <2> HIDE DEF e
  <2> QED  BY <2>1, <2>3, <2>7, <2>8 DEF KnownCustomer
<1>2. ASSUME NEW s \in Subs, CheckoutCompletes(s)
      PROVE  \E e \in Event : Right(e)
  <2> DEFINE e == [kind |-> "checkout", cust |-> session[s].cust, sub |-> s]
  <2>1. EventsOf(s) # {} /\ Emit(e)  BY <1>2 DEF CheckoutCompletes
  <2>2. session[s].open /\ session[s].cust \in Customers  BY <2>1, CurrentIs, OpenSession
  <2>3. e \in Event  BY <2>2 DEF Event
  <2>4. e.kind = "checkout" /\ e.cust = session[s].cust  OBVIOUS
  <2> HIDE DEF e
  <2> QED  BY <2>1, <2>2, <2>3, <2>4 DEF KnownCustomer
<1>3. ASSUME NEW s \in Subs, SubscriptionMoves(s)
      PROVE  \E e \in Event : Right(e)
  <2>1. EventsOf(s) # {}  BY <1>3 DEF SubscriptionMoves, Lives
  <2>2. Current(s) \in SubEvent /\ Current(s).sub = s /\ session[s].open
        /\ Current(s).until >= 1  BY <2>1, CurrentIs
  <2>3. now \in Nat /\ now >= 1
    <3>1. now \in 1..MaxTime  BY DEF BillingTypes, TypeOK
    <3> QED  BY <3>1
  <2>4. PICK e \in {[Current(s) EXCEPT !.status = "active", !.until = now],
                    [Current(s) EXCEPT !.status = "past_due"],
                    [Current(s) EXCEPT !.status = "canceled"]} : Emit(e)
    BY <1>3 DEF SubscriptionMoves
  <2>5. PICK c \in SubEvent : c = Current(s)  BY <2>2
  <2>a. \A st \in StripeStatus : [c EXCEPT !.status = st] \in SubEvent  BY DEF SubEvent
  <2>b. \A t \in Nat : [c EXCEPT !.status = "active", !.until = t] \in SubEvent
    BY DEF SubEvent, StripeStatus
  <2>6. e \in SubEvent /\ e.sub = s /\ e.until >= 1 /\ e.cust = c.cust
    <3>1. CASE e = [c EXCEPT !.status = "active", !.until = now]
      BY <2>2, <2>3, <2>5, <2>b, <3>1 DEF SubEvent
    <3>2. CASE e = [c EXCEPT !.status = "past_due"]
      BY <2>2, <2>5, <2>a, <3>2 DEF SubEvent, StripeStatus
    <3>3. CASE e = [c EXCEPT !.status = "canceled"]
      BY <2>2, <2>5, <2>a, <3>3 DEF SubEvent, StripeStatus
    <3> QED  BY <2>4, <2>5, <3>1, <3>2, <3>3
  <2>7. e \in Event  BY <2>6 DEF Event
  <2>8. KnownCustomer(e.cust)
    <3>1. PICK i \in EventsOf(s) : c = events[i]  BY <2>1, <2>5, CurrentIs
    <3>2. i \in SubEvents  BY <3>1 DEF EventsOf, SubEvents
    <3> QED  BY <2>6, <3>1, <3>2 DEF KnownCustomer
  <2> QED  BY <2>2, <2>4, <2>6, <2>7, <2>8
<1>4. ASSUME NEW cust \in Customers, NEW c \in Cards, CardAttached(c, cust)
      PROVE  \E e \in Event : Right(e)
  <2> DEFINE e == [kind |-> "card", cust |-> cust, card |-> c]
  <2>1. Emit(e) /\ KnownCustomer(cust)  BY <1>4 DEF CardAttached, KnownCustomer
  <2>2. e \in Event /\ e.kind = "card" /\ e.cust = cust  BY DEF Event
  <2> HIDE DEF e
  <2> QED  BY <2>1, <2>2
<1>5. ASSUME NEW cust \in Customers, NEW status \in {"open", "paid", "void"},
             InvoiceMoves(cust, status)
      PROVE  \E e \in Event : Right(e)
  <2> DEFINE e == [kind |-> "invoice", cust |-> cust, status |-> status]
  <2>1. Emit(e) /\ KnownCustomer(cust)  BY <1>5 DEF InvoiceMoves, KnownCustomer
  <2>2. e \in Event /\ e.kind = "invoice" /\ e.cust = cust  BY DEF Event
  <2> HIDE DEF e
  <2> QED  BY <2>1, <2>2
<1>6. ASSUME NEW ok \in BOOLEAN, IntentMoves(ok)
      PROVE  \E e \in Event : Right(e)
  <2> DEFINE e == [kind |-> "intent", ok |-> ok]
  <2>1. Emit(e)  BY <1>6 DEF IntentMoves
  <2>2. e \in Event /\ e.kind = "intent"  BY DEF Event
  <2> HIDE DEF e
  <2> QED  BY <2>1, <2>2
<1> HIDE DEF Right
<1>7. \E e \in Event : Right(e)  BY <1>1, <1>2, <1>3, <1>4, <1>5, <1>6 DEF Stripe
<1> QED  BY <1>7 DEF Right

\* What Stripe says when a route has asked it for something.
LEMMA StripeAnswers ==
    ASSUME BillingTypes, NEW w \in Workers,
           CancelPlan(w) \/ \E price \in Prices : ChangePlan(w, price)
    PROVE  \E e \in SubEvent, ask \in {"change", "cancel"} :
               /\ Emit(e) /\ session[e.sub].open /\ e.until >= 1
               /\ \E i \in SubEvents : e.cust = events[i].cust
               /\ ask = "cancel" => e.cancel
               /\ job' = [job EXCEPT ![w] = [Idle EXCEPT !.pc = "called", !.ask = ask,
                                                         !.ev = Len(events) + 1]]
<1> DEFINE s == account.sub
<1> USE BillingBounds
<1>1. EventsOf(s) # {}  BY DEF CancelPlan, ChangePlan, Ask, AtStripe, Lives
<1>2. PICK i \in EventsOf(s) : Current(s) = events[i]  BY <1>1, CurrentIs
<1>3. i \in SubEvents  BY <1>2 DEF EventsOf, SubEvents
<1>4. Current(s) \in SubEvent /\ Current(s).sub = s /\ session[s].open /\ Current(s).until >= 1
    BY <1>1, CurrentIs
<1>5. CASE CancelPlan(w)
  <2> DEFINE e == WithCancel(s)
  <2>1. Emit(e)  BY <1>5 DEF CancelPlan, Ask, AtStripe
  <2>2. job' = [job EXCEPT ![w] = [Idle EXCEPT !.pc = "called", !.ask = "cancel",
                                               !.ev = Len(events) + 1]]
    BY <1>5 DEF CancelPlan, Ask
  <2>3. e = [Current(s) EXCEPT !.cancel = TRUE]  BY DEF WithCancel
  <2>4. e \in SubEvent /\ e.sub = s /\ e.until = Current(s).until /\ e.cust = Current(s).cust
        /\ e.cancel
    <3>1. TRUE \in BOOLEAN  OBVIOUS
    <3>2. \A b \in BOOLEAN : [Current(s) EXCEPT !.cancel = b] \in SubEvent  BY <1>4 DEF SubEvent
    <3>3. e \in SubEvent  BY <2>3, <3>1, <3>2
    <3>4. e.sub = s /\ e.until = Current(s).until /\ e.cust = Current(s).cust
      BY <1>4, <2>3 DEF SubEvent
    <3>5. e.cancel  BY Zenon, <1>4, <2>3 DEF SubEvent
    <3> HIDE DEF e
    <3> QED  BY <3>3, <3>4, <3>5
  <2> HIDE DEF e
  <2> QED  BY <1>2, <1>3, <1>4, <2>1, <2>2, <2>4
<1>6. ASSUME NEW price \in Prices, ChangePlan(w, price)
      PROVE  \E e \in SubEvent, ask \in {"change", "cancel"} :
               /\ Emit(e) /\ session[e.sub].open /\ e.until >= 1
               /\ \E k \in SubEvents : e.cust = events[k].cust
               /\ ask = "cancel" => e.cancel
               /\ job' = [job EXCEPT ![w] = [Idle EXCEPT !.pc = "called", !.ask = ask,
                                                         !.ev = Len(events) + 1]]
  <2> DEFINE e == WithPrice(s, price)
  <2>1. Emit(e)  BY <1>6 DEF ChangePlan, Ask, AtStripe
  <2>2. job' = [job EXCEPT ![w] = [Idle EXCEPT !.pc = "called", !.ask = "change",
                                               !.ev = Len(events) + 1]]
    BY <1>6 DEF ChangePlan, Ask
  <2>3. e = [Current(s) EXCEPT !.price = price]  BY DEF WithPrice
  <2>4. e \in SubEvent /\ e.sub = s /\ e.until = Current(s).until /\ e.cust = Current(s).cust
    BY <1>4, <2>3 DEF SubEvent
  <2> HIDE DEF e
  <2> QED  BY <1>2, <1>3, <1>4, <2>1, <2>2, <2>4
<1> QED  BY <1>5, <1>6

-----------------------------------------------------------------------------
\* A session is made, or opened.
LEMMA SessionStep ==
    ASSUME BillingTypes, events' = events, NEW s \in Subs,
           NEW cust \in Customers, NEW price \in Prices, NEW open \in BOOLEAN,
           session' = [session EXCEPT ![s] = [cust |-> cust, price |-> price, open |-> open]],
           session[s].open => open
    PROVE  session' \in Sessions /\ SessionsOK' /\ Grows
<1> USE BillingBounds
<1> DEFINE new == [cust |-> cust, price |-> price, open |-> open]
<1>1. session \in Sessions  BY TypesSplit DEF BillingTypes
<1>2. new \in [cust : Customers \cup {None}, price : Prices \cup {None}, open : BOOLEAN]
    OBVIOUS
<1>3. new.cust = cust /\ new.price = price /\ new.open = open  OBVIOUS
<1>4. new # NoSession  BY <1>3 DEF NoSession
<1> HIDE DEF new
<1>5. session' = [session EXCEPT ![s] = new]  BY DEF new
<1>6. session' \in Sessions  BY <1>1, <1>2, <1>5 DEF Sessions
<1>7. \A t \in Subs : session'[t] = IF t = s THEN new ELSE session[t]
    BY <1>1, <1>5 DEF Sessions
<1>8. Grows  BY <1>3, <1>4, <1>7 DEF Grows, EventsGrow
<1>9. SessionsOK'
  <2>1. SessionsOK  BY DEF BillingTypes
  <2>2. ASSUME NEW i \in 1..Len(events), events[i].kind = "subscription"
        PROVE  session'[events[i].sub].open
    <3>1. events[i].sub \in Subs  BY <2>2, EventKinds
    <3> QED  BY <1>3, <1>7, <2>1, <2>2, <3>1 DEF SessionsOK
  <2> QED  BY <1>3, <1>7, <2>1, <2>2 DEF SessionsOK
<1> QED  BY <1>6, <1>8, <1>9

\* ... by an action that leaves the rest alone.
LEMMA SessionTypes ==
    ASSUME BillingTypes, session' \in Sessions, SessionsOK', Grows, events' = events,
           RestOK', account'.status = account.status, account'.trialEnd = account.trialEnd,
           account'.periodEnd = account.periodEnd,
           job' \in [Workers -> Jobs(Len(events'))], WorkOK'
    PROVE  BillingTypes'
<1> USE BillingBounds
<1>1. TypeOK'
  <2>1. (events \in Seq(Event) /\ Len(events) <= MaxEvents)'  OBVIOUS
  <2> QED  BY Zenon, <2>1 DEF TypeOK, RestOK, Jobs, Sessions
<1>2. PeriodsOK'
  <2>1. \A x \in Announced : x \in Announced'  BY DEF Announced, SubEvents, Grows, EventsGrow
  <2> QED  BY <2>1 DEF BillingTypes, PeriodsOK
<1> QED  BY <1>1, <1>2 DEF BillingTypes

LEMMA FreshOnes ==
    /\ (\E s \in Subs : session[s] = NoSession) =>
            FreshSub \in Subs /\ session[FreshSub] = NoSession
    /\ (\E c \in Customers : \A s \in Subs : session[s].cust # c) => FreshCustomer \in Customers
BY DEF FreshSub, FreshCustomer

LEMMA CheckoutTypes ==
    ASSUME BillingTypes, NEW price \in Prices, Checkout(price)
    PROVE  BillingTypes'
<1> USE BillingBounds
<1>1. RestOK  BY TypesSplit DEF BillingTypes
<1>2. FreshSub \in Subs /\ ~session[FreshSub].open
  <2>1. FreshSub \in Subs /\ session[FreshSub] = NoSession  BY FreshOnes DEF Checkout
  <2>2. ~NoSession.open  BY DEF NoSession
  <2> QED  BY Zenon, <2>1, <2>2
<1>3. account.cust \in Customers  BY <1>1 DEF Checkout, RestOK, Account
<1>4. TRUE \in BOOLEAN  OBVIOUS
<1>5. PICK s \in Subs : s = FreshSub  BY <1>2
<1>6. PICK cust \in Customers : cust = account.cust  BY <1>3
<1>7. \E open \in BOOLEAN :
        session' = [session EXCEPT ![s] = [cust |-> cust, price |-> price, open |-> open]]
    BY <1>4, <1>5, <1>6 DEF Checkout
<1>8. events' = events  BY DEF Checkout
<1>9. session' \in Sessions /\ SessionsOK' /\ Grows  BY <1>2, <1>5, <1>7, <1>8, SessionStep
<1>10. job' \in [Workers -> Jobs(Len(events'))] /\ WorkOK'  BY <1>9, WorkStays DEF Checkout
<1>11. RestOK'  BY <1>1 DEF RestOK, Checkout, ghosts
<1> QED  BY <1>8, <1>9, <1>10, <1>11, SessionTypes DEF Checkout

LEMMA NewCustomerTypes ==
    ASSUME BillingTypes, NEW w \in Workers, NEW price \in Prices, CheckoutNewCustomer(w, price)
    PROVE  BillingTypes'
<1> USE BillingBounds
<1>1. RestOK  BY TypesSplit DEF BillingTypes
<1>2. FreshSub \in Subs /\ ~session[FreshSub].open
  <2>1. FreshSub \in Subs /\ session[FreshSub] = NoSession  BY FreshOnes DEF CheckoutNewCustomer
  <2>2. ~NoSession.open  BY DEF NoSession
  <2> QED  BY Zenon, <2>1, <2>2
<1>3. FreshCustomer \in Customers  BY FreshOnes DEF CheckoutNewCustomer
<1>4. FALSE \in BOOLEAN  OBVIOUS
<1>5. PICK s \in Subs : s = FreshSub  BY <1>2
<1>6. PICK cust \in Customers : cust = FreshCustomer  BY <1>3
<1>7. \E open \in BOOLEAN :
        session' = [session EXCEPT ![s] = [cust |-> cust, price |-> price, open |-> open]]
    BY <1>4, <1>5, <1>6 DEF CheckoutNewCustomer
<1>8. events' = events  BY DEF CheckoutNewCustomer
<1>9. session' \in Sessions /\ SessionsOK' /\ Grows  BY <1>2, <1>5, <1>7, <1>8, SessionStep
<1>10. PICK row \in Jobs(Len(events)) : /\ row.pc = "customer" /\ row.sub = s
                                        /\ job' = [job EXCEPT ![w] = row]
  <2> DEFINE row == [Idle EXCEPT !.pc = "customer", !.ask = "checkout", !.sub = FreshSub]
  <2>1. row = [Idle EXCEPT !.pc = "customer", !.ask = "checkout", !.sub = s]  BY <1>5
  <2>2. \A j \in Jobs(Len(events)) :
          [j EXCEPT !.pc = "customer", !.ask = "checkout", !.sub = s] \in Jobs(Len(events))
    BY DEF Jobs, Steps, Asks
  <2>3. row.pc = "customer" /\ row.sub = s  BY <2>1 DEF Idle
  <2>4. job' = [job EXCEPT ![w] = row]  BY DEF CheckoutNewCustomer
  <2>5. row \in Jobs(Len(events))  BY <2>1, <2>2, IdleTyped
  <2> HIDE DEF row
  <2> QED  BY <2>3, <2>4, <2>5
<1>12. session'[s] # NoSession
  <2>1. PICK open \in BOOLEAN :
          session' = [session EXCEPT ![s] = [cust |-> cust, price |-> price, open |-> open]]
    BY <1>7
  <2>2. session \in Sessions  BY TypesSplit DEF BillingTypes
  <2>3. session'[s].cust = cust  BY <2>1, <2>2 DEF Sessions
  <2> QED  BY <2>3 DEF NoSession
<1>13. WorkFits(row)'  BY <1>10, <1>12 DEF WorkFits, Handling
<1>14. job' \in [Workers -> Jobs(Len(events'))] /\ WorkOK'
    BY <1>8, <1>9, <1>10, <1>13, WorkerMoves
<1>15. RestOK'  BY <1>1 DEF RestOK, CheckoutNewCustomer, ghosts
<1> QED  BY <1>8, <1>9, <1>14, <1>15, SessionTypes DEF CheckoutNewCustomer

LEMMA IdleFits == WorkFits(Idle)
BY DEF WorkFits, Idle, Handling

LEMMA AttachCustomerTypes ==
    ASSUME BillingTypes, NEW w \in Workers, AttachCustomer(w)
    PROVE  BillingTypes'
<1> USE BillingBounds
<1>1. RestOK /\ session \in Sessions  BY TypesSplit DEF BillingTypes
<1>2. PICK s \in Subs : s = job[w].sub /\ session[s] # NoSession
    BY DEF AttachCustomer, BillingTypes, WorkOK, WorkFits
<1>3. session[s].cust \in Customers /\ session[s].price \in Prices
    BY <1>2 DEF BillingTypes, SessionsOK
<1>4. PICK cust \in Customers, price \in Prices, open \in BOOLEAN :
         session[s].cust = cust /\ session[s].price = price /\ open = TRUE
    BY <1>3
<1>5. session' = [session EXCEPT ![s] = [cust |-> cust, price |-> price, open |-> open]]
  <2>1. session' = [session EXCEPT ![s].open = TRUE]  BY <1>2 DEF AttachCustomer
  <2>2. session[s] = [cust |-> cust, price |-> price, open |-> session[s].open]
    BY <1>1, <1>4 DEF Sessions
  <2>4. \A o \in BOOLEAN, p \in BOOLEAN :
           [[cust |-> cust, price |-> price, open |-> o] EXCEPT !.open = p]
             = [cust |-> cust, price |-> price, open |-> p]
    OBVIOUS
  <2>5. session[s].open \in BOOLEAN  BY <1>1 DEF Sessions
  <2>3. [session[s] EXCEPT !.open = TRUE] = [cust |-> cust, price |-> price, open |-> TRUE]
    BY Zenon, <2>2, <2>4, <2>5
  <2> QED  BY Zenon, <1>1, <1>4, <2>1, <2>3 DEF Sessions
<1>6. events' = events  BY DEF AttachCustomer
<1>7. session' \in Sessions /\ SessionsOK' /\ Grows  BY <1>4, <1>5, <1>6, SessionStep
<1>8. account' = [account EXCEPT !.cust = cust, !.sub = None]  BY <1>2, <1>4 DEF AttachCustomer
<1>9. /\ account' \in Account /\ account'.status = account.status
      /\ account'.trialEnd = account.trialEnd /\ account'.periodEnd = account.periodEnd
    BY <1>1, <1>8 DEF RestOK, Account
<1>10. overtaken' \in BOOLEAN  BY Zenon, <1>1 DEF AttachCustomer, RestOK
<1>11. RestOK'
  <2>1. UNCHANGED <<now, org, invoice, cards, rows, events, owed, marked, applied, version,
                    overlap, faults>>  BY DEF AttachCustomer
  <2> QED  BY <1>1, <1>9, <1>10, <2>1 DEF RestOK
<1>12. job' \in [Workers -> Jobs(Len(events'))] /\ WorkOK'
  <2>1. job' = [job EXCEPT ![w] = Idle]  BY DEF AttachCustomer
  <2>2. WorkFits(Idle)'  BY DEF WorkFits, Idle, Handling
  <2>3. Idle \in Jobs(Len(events'))  BY <1>6, IdleTyped
  <2> QED  BY <1>7, <2>1, <2>2, <2>3, WorkerMoves
<1> QED  BY <1>6, <1>7, <1>9, <1>11, <1>12, SessionTypes

-----------------------------------------------------------------------------
\* A worker that goes on with what it has in hand.
LEMMA GoesTo ==
    ASSUME BillingTypes, NEW w \in Workers, NEW pc \in Steps, Goto(w, pc)
    PROVE  \E row \in Jobs(Len(events)) :
               /\ job' = [job EXCEPT ![w] = row]
               /\ row.pc = pc /\ row.ask = job[w].ask /\ row.ev = job[w].ev
               /\ row.sub = job[w].sub /\ row.cleared = job[w].cleared
               /\ row.snap = job[w].snap /\ row.ver = job[w].ver
<1> USE BillingBounds
<1>1. PICK j \in Jobs(Len(events)) : j = job[w]  OBVIOUS
<1>2. PICK row \in Jobs(Len(events)) : row = [j EXCEPT !.pc = pc]  BY JobFields
<1>3. job' = [job EXCEPT ![w] = row]  BY <1>1, <1>2 DEF Goto
<1>4. /\ row.pc = pc /\ row.ask = job[w].ask /\ row.ev = job[w].ev
      /\ row.sub = job[w].sub /\ row.cleared = job[w].cleared
      /\ row.snap = job[w].snap /\ row.ver = job[w].ver
    BY <1>1, <1>2 DEF Jobs
<1> QED  BY <1>3, <1>4

LEMMA Handles ==
    ASSUME BillingTypes, NEW w \in Workers, NEW i \in 1..Len(events), Handle(w, i)
    PROVE  \E row \in Jobs(Len(events)) :
               /\ job' = [job EXCEPT ![w] = row]
               /\ row.pc = "look" /\ row.ask = "event" /\ row.ev = i
<1> USE BillingBounds
<1>1. PICK j \in Jobs(Len(events)) : j = Idle  BY IdleTyped
<1>2. PICK row \in Jobs(Len(events)) : row = [j EXCEPT !.pc = "look", !.ask = "event", !.ev = i]
  <2>1. i \in 0..Len(events)  OBVIOUS
  <2>2. [j EXCEPT !.pc = "look", !.ask = "event", !.ev = i] \in Jobs(Len(events))
    BY <2>1 DEF Jobs, Steps, Asks
  <2> QED  BY <2>2
<1>3. job' = [job EXCEPT ![w] = row]  BY <1>1, <1>2 DEF Handle
<1>4. row.pc = "look" /\ row.ask = "event" /\ row.ev = i  BY <1>2 DEF Jobs
<1> QED  BY <1>3, <1>4

LEMMA NoWorkTypes ==
    ASSUME BillingTypes, UNCHANGED <<stripe, job, account>>, RestOK'
    PROVE  BillingTypes'
<1> USE BillingBounds
<1>1. session' = session /\ events' = events  BY DEF stripe
<1>2. Grows  BY <1>1 DEF Grows, EventsGrow
<1>3. job' \in [Workers -> Jobs(Len(events'))] /\ WorkOK'  BY <1>1, <1>2, WorkStays
<1>4. session \in Sessions  BY TypesSplit DEF BillingTypes
<1>5. SessionsOK'  BY <1>1 DEF BillingTypes, SessionsOK
<1> QED  BY <1>1, <1>2, <1>3, <1>4, <1>5, SessionTypes

\* Nothing but the work in hand and what Stripe is owed.
LEMMA OnlyWork ==
    ASSUME BillingTypes,
           UNCHANGED <<now, account, org, invoice, cards, rows, stripe, applied, version, overtaken>>,
           overlap' \in BOOLEAN, faults' \in 0..MaxFaults,
           owed' \subseteq 1..Len(events), marked' \subseteq 1..Len(events),
           NEW w \in Workers, NEW row \in Jobs(Len(events)), WorkFits(row),
           job' = [job EXCEPT ![w] = row]
    PROVE  BillingTypes'
<1>1. RestOK  BY TypesSplit DEF BillingTypes
<1>2. RestOK'  BY <1>1 DEF RestOK, stripe
<1>3. PeriodsOK'  BY DEF BillingTypes, PeriodsOK, Announced, SubEvents, stripe
<1> QED  BY <1>2, <1>3, WorkerStep

LEMMA FaultTyped ==
    ASSUME BillingTypes, Fault
    PROVE  faults' \in 0..MaxFaults
<1>1. faults \in 0..MaxFaults  BY DEF BillingTypes, TypeOK
<1> QED  BY <1>1, BillingBounds DEF Fault

-----------------------------------------------------------------------------
\* The types, step by step of the handlers and of the routes.
LEMMA DeliverTypes ==
    ASSUME BillingTypes, NEW w \in Workers, NEW i \in 1..Len(events),
           Deliver(w, i) \/ DeliverAgain(w, i)
    PROVE  BillingTypes'
<1>1. PICK row \in Jobs(Len(events)) : /\ job' = [job EXCEPT ![w] = row]
                                       /\ row.pc = "look" /\ row.ask = "event" /\ row.ev = i
    BY Handles DEF Deliver, DeliverAgain
<1>2. WorkFits(row)  BY <1>1 DEF WorkFits, Handling
<1>3. RestOK  BY TypesSplit DEF BillingTypes
<1>4. faults' \in 0..MaxFaults  BY <1>3, FaultTyped DEF Deliver, DeliverAgain, RestOK
<1>5. /\ UNCHANGED <<now, account, org, invoice, cards, rows, stripe, applied, version, overtaken>>
      /\ UNCHANGED <<overlap, owed, marked>>  BY DEF Deliver, DeliverAgain, ghosts
<1> QED  BY <1>1, <1>2, <1>3, <1>4, <1>5, OnlyWork DEF RestOK

LEMMA LookTypes ==
    ASSUME BillingTypes, NEW w \in Workers, Look(w)
    PROVE  BillingTypes'
<1> USE BillingBounds
<1>1. RestOK  BY TypesSplit DEF BillingTypes
<1>2. WorkFits(job[w]) /\ job[w].pc = "look"  BY DEF Look, BillingTypes, WorkOK
<1>3. job[w].ask = "event" /\ job[w].ev \in 1..Len(events)  BY <1>2 DEF WorkFits, Handling
<1>4. overlap' \in BOOLEAN
    BY Zenon, <1>1 DEF Look, LookSubscription, LookCheckout, LookCard, LookInvoice, LookIntent,
                       ghosts, RestOK
<1>5. ASSUME NEW row \in Jobs(Len(events)), WorkFits(row), job' = [job EXCEPT ![w] = row]
      PROVE  BillingTypes'
  <2>1. UNCHANGED <<now, account, org, invoice, cards, rows, stripe, applied, version, overtaken>>
    BY DEF Look, LookSubscription, LookCheckout, LookCard, LookInvoice, LookIntent, ghosts
  <2>2. UNCHANGED <<owed, marked, faults>>  BY DEF Look
  <2> QED  BY <1>1, <1>4, <1>5, <2>1, <2>2, OnlyWork DEF RestOK
<1>6. CASE LookSubscription(w) \/ LookCheckout(w)
  <2>1. Goto(w, "attach") \/ Goto(w, "mark")  BY <1>6 DEF LookSubscription, LookCheckout
  <2>2. PICK pc \in {"attach", "mark"} : Goto(w, pc)  BY <2>1
  <2>3. PICK row \in Jobs(Len(events)) :
          /\ job' = [job EXCEPT ![w] = row]
          /\ row.pc = pc /\ row.ask = job[w].ask /\ row.ev = job[w].ev
    BY <2>2, GoesTo DEF Steps
  <2>4. WorkFits(row)
    BY <1>3, <1>6, <2>3 DEF WorkFits, Handling, LookSubscription, LookCheckout, Evt
  <2> QED  BY <1>5, <2>3, <2>4
<1>7. CASE LookCard(w)
  <2>1. Goto(w, "clear") \/ Goto(w, "mark")  BY <1>7 DEF LookCard
  <2>2. PICK pc \in {"clear", "mark"} : Goto(w, pc)  BY <2>1
  <2>3. PICK row \in Jobs(Len(events)) :
          /\ job' = [job EXCEPT ![w] = row]
          /\ row.pc = pc /\ row.ask = job[w].ask /\ row.ev = job[w].ev
    BY <2>2, GoesTo DEF Steps
  <2>4. WorkFits(row)  BY <1>3, <1>7, <2>3 DEF WorkFits, Handling, LookCard, Evt
  <2> QED  BY <1>5, <2>3, <2>4
<1>8. CASE LookInvoice(w)
  <2>1. PICK pc \in {"save", "mark"}, saw \in BOOLEAN :
          job' = [job EXCEPT ![w].pc = pc, ![w].saw = saw]
    <3>1. InvoiceFound \in BOOLEAN  BY Zenon DEF InvoiceFound
    <3> QED  BY <1>8, <3>1 DEF LookInvoice
  <2>2. PICK j \in Jobs(Len(events)) : j = job[w]  OBVIOUS
  <2>3. PICK row \in Jobs(Len(events)) : row = [j EXCEPT !.pc = pc, !.saw = saw]
    BY DEF Jobs, Steps
  <2>4. job' = [job EXCEPT ![w] = row]  BY <2>1, <2>2, <2>3
  <2>5. row.pc = pc /\ row.ask = job[w].ask /\ row.ev = job[w].ev  BY <2>2, <2>3 DEF Jobs
  <2>6. WorkFits(row)  BY <1>3, <2>5 DEF WorkFits, Handling
  <2> QED  BY <1>5, <2>4, <2>6
<1>9. CASE LookIntent(w)
  <2>1. Goto(w, "save") \/ Goto(w, "mark")  BY <1>9 DEF LookIntent
  <2>2. PICK pc \in {"save", "mark"} : Goto(w, pc)  BY <2>1
  <2>3. PICK row \in Jobs(Len(events)) :
          /\ job' = [job EXCEPT ![w] = row]
          /\ row.pc = pc /\ row.ask = job[w].ask /\ row.ev = job[w].ev
    BY <2>2, GoesTo DEF Steps
  <2>4. WorkFits(row)  BY <1>3, <2>3 DEF WorkFits, Handling
  <2> QED  BY <1>5, <2>3, <2>4
<1> QED  BY <1>6, <1>7, <1>8, <1>9 DEF Look

\* The account of a subscription event.
LEMMA SameAccount ==
    ASSUME NEW a \in Account, NEW b \in Account,
           a.cust = b.cust, a.sub = b.sub, a.status = b.status, a.cancel = b.cancel,
           a.price = b.price, a.trialEnd = b.trialEnd, a.periodEnd = b.periodEnd
    PROVE  a = b
BY DEF Account

LEMMA UpdatesTyped ==
    ASSUME NEW a \in Account, NEW e \in SubEvent
    PROVE  /\ Updates(a, e) \in Account
           /\ Updates(a, e).cust = e.cust /\ Updates(a, e).sub = e.sub
           /\ Updates(a, e).status = MapStatus(e.status) /\ Updates(a, e).cancel = e.cancel
           /\ Updates(a, e).price = e.price /\ Updates(a, e).periodEnd = e.until
           /\ Updates(a, e).trialEnd = IF e.status = "trialing" THEN e.until ELSE NoTime
           /\ MapStatus(e.status) = "TRIALING" => e.status = "trialing"
<1> DEFINE st == MapStatus(e.status)
           end == IF e.status = "trialing" THEN e.until ELSE NoTime
<1>1. /\ e.cust \in Customers /\ e.sub \in Subs /\ e.price \in Prices /\ e.until \in Nat
      /\ e.status \in StripeStatus
    BY DEF SubEvent
<1>2. e.cancel \in BOOLEAN  BY DEF SubEvent
<1>3. st \in BillingStatus /\ (st = "TRIALING" => e.status = "trialing")
    BY <1>1 DEF MapStatus, StripeStatus, BillingStatus
<1>4. end \in Nat  BY <1>1 DEF NoTime
<1>5. Updates(a, e) = [a EXCEPT !.cust = e.cust, !.sub = e.sub, !.status = st,
                                !.cancel = e.cancel, !.price = e.price, !.periodEnd = e.until,
                                !.trialEnd = end]
    BY DEF Updates
<1> HIDE DEF st, end
<1>6. PICK s \in BillingStatus, t \in Nat : s = st /\ t = end  BY <1>3, <1>4
<1>7. PICK f : f = Updates(a, e)  OBVIOUS
<1>8. f = [a EXCEPT !.cust = e.cust, !.sub = e.sub, !.status = s, !.cancel = e.cancel,
                    !.price = e.price, !.periodEnd = e.until, !.trialEnd = t]
    BY Zenon, <1>5, <1>6, <1>7
<1>9. /\ f \in Account
      /\ f.cust = e.cust /\ f.sub = e.sub /\ f.status = s /\ f.cancel = e.cancel
      /\ f.price = e.price /\ f.periodEnd = e.until /\ f.trialEnd = t
  <2>1. PICK c \in BOOLEAN : c = e.cancel  BY Zenon, <1>2
  <2>2. f \in Account  BY <1>1, <1>8, <2>1 DEF Account
  <2>3. /\ f.cust = e.cust /\ f.sub = e.sub /\ f.status = s /\ f.cancel = e.cancel
        /\ f.price = e.price /\ f.periodEnd = e.until /\ f.trialEnd = t
    BY <1>8 DEF Account
  <2> QED  BY <2>2, <2>3
<1> QED  BY <1>3, <1>6, <1>7, <1>9 DEF st, end

LEMMA EvtOf ==
    ASSUME BillingTypes, NEW w \in Workers, job[w].pc \in Handling \cup {"refresh", "sync", "called"}
    PROVE  /\ job[w].ev \in 1..Len(events) /\ Evt(w) = events[job[w].ev] /\ Evt(w) \in Event
           /\ WorkFits(job[w])
<1>1. WorkFits(job[w])  BY DEF BillingTypes, WorkOK
<1>2. job[w].ev \in 1..Len(events)  BY <1>1 DEF WorkFits
<1> QED  BY <1>1, <1>2, BillingBounds DEF Evt

LEMMA AttachTypes ==
    ASSUME BillingTypes, NEW w \in Workers, Attach(w)
    PROVE  BillingTypes'
<1> USE BillingBounds
<1>1. RestOK  BY TypesSplit DEF BillingTypes
<1>2. job[w].pc = "attach"  BY DEF Attach
<1>3. job[w].ev \in 1..Len(events) /\ Evt(w) = events[job[w].ev] /\ Evt(w) \in Event
      /\ WorkFits(job[w])
    BY <1>2, EvtOf DEF Handling
<1>4. Evt(w).kind \in {"subscription", "checkout"}  BY <1>2, <1>3 DEF WorkFits
<1>5. Evt(w).cust \in Customers /\ Evt(w).sub \in Subs  BY <1>3, <1>4, EventKinds
<1>6. account' = [account EXCEPT !.cust = Evt(w).cust, !.sub = Evt(w).sub]  BY DEF Attach
<1>7. /\ account' \in Account /\ account'.status = account.status
      /\ account'.trialEnd = account.trialEnd /\ account'.periodEnd = account.periodEnd
    BY <1>1, <1>5, <1>6 DEF RestOK, Account
<1>8. overtaken' \in BOOLEAN  BY Zenon, <1>1 DEF Attach, RestOK
<1>9. RestOK'
  <2>1. UNCHANGED <<now, org, invoice, cards, rows, events, owed, marked, applied, version,
                    overlap, faults>>  BY DEF Attach, stripe
  <2> QED  BY <1>1, <1>7, <1>8, <2>1 DEF RestOK
<1>10. PeriodsOK'
  <2>1. events' = events  BY DEF Attach, stripe
  <2> QED  BY <1>7, <2>1 DEF BillingTypes, PeriodsOK, Announced, SubEvents
<1>11. PICK pc \in {"update", "mark"} : /\ Goto(w, pc)
                                        /\ pc = "update" => Evt(w).kind = "subscription"
    BY DEF Attach
<1>12. PICK row \in Jobs(Len(events)) :
          /\ job' = [job EXCEPT ![w] = row]
          /\ row.pc = pc /\ row.ask = job[w].ask /\ row.ev = job[w].ev
    BY <1>11, GoesTo DEF Steps
<1>13. WorkFits(row)  BY <1>2, <1>3, <1>11, <1>12 DEF WorkFits, Handling
<1> QED  BY <1>9, <1>10, <1>12, <1>13, WorkerStep DEF Attach

LEMMA UpdateTypes ==
    ASSUME BillingTypes, NEW w \in Workers, Update(w)
    PROVE  BillingTypes'
<1> USE BillingBounds
<1>1. RestOK  BY TypesSplit DEF BillingTypes
<1>2. job[w].pc = "update"  BY DEF Update
<1>3. job[w].ev \in 1..Len(events) /\ Evt(w) = events[job[w].ev] /\ Evt(w) \in Event
      /\ WorkFits(job[w])
    BY <1>2, EvtOf DEF Handling
<1>4. Evt(w).kind = "subscription"  BY <1>2, <1>3 DEF WorkFits
<1>5. PICK e \in SubEvent : e = Evt(w)  BY <1>3, <1>4, EventKinds
<1>6. account' = Updates(account, e)  BY <1>5 DEF Update
<1>7. account \in Account  BY <1>1 DEF RestOK
<1>8. /\ account' \in Account
      /\ account'.status = MapStatus(e.status) /\ account'.periodEnd = e.until
      /\ account'.trialEnd = IF e.status = "trialing" THEN e.until ELSE NoTime
      /\ MapStatus(e.status) = "TRIALING" => e.status = "trialing"
    BY <1>6, <1>7, UpdatesTyped
<1>9. overtaken' \in BOOLEAN  BY Zenon, <1>1 DEF Update, RestOK
<1>10. version' \in [account : 0..Len(events), org : 0..Len(events)]
  <2>1. PICK v \in [account : 0..Len(events), org : 0..Len(events)] : v = version
    BY <1>1 DEF RestOK
  <2>2. Newer(v.account, job[w].ev) \in 0..Len(events)  BY <1>3 DEF Newer
  <2>3. version' = [v EXCEPT !.account = Newer(v.account, job[w].ev)]  BY <2>1 DEF Update
  <2> QED  BY <2>2, <2>3
<1>11. RestOK'
  <2>1. UNCHANGED <<now, org, invoice, cards, rows, events, owed, marked, overlap, faults>>
    BY DEF Update, stripe
  <2>2. applied' \subseteq 1..Len(events)
    <3>1. applied' = applied \cup {job[w].ev}  BY DEF Update
    <3> QED  BY <1>1, <1>3, <3>1 DEF RestOK
  <2> QED  BY <1>1, <1>8, <1>9, <1>10, <2>1, <2>2 DEF RestOK
<1>12. PeriodsOK'
  <2>1. events' = events  BY DEF Update, stripe
  <2>2. e.until \in Announced'  BY <1>3, <1>4, <1>5, <2>1 DEF Announced, SubEvents
  <2> QED  BY <1>8, <2>2 DEF PeriodsOK
<1>13. PICK row \in Jobs(Len(events)) :
          /\ job' = [job EXCEPT ![w] = row]
          /\ row.pc = "refresh" /\ row.ask = job[w].ask /\ row.ev = job[w].ev
    BY GoesTo DEF Steps, Update
<1>14. WorkFits(row)  BY <1>2, <1>3, <1>13 DEF WorkFits, Handling
<1> QED  BY <1>11, <1>12, <1>13, <1>14, WorkerStep DEF Update

LEMMA RefreshTypes ==
    ASSUME BillingTypes, NEW w \in Workers, Refresh(w)
    PROVE  BillingTypes'
<1> USE BillingBounds
<1>1. RestOK  BY TypesSplit DEF BillingTypes
<1>2. job[w].pc = "refresh"  BY DEF Refresh
<1>3. WorkFits(job[w])  BY <1>2, EvtOf
<1>4. PICK j \in Jobs(Len(events)) : j = job[w]  OBVIOUS
<1>5. PICK a \in Account, v \in 0..Len(events) : a = account /\ v = version.account
    BY <1>1 DEF RestOK
<1>6. PICK row \in Jobs(Len(events)) : row = [j EXCEPT !.pc = "sync", !.snap = a, !.ver = v]
    BY DEF Jobs, Steps
<1>7. job' = [job EXCEPT ![w] = row]  BY <1>4, <1>5, <1>6 DEF Refresh
<1>8. row.pc = "sync" /\ row.ev = job[w].ev  BY <1>4, <1>6 DEF Jobs
<1>9. WorkFits(row)  BY <1>2, <1>3, <1>8 DEF WorkFits, Handling
<1> QED  BY <1>1, <1>7, <1>9, OnlyWork DEF Refresh, RestOK, ghosts

LEMMA SyncTypes ==
    ASSUME BillingTypes, NEW w \in Workers, Sync(w)
    PROVE  BillingTypes'
<1> USE BillingBounds
<1>1. RestOK  BY TypesSplit DEF BillingTypes
<1>2. job[w].pc = "sync"  BY DEF Sync
<1>3. job[w].ev \in 1..Len(events)  BY <1>2, EvtOf
<1>4. PICK j \in Jobs(Len(events)) : j = job[w]  OBVIOUS
<1>5. org' \in Account  BY <1>4, JobFields DEF Sync
<1>6. overtaken' \in BOOLEAN  BY Zenon, <1>1 DEF Sync, RestOK
<1>7. version' \in [account : 0..Len(events), org : 0..Len(events)]
  <2>1. PICK v \in [account : 0..Len(events), org : 0..Len(events)] : v = version
    BY <1>1 DEF RestOK
  <2>2. Newer(v.org, job[w].ver) \in 0..Len(events)  BY <1>4, JobFields DEF Newer
  <2>3. version' = [v EXCEPT !.org = Newer(v.org, job[w].ver)]  BY <2>1 DEF Sync
  <2> QED  BY <2>2, <2>3
<1>8. RestOK'
  <2>1. UNCHANGED <<now, account, invoice, cards, rows, events, owed, marked, applied, overlap,
                    faults>>  BY DEF Sync, stripe
  <2> QED  BY <1>1, <1>5, <1>6, <1>7, <2>1 DEF RestOK
<1>9. PeriodsOK'  BY DEF BillingTypes, PeriodsOK, Announced, SubEvents, Sync, stripe
<1>10. PICK idle \in Jobs(Len(events)) : idle = Idle  BY IdleTyped
<1>11. PICK row \in Jobs(Len(events)) :
          job' = [job EXCEPT ![w] = row] /\ WorkFits(row)
  <2>1. CASE job[w].ask = "event"
    <3>1. PICK row \in Jobs(Len(events)) :
             row = [idle EXCEPT !.pc = "mark", !.ask = "event", !.ev = job[w].ev]
      <4>1. [idle EXCEPT !.pc = "mark", !.ask = "event", !.ev = job[w].ev] \in Jobs(Len(events))
        BY <1>3 DEF Jobs, Steps, Asks
      <4> QED  BY <4>1
    <3>2. job' = [job EXCEPT ![w] = row]  BY <1>10, <2>1, <3>1 DEF Sync
    <3>3. row.pc = "mark" /\ row.ask = "event" /\ row.ev = job[w].ev  BY <3>1 DEF Jobs
    <3>4. WorkFits(row)  BY <1>3, <3>3 DEF WorkFits, Handling
    <3> QED  BY <3>2, <3>4
  <2>2. CASE job[w].ask # "event"
    <3>1. job' = [job EXCEPT ![w] = idle]  BY <1>10, <2>2 DEF Sync
    <3> QED  BY <1>10, <3>1, IdleFits
  <2> QED  BY <2>1, <2>2
<1> QED  BY <1>8, <1>9, <1>11, WorkerStep DEF Sync

LEMMA SaveInvoiceTypes ==
    ASSUME BillingTypes, NEW w \in Workers, SaveInvoice(w)
    PROVE  BillingTypes'
<1> USE BillingBounds
<1>1. RestOK  BY TypesSplit DEF BillingTypes
<1>2. job[w].pc = "save"  BY DEF SaveInvoice
<1>3. job[w].ev \in 1..Len(events) /\ Evt(w) \in Event /\ WorkFits(job[w])
    BY <1>2, EvtOf DEF Handling
<1>4. invoice' \in InvoiceStatus \cup {None}
  <2>1. CASE UpsertInvoice(w)
    <3>1. Evt(w).status \in {"open", "paid", "void"}  BY <1>3, <2>1, EventKinds DEF UpsertInvoice
    <3>2. MapInvoiceStatus[Evt(w).status] \in InvoiceStatus
      BY <3>1 DEF MapInvoiceStatus, InvoiceStatus
    <3>3. invoice' = MapInvoiceStatus[Evt(w).status] \/ invoice' = invoice
      BY <2>1 DEF UpsertInvoice, CreateInvoiceRecord
    <3> QED  BY <1>1, <3>2, <3>3 DEF RestOK
  <2>2. CASE MarkInvoicePaid(w) \/ MarkInvoiceFailed(w)
    BY <2>2 DEF MarkInvoicePaid, MarkInvoiceFailed, InvoiceStatus
  <2> QED  BY <2>1, <2>2 DEF SaveInvoice
<1>5. RestOK'
  <2>1. UNCHANGED <<now, account, org, cards, rows, events, owed, marked, ghosts, faults>>
    BY DEF SaveInvoice, stripe
  <2> QED  BY <1>1, <1>4, <2>1 DEF RestOK, ghosts
<1>6. PeriodsOK'  BY DEF BillingTypes, PeriodsOK, Announced, SubEvents, SaveInvoice, stripe
<1>7. PICK j \in Jobs(Len(events)) : j = job[w]  OBVIOUS
<1>8. FALSE \in BOOLEAN  OBVIOUS
<1>9. PICK row \in Jobs(Len(events)) : row = [j EXCEPT !.pc = "mark", !.saw = FALSE]
  <2>1. \A b \in BOOLEAN : [j EXCEPT !.pc = "mark", !.saw = b] \in Jobs(Len(events))
    BY DEF Jobs, Steps
  <2> QED  BY <1>8, <2>1
<1>10. job' = [job EXCEPT ![w] = row]  BY <1>7, <1>9 DEF SaveInvoice
<1>11. row.pc = "mark" /\ row.ask = job[w].ask /\ row.ev = job[w].ev
    BY <1>7, <1>9 DEF Jobs
<1>12. WorkFits(row)  BY <1>2, <1>3, <1>11 DEF WorkFits, Handling
<1> QED  BY <1>5, <1>6, <1>10, <1>12, WorkerStep DEF SaveInvoice

LEMMA ClearTypes ==
    ASSUME BillingTypes, NEW w \in Workers, ClearDefaults(w)
    PROVE  BillingTypes'
<1> USE BillingBounds
<1>1. RestOK  BY TypesSplit DEF BillingTypes
<1>2. job[w].pc = "clear"  BY DEF ClearDefaults
<1>3. job[w].ev \in 1..Len(events) /\ WorkFits(job[w])  BY <1>2, EvtOf DEF Handling
<1>4. PICK j \in Jobs(Len(events)) : j = job[w]  OBVIOUS
<1>5. PICK ids \in SUBSET (1..MaxRows) : ids = {r.id : r \in {c \in cards : c.default}}
  <2>1. \A r \in cards : r.id \in 1..MaxRows  BY <1>1 DEF RestOK, Card
  <2> QED  BY <2>1
<1>6. PICK row \in Jobs(Len(events)) : row = [j EXCEPT !.pc = "insert", !.cleared = ids]
    BY DEF Jobs, Steps
<1>7. job' = [job EXCEPT ![w] = row]  BY <1>4, <1>5, <1>6 DEF ClearDefaults
<1>8. row.pc = "insert" /\ row.ask = job[w].ask /\ row.ev = job[w].ev
    BY <1>4, <1>6 DEF Jobs
<1>9. WorkFits(row)  BY <1>2, <1>3, <1>8 DEF WorkFits, Handling
<1> QED  BY <1>1, <1>7, <1>9, OnlyWork DEF ClearDefaults, RestOK, ghosts

\* The rows a new default card leaves.
LEMMA CardsLeft ==
    ASSUME NEW S \in SUBSET Card, NEW ids
    PROVE  \A r \in S : /\ [r EXCEPT !.default = @ /\ r.id \notin ids] \in Card
                        /\ [r EXCEPT !.default = @ /\ r.id \notin ids].id = r.id
                        /\ [r EXCEPT !.default = @ /\ r.id \notin ids].card = r.card
                        /\ [r EXCEPT !.default = @ /\ r.id \notin ids].default
                              <=> r.default /\ r.id \notin ids
<1> TAKE r \in S
<1>1. r \in Card  OBVIOUS
<1>2. PICK b \in BOOLEAN : b = (r.default /\ r.id \notin ids)
  <2>1. (r.default /\ r.id \notin ids) \in BOOLEAN  BY Zenon
  <2> QED  BY Zenon, <2>1
<1>3. [r EXCEPT !.default = @ /\ r.id \notin ids] = [r EXCEPT !.default = b]  BY Zenon, <1>2
<1>4. [r EXCEPT !.default = b] \in Card  BY <1>1 DEF Card
<1>5. [r EXCEPT !.default = b].id = r.id /\ [r EXCEPT !.default = b].card = r.card
    BY <1>1 DEF Card
<1>6. [r EXCEPT !.default = b].default = b  BY Zenon, <1>1 DEF Card
<1> QED  BY Zenon, <1>2, <1>3, <1>4, <1>5, <1>6

LEMMA InsertTypes ==
    ASSUME BillingTypes, NEW w \in Workers, InsertCard(w)
    PROVE  BillingTypes'
<1> USE BillingBounds
<1>1. RestOK  BY TypesSplit DEF BillingTypes
<1>2. job[w].pc = "insert"  BY DEF InsertCard
<1>3. job[w].ev \in 1..Len(events) /\ Evt(w) = events[job[w].ev] /\ Evt(w) \in Event
      /\ WorkFits(job[w])
    BY <1>2, EvtOf DEF Handling
<1>4. Evt(w).card \in Cards  BY <1>2, <1>3, EventKinds DEF WorkFits
<1>5. cards' \subseteq Card
  <2>1. \A r \in cards : [r EXCEPT !.default = @ /\ r.id \notin job[w].cleared] \in Card
    <3>1. cards \in SUBSET Card  BY <1>1 DEF RestOK
    <3> QED  BY Zenon, <3>1, CardsLeft
  <2>2. [id |-> rows + 1, card |-> Evt(w).card, default |-> TRUE] \in Card
    <3>1. rows + 1 \in 1..MaxRows  BY DEF InsertCard
    <3>2. TRUE \in BOOLEAN  OBVIOUS
    <3>3. \A b \in BOOLEAN : [id |-> rows + 1, card |-> Evt(w).card, default |-> b] \in Card
      BY <1>4, <3>1 DEF Card
    <3> QED  BY <3>2, <3>3
  <2>3. cards' = {[r EXCEPT !.default = @ /\ r.id \notin job[w].cleared] : r \in cards}
                  \cup {[id |-> rows + 1, card |-> Evt(w).card, default |-> TRUE]}
    BY DEF InsertCard
  <2> QED  BY Zenon, <2>1, <2>2, <2>3
<1>6. RestOK'
  <2>1. UNCHANGED <<now, account, org, invoice, events, owed, marked, ghosts, faults>>
    BY DEF InsertCard, stripe
  <2>2. rows' \in 0..MaxRows  BY DEF InsertCard
  <2> QED  BY <1>1, <1>5, <2>1, <2>2 DEF RestOK, ghosts
<1>7. PeriodsOK'  BY DEF BillingTypes, PeriodsOK, Announced, SubEvents, InsertCard, stripe
<1>8. PICK j \in Jobs(Len(events)) : j = job[w]  OBVIOUS
<1>9. PICK row \in Jobs(Len(events)) : row = [j EXCEPT !.pc = "mark", !.cleared = {}]
    BY DEF Jobs, Steps
<1>10. job' = [job EXCEPT ![w] = row]  BY <1>8, <1>9 DEF InsertCard
<1>11. row.pc = "mark" /\ row.ask = job[w].ask /\ row.ev = job[w].ev
    BY <1>8, <1>9 DEF Jobs
<1>12. WorkFits(row)  BY <1>2, <1>3, <1>11 DEF WorkFits, Handling
<1> QED  BY <1>6, <1>7, <1>10, <1>12, WorkerStep DEF InsertCard

LEMMA EndTypes ==
    ASSUME BillingTypes, NEW w \in Workers,
           Finish(w) \/ MarkLost(w) \/ AnswerLost(w) \/ Fails(w)
    PROVE  BillingTypes'
<1> USE BillingBounds
<1>1. RestOK  BY TypesSplit DEF BillingTypes
<1>2. job' = [job EXCEPT ![w] = Idle]  BY DEF Finish, MarkLost, AnswerLost, Fails
<1>3. Idle \in Jobs(Len(events)) /\ WorkFits(Idle)  BY IdleTyped, IdleFits
<1>4. faults' \in 0..MaxFaults
    BY <1>1, FaultTyped DEF Finish, MarkLost, AnswerLost, Fails, RestOK
<1>5. owed' \subseteq 1..Len(events)
    BY <1>1 DEF Finish, MarkLost, AnswerLost, Fails, RestOK
<1>6. marked' \subseteq 1..Len(events)
  <2>1. CASE job[w].pc = "mark"
    <3>1. job[w].ev \in 1..Len(events)  BY <2>1, EvtOf DEF Handling
    <3> QED  BY <1>1, <3>1 DEF Finish, MarkLost, AnswerLost, Fails, RestOK
  <2>2. CASE job[w].pc # "mark"
    BY <1>1, <2>2 DEF Finish, MarkLost, AnswerLost, Fails, RestOK
  <2> QED  BY <2>1, <2>2
<1>7. UNCHANGED <<now, account, org, invoice, cards, rows, stripe, applied, version, overtaken,
                  overlap>>
    BY DEF Finish, MarkLost, AnswerLost, Fails, ghosts
<1> QED  BY <1>1, <1>2, <1>3, <1>4, <1>5, <1>6, <1>7, OnlyWork DEF RestOK

LEMMA WriteTypes ==
    ASSUME BillingTypes, NEW w \in Workers, WriteLocally(w)
    PROVE  BillingTypes'
<1> USE BillingBounds
<1>1. RestOK  BY TypesSplit DEF BillingTypes
<1>2. job[w].pc = "called"  BY DEF WriteLocally
<1>3. job[w].ev \in 1..Len(events) /\ Evt(w) = events[job[w].ev] /\ Evt(w) \in Event
      /\ WorkFits(job[w])
    BY <1>2, EvtOf
<1>4. PICK e \in SubEvent : e = Evt(w)  BY <1>2, <1>3, EventKinds DEF WorkFits
<1>5. PICK a \in Account : a = account  BY <1>1 DEF RestOK
<1>6. /\ account' \in Account /\ account'.status = a.status /\ account'.trialEnd = a.trialEnd
      /\ account'.periodEnd \in {a.periodEnd, e.until}
  <2>1. CASE WritePrice(w)
    <3>1. e.price \in Prices  BY DEF SubEvent
    <3>2. account' = [a EXCEPT !.price = e.price]  BY <1>4, <1>5, <2>1 DEF WritePrice
    <3> QED  BY <3>1, <3>2 DEF Account
  <2>2. CASE WriteCancel(w)
    <3>1. e.until \in Nat  BY DEF SubEvent
    <3>2. account' = [a EXCEPT !.cancel = TRUE, !.periodEnd = e.until]
      BY <1>4, <1>5, <2>2 DEF WriteCancel
    <3>3. TRUE \in BOOLEAN  OBVIOUS
    <3>4. \A b \in BOOLEAN : [a EXCEPT !.cancel = b, !.periodEnd = e.until] \in Account
      BY <3>1 DEF Account
    <3>5. account' \in Account  BY <3>2, <3>3, <3>4
    <3>6. /\ account'.status = a.status /\ account'.trialEnd = a.trialEnd
          /\ account'.periodEnd = e.until
      BY <3>2 DEF Account
    <3> QED  BY <3>5, <3>6
  <2> QED  BY <2>1, <2>2 DEF WriteLocally
<1>7. overtaken' \in BOOLEAN  BY Zenon, <1>1 DEF WriteLocally, RestOK
<1>8. RestOK'
  <2>1. UNCHANGED <<now, org, invoice, cards, rows, events, owed, marked, applied, version,
                    overlap, faults>>  BY DEF WriteLocally, stripe
  <2> QED  BY <1>1, <1>6, <1>7, <2>1 DEF RestOK
<1>9. PeriodsOK'
  <2>1. events' = events  BY DEF WriteLocally, stripe
  <2>2. e.until \in Announced
    <3>1. events[job[w].ev].kind = "subscription"  BY <1>2, <1>3 DEF WorkFits
    <3> QED  BY <1>3, <1>4, <3>1 DEF Announced, SubEvents
  <2>3. Announced' = Announced  BY <2>1 DEF Announced, SubEvents
  <2> QED  BY <1>5, <1>6, <2>2, <2>3 DEF BillingTypes, PeriodsOK
<1>10. PICK row \in Jobs(Len(events)) :
          /\ job' = [job EXCEPT ![w] = row]
          /\ row.pc = "refresh" /\ row.ask = job[w].ask /\ row.ev = job[w].ev
    BY GoesTo DEF Steps, WriteLocally
<1>11. WorkFits(row)  BY <1>2, <1>3, <1>10 DEF WorkFits, Handling
<1> QED  BY <1>8, <1>9, <1>10, <1>11, WorkerStep DEF WriteLocally

LEMMA AskTypes ==
    ASSUME BillingTypes, NEW w \in Workers,
           CancelPlan(w) \/ \E price \in Prices : ChangePlan(w, price)
    PROVE  BillingTypes'
<1> USE BillingBounds
<1>1. PICK e \in SubEvent, ask \in {"change", "cancel"} :
          /\ Emit(e) /\ session[e.sub].open /\ e.until >= 1
          /\ ask = "cancel" => e.cancel
          /\ job' = [job EXCEPT ![w] = [Idle EXCEPT !.pc = "called", !.ask = ask,
                                                    !.ev = Len(events) + 1]]
    BY StripeAnswers
<1>2. UNCHANGED <<now, account, org, invoice, cards, rows, session, marked, ghosts, faults>>
    BY DEF CancelPlan, ChangePlan, Ask
<1>3. e \in Event /\ e.kind = "subscription"  BY DEF Event, SubEvent
<1>4. /\ Grows /\ Len(events') = Len(events) + 1 /\ events'[Len(events) + 1] = e
    BY <1>1, <1>2, <1>3, Emitted
<1>5. PICK n \in Nat : n = Len(events')  BY <1>4
<1>6. PICK idle \in Jobs(n) : idle = Idle  BY IdleTyped
<1>7. PICK row \in Jobs(n) : row = [idle EXCEPT !.pc = "called", !.ask = ask, !.ev = n]
  <2>1. n \in 0..n  BY <1>5
  <2>2. [idle EXCEPT !.pc = "called", !.ask = ask, !.ev = n] \in Jobs(n)
    BY <2>1 DEF Jobs, Steps, Asks
  <2> QED  BY <2>2
<1>8. job' = [job EXCEPT ![w] = row]  BY <1>1, <1>4, <1>5, <1>6, <1>7
<1>9. row.pc = "called" /\ row.ask = ask /\ row.ev = n  BY <1>7 DEF Jobs
<1>10. WorkFits(row)'  BY <1>1, <1>3, <1>4, <1>5, <1>9 DEF WorkFits, Handling
<1>11. row \in Jobs(Len(events'))  BY <1>5
<1>12. job' \in [Workers -> Jobs(Len(events'))] /\ WorkOK'
    BY <1>4, <1>8, <1>10, <1>11, WorkerMoves
<1> QED  BY <1>1, <1>2, <1>3, <1>12, EmitStep

LEMMA StripeTypes ==
    ASSUME BillingTypes, Stripe
    PROVE  BillingTypes'
<1>1. PICK e \in Event : /\ Emit(e)
                         /\ e.kind = "subscription" => session[e.sub].open /\ e.until >= 1
    BY StripeSays
<1>2. UNCHANGED <<now, account, org, invoice, cards, rows, session, marked, job, ghosts, faults>>
    BY DEF Stripe
<1>3. Grows  BY <1>1, <1>2, Emitted
<1>4. job' \in [Workers -> Jobs(Len(events'))] /\ WorkOK'  BY <1>2, <1>3, WorkStays
<1> QED  BY <1>1, <1>2, <1>4, EmitStep

LEMMA OutsideTypes ==
    ASSUME BillingTypes,
           Tick \/ (\E i \in 1..Len(events) : AlreadyProcessed(i))
                \/ (\E r \in cards : DeletePaymentMethod(r))
    PROVE  BillingTypes'
<1> USE BillingBounds
<1>1. RestOK  BY TypesSplit DEF BillingTypes
<1>2. CASE Tick
  <2>1. now' \in 1..MaxTime  BY <1>1, <1>2 DEF Tick, RestOK
  <2>2. RestOK'  BY <1>1, <1>2, <2>1 DEF Tick, RestOK, ghosts, stripe
  <2> QED  BY <1>2, <2>2, NoWorkTypes DEF Tick
<1>3. ASSUME NEW i \in 1..Len(events), AlreadyProcessed(i) PROVE BillingTypes'
  <2>1. RestOK'  BY <1>1, <1>3 DEF AlreadyProcessed, RestOK, ghosts, stripe
  <2> QED  BY <1>3, <2>1, NoWorkTypes DEF AlreadyProcessed
<1>4. ASSUME NEW r \in cards, DeletePaymentMethod(r) PROVE BillingTypes'
  <2>1. RestOK'  BY <1>1, <1>4 DEF DeletePaymentMethod, Without, RestOK, ghosts, stripe
  <2> QED  BY <1>4, <2>1, NoWorkTypes DEF DeletePaymentMethod
<1> QED  BY <1>2, <1>3, <1>4

\* Every step keeps the types.
LEMMA BillingTypesStep == BillingTypes /\ [Next]_vars => BillingTypes'
<1> SUFFICES ASSUME BillingTypes, [Next]_vars PROVE BillingTypes'
    OBVIOUS
<1>1. CASE UNCHANGED vars
  <2>1. UNCHANGED <<stripe, job, account>>  BY <1>1 DEF vars, stripe
  <2>2. RestOK  BY TypesSplit DEF BillingTypes
  <2>3. RestOK'  BY <1>1, <2>2 DEF RestOK, vars
  <2> QED  BY <2>1, <2>3, NoWorkTypes
<1>2. ASSUME NEW w \in Workers, Webhook(w) PROVE BillingTypes'
  BY <1>2, DeliverTypes, LookTypes, AttachTypes, UpdateTypes, RefreshTypes, SyncTypes,
     SaveInvoiceTypes, ClearTypes, InsertTypes, EndTypes DEF Webhook
<1>3. ASSUME NEW w \in Workers, Failures(w) PROVE BillingTypes'
  BY <1>3, DeliverTypes, EndTypes DEF Failures
<1>4. ASSUME NEW w \in Workers, Routes(w) PROVE BillingTypes'
  BY <1>4, AttachCustomerTypes, NewCustomerTypes, AskTypes, WriteTypes DEF Routes
<1> QED  BY <1>1, <1>2, <1>3, <1>4, StripeTypes, CheckoutTypes, OutsideTypes DEF Next

LEMMA BillingTypesInit == Init => BillingTypes
<1> SUFFICES ASSUME Init PROVE BillingTypes
    OBVIOUS
<1>1. PICK a \in Account : a = NoAccount  BY NoAccountTyped
<1>2. account \in Account /\ account.trialEnd = 1 /\ account.status = "TRIALING"
  <2>1. account = [a EXCEPT !.trialEnd = 1]  BY <1>1 DEF Init
  <2>2. account \in Account /\ account.trialEnd = 1  BY <2>1 DEF Account
  <2>3. account.status = a.status  BY <2>1 DEF Account
  <2> QED  BY <1>1, <2>2, <2>3 DEF NoAccount
<1>3. FALSE \in BOOLEAN  OBVIOUS
<1>4. events = <<>> /\ Len(events) = 0 /\ events \in Seq(Event)  BY DEF Init
<1>5. now \in 1..MaxTime /\ rows \in 0..MaxRows /\ faults \in 0..MaxFaults
    BY BillingAssumption DEF Init
<1>6. version \in [account : 0..0, org : 0..0]  BY DEF Init
<1>7. overtaken \in BOOLEAN /\ overlap \in BOOLEAN  BY <1>3 DEF Init
<1>8. RestOK
  <2>1. org = account /\ invoice = None /\ cards = {} /\ owed = {} /\ marked = {} /\ applied = {}
    BY DEF Init
  <2> QED  BY <1>2, <1>4, <1>5, <1>6, <1>7, <2>1 DEF RestOK
<1>9. NoSession \in [cust : Customers \cup {None}, price : Prices \cup {None}, open : BOOLEAN]
  <2>1. \A b \in BOOLEAN : [cust |-> None, price |-> None, open |-> b]
           \in [cust : Customers \cup {None}, price : Prices \cup {None}, open : BOOLEAN]
    OBVIOUS
  <2> QED  BY <1>3, <2>1 DEF NoSession
<1>10. session \in Sessions  BY <1>9 DEF Init, Sessions
<1>11. job \in [Workers -> Jobs(Len(events))]
  <2>1. Idle \in Jobs(Len(events))  BY <1>4, IdleTyped
  <2> QED  BY <2>1 DEF Init
<1>12. TypeOK
  <2>1. Len(events) <= MaxEvents  BY <1>4, BillingAssumption
  <2> QED  BY <1>4, <1>8, <1>10, <1>11, <2>1, TypesSplit
<1>13. WorkOK  BY IdleFits DEF WorkOK, Init
<1>14. SessionsOK
  <2>1. \A s \in Subs : session[s] = NoSession  BY DEF Init
  <2> QED  BY <1>4, <2>1 DEF SessionsOK
<1>15. PeriodsOK  BY <1>2 DEF PeriodsOK
<1> QED  BY <1>12, <1>13, <1>14, <1>15 DEF BillingTypes

\* Usage is allowed within a trial or an announced period only.
LEMMA TypesBoundUsage == BillingTypes => UsageWithinPeriods
<1> SUFFICES ASSUME BillingTypes, IsOrgAllowedUsage PROVE UsageWithinPeriods
    BY DEF UsageWithinPeriods
<1> USE BillingBounds
<1>1. EffectiveStatus \in {"TRIALING", "ACTIVE"}  BY DEF IsOrgAllowedUsage
<1>2. account \in Account /\ PeriodsOK /\ SessionsOK  BY DEF BillingTypes, TypeOK
<1>3. ASSUME NEW t \in Announced, now <= t PROVE UsageWithinPeriods
    BY <1>3 DEF UsageWithinPeriods, Announced, SubEvents
<1>4. \A t \in Announced : t >= 1 /\ t \in Nat
  <2> TAKE t \in Announced
  <2>1. PICK i \in 1..Len(events) : events[i].kind = "subscription" /\ t = events[i].until
    BY DEF Announced, SubEvents
  <2>2. events[i] \in SubEvent  BY <2>1, EventKinds
  <2> QED  BY <1>2, <2>1, <2>2 DEF SessionsOK, SubEvent
<1>5. CASE account.status = "TRIALING"
  <2>1. account.trialEnd = 1 \/ account.trialEnd \in Announced  BY <1>2, <1>5 DEF PeriodsOK
  <2>2. account.trialEnd \in Nat /\ account.trialEnd # NoTime
    BY <1>2, <1>4, <2>1 DEF Account, NoTime
  <2>3. ~(now > account.trialEnd)
    BY <1>1, <1>5, <2>2 DEF EffectiveStatus
  <2>4. now <= account.trialEnd  BY <2>2, <2>3
  <2>5. CASE account.trialEnd = 1  BY <2>4, <2>5 DEF UsageWithinPeriods
  <2> QED  BY <1>3, <2>1, <2>4, <2>5
<1>6. CASE account.status = "ACTIVE"
  <2>1. account.periodEnd \in Announced  BY <1>2, <1>6 DEF PeriodsOK
  <2>2. account.periodEnd \in Nat /\ account.periodEnd # NoTime
    BY <1>4, <2>1 DEF NoTime
  <2>3. ~(now > account.periodEnd)
    BY <1>1, <1>6, <2>2 DEF EffectiveStatus
  <2>4. now <= account.periodEnd  BY <2>2, <2>3
  <2> QED  BY <1>3, <2>1, <2>4
<1>7. CASE account.status \notin {"TRIALING", "ACTIVE"}
    BY <1>1, <1>7 DEF EffectiveStatus
<1> QED  BY <1>5, <1>6, <1>7

\* Account, mirror, cards, events and workers keep their types, and a worker has at each of its
\* steps the event, the account or the session that the step is about.
THEOREM BillingKeepsTypes == Spec => []TypeOK
<1>1. Init => BillingTypes  BY BillingTypesInit
<1>2. BillingTypes /\ [Next]_vars => BillingTypes'  BY BillingTypesStep
<1>3. BillingTypes => TypeOK  BY DEF BillingTypes
<1> QED  BY <1>1, <1>2, <1>3, PTL DEF Spec

\* The clock never lets an organization use what no trial and no period covers.
THEOREM UsageIsWithinPeriods == Spec => []UsageWithinPeriods
<1>1. Init => BillingTypes  BY BillingTypesInit
<1>2. BillingTypes /\ [Next]_vars => BillingTypes'  BY BillingTypesStep
<1>3. BillingTypes => UsageWithinPeriods  BY TypesBoundUsage
<1> QED  BY <1>1, <1>2, <1>3, PTL DEF Spec

-----------------------------------------------------------------------------
\* Cards

Recording == {"clear", "insert"}
CardsSafe ==
    ~overlap =>
        /\ \A r, q \in cards : r # q => r.card # q.card /\ ~(r.default /\ q.default)
        /\ \A v, w \in Workers : job[v].pc \in Recording /\ job[w].pc \in Recording => v = w
        /\ \A w \in Workers : job[w].pc \in Recording =>
               \A r \in cards : r.card # events[job[w].ev].card
        /\ \A w \in Workers : job[w].pc = "insert" =>
               \A r \in cards : r.default => r.id \in job[w].cleared

LEMMA CardsFrame ==
    ASSUME BillingTypes, CardsSafe, EventsGrow, cards' \subseteq cards, overlap' = overlap,
           \A v \in Workers : job'[v].pc \in Recording => job'[v] = job[v]
    PROVE  CardsSafe'
<1> SUFFICES ASSUME ~overlap'
             PROVE  /\ \A r, q \in cards' : r # q => r.card # q.card /\ ~(r.default /\ q.default)
                    /\ \A v, w \in Workers :
                         job'[v].pc \in Recording /\ job'[w].pc \in Recording => v = w
                    /\ \A w \in Workers : job'[w].pc \in Recording =>
                           \A r \in cards' : r.card # events'[job'[w].ev].card
                    /\ \A w \in Workers : job'[w].pc = "insert" =>
                           \A r \in cards' : r.default => r.id \in job'[w].cleared
    BY DEF CardsSafe
<1>1. ~overlap  OBVIOUS
<1>2. ASSUME NEW w \in Workers, job'[w].pc \in Recording
      PROVE  job'[w] = job[w] /\ events'[job'[w].ev] = events[job[w].ev]
  <2>1. job'[w] = job[w]  BY <1>2
  <2>2. job[w].ev \in 1..Len(events)  BY <1>2, <2>1, EvtOf DEF Handling, Recording
  <2> QED  BY <2>1, <2>2 DEF EventsGrow
<1>3. \A w \in Workers : job'[w].pc = "insert" => job'[w].pc \in Recording  BY DEF Recording
<1> QED  BY <1>1, <1>2, <1>3 DEF CardsSafe

\* The steps of those that do not take up a card.
LEMMA OtherCards ==
    ASSUME BillingTypes, CardsSafe, NEW w \in Workers, NEW row, row.pc \notin Recording,
           job' = [job EXCEPT ![w] = row], EventsGrow, UNCHANGED <<cards, overlap>>
    PROVE  CardsSafe'
<1> USE BillingBounds
<1>1. \A v \in Workers : job'[v] = IF v = w THEN row ELSE job[v]  OBVIOUS
<1> QED  BY <1>1, CardsFrame

LEMMA GoingOnCards ==
    ASSUME BillingTypes, CardsSafe, NEW w \in Workers, NEW pc \in Steps \ Recording, Goto(w, pc),
           UNCHANGED <<cards, overlap, stripe>>
    PROVE  CardsSafe'
<1>1. PICK row \in Jobs(Len(events)) : job' = [job EXCEPT ![w] = row] /\ row.pc = pc
    BY GoesTo
<1>2. EventsGrow  BY BillingBounds DEF EventsGrow, stripe
<1> QED  BY <1>1, <1>2, OtherCards

LEMMA LookCardStep ==
    ASSUME BillingTypes, CardsSafe, NEW w \in Workers, Look(w), LookCard(w)
    PROVE  CardsSafe'
<1> USE BillingBounds
<1> DEFINE adds == AccountFound(Evt(w)) /\ ~CardFound(Evt(w))
<1>1. CASE ~adds
  <2>1. Goto(w, "mark")  BY <1>1 DEF LookCard
  <2>2. overlap \in BOOLEAN  BY DEF BillingTypes, TypeOK
  <2>3. overlap' = overlap  BY Zenon, <1>1, <2>2 DEF LookCard
  <2>4. UNCHANGED <<cards, stripe>>  BY DEF Look
  <2> QED  BY <2>1, <2>3, <2>4, GoingOnCards DEF Steps, Recording
<1>2. CASE adds /\ overlap'
    BY <1>2 DEF CardsSafe
<1>3. CASE adds /\ ~overlap'
  <2>1. PICK row \in Jobs(Len(events)) : /\ job' = [job EXCEPT ![w] = row]
                                         /\ row.pc = "clear" /\ row.ev = job[w].ev
    <3>1. Goto(w, "clear")  BY <1>3 DEF LookCard
    <3> QED  BY <3>1, GoesTo DEF Steps
  <2>2. ~overlap /\ \A v \in Workers : job[v].pc \notin Recording
    BY <1>3 DEF LookCard, Recording
  <2>3. cards' = cards /\ events' = events  BY DEF Look, stripe
  <2>4. \A v \in Workers : job'[v] = IF v = w THEN row ELSE job[v]  BY <2>1
  <2>5. \A r \in cards : r.card # events[row.ev].card  BY <1>3, <2>1 DEF CardFound, Evt
  <2> QED  BY <2>1, <2>2, <2>3, <2>4, <2>5 DEF CardsSafe, Recording
<1> QED  BY <1>1, <1>2, <1>3

LEMMA ClearStep ==
    ASSUME BillingTypes, CardsSafe, NEW w \in Workers, ClearDefaults(w)
    PROVE  CardsSafe'
<1> USE BillingBounds
<1>1. UNCHANGED <<cards, overlap, events>>  BY DEF ClearDefaults, ghosts, stripe
<1>2. PICK j \in Jobs(Len(events)) : j = job[w]  OBVIOUS
<1>3. PICK ids : ids = {r.id : r \in {c \in cards : c.default}}  OBVIOUS
<1>4. PICK row : row = [j EXCEPT !.pc = "insert", !.cleared = ids]  OBVIOUS
<1>5. job' = [job EXCEPT ![w] = row]  BY <1>2, <1>3, <1>4 DEF ClearDefaults
<1>6. row.pc = "insert" /\ row.ev = j.ev /\ row.cleared = ids  BY <1>4 DEF Jobs
<1>7. \A v \in Workers : job'[v] = IF v = w THEN row ELSE job[v]  BY <1>5
<1>8. \A r \in cards : r.default => r.id \in ids  BY <1>3
<1>9. job[w].pc \in Recording  BY DEF ClearDefaults, Recording
<1> QED  BY <1>1, <1>2, <1>6, <1>7, <1>8, <1>9 DEF CardsSafe, Recording

LEMMA InsertStep ==
    ASSUME BillingTypes, CardsSafe, NEW w \in Workers, InsertCard(w)
    PROVE  CardsSafe'
<1> USE BillingBounds
<1>1. UNCHANGED <<overlap, events>>  BY DEF InsertCard, ghosts, stripe
<1>2. SUFFICES ASSUME ~overlap PROVE CardsSafe'
    BY <1>1 DEF CardsSafe
<1>3. PICK j \in Jobs(Len(events)) : j = job[w]  OBVIOUS
<1>4. PICK row : row = [j EXCEPT !.pc = "mark", !.cleared = {}]  OBVIOUS
<1>5. job' = [job EXCEPT ![w] = row]  BY <1>3, <1>4 DEF InsertCard
<1>6. row.pc = "mark"  BY <1>4 DEF Jobs
<1>7. \A v \in Workers : job'[v] = IF v = w THEN row ELSE job[v]  BY <1>5
<1>8. job[w].pc = "insert"  BY DEF InsertCard
<1>9. \A v \in Workers : job'[v].pc \notin Recording
    BY <1>2, <1>6, <1>7, <1>8 DEF CardsSafe, Recording
<1>10. \A v \in Workers : job'[v].pc # "insert"  BY <1>9 DEF Recording
<1> DEFINE Left(r) == [r EXCEPT !.default = @ /\ r.id \notin job[w].cleared]
           new == [id |-> rows + 1, card |-> Evt(w).card, default |-> TRUE]
<1>11. cards' = {Left(r) : r \in cards} \cup {new}  BY DEF InsertCard
<1>12. \A r \in cards : /\ Left(r).card = r.card
                        /\ Left(r).default => r.default /\ r.id \notin job[w].cleared
  <2>1. cards \in SUBSET Card  BY DEF BillingTypes, TypeOK
  <2>2. \A r \in cards : Left(r).card = r.card  BY <2>1 DEF Card
  <2>3. \A r \in cards : Left(r).default => r.default /\ r.id \notin job[w].cleared
    BY Zenon, <2>1, CardsLeft
  <2> QED  BY <2>2, <2>3
<1>13. new.card = events[job[w].ev].card  BY DEF Evt
<1>14. \A r \in cards : ~Left(r).default /\ Left(r).card # new.card
    BY <1>2, <1>8, <1>12, <1>13 DEF CardsSafe, Recording
<1> HIDE DEF Left, new
<1>15. ASSUME NEW r \in cards', NEW q \in cards', r # q
       PROVE  r.card # q.card /\ ~(r.default /\ q.default)
  <2>1. CASE r = new  BY <1>11, <1>14, <1>15, <2>1
  <2>2. CASE q = new  BY <1>11, <1>14, <1>15, <2>2
  <2>3. CASE r # new /\ q # new
    <3>1. PICK a \in cards, b \in cards : r = Left(a) /\ q = Left(b)  BY <1>11, <2>3
    <3>2. a.card # b.card  BY <1>2, <1>15, <3>1 DEF CardsSafe
    <3> QED  BY <1>12, <1>14, <3>1, <3>2
  <2> QED  BY <2>1, <2>2, <2>3
<1> QED  BY <1>9, <1>10, <1>15 DEF CardsSafe

LEMMA EventsStay ==
    ASSUME BillingTypes, events' = events
    PROVE  EventsGrow
BY BillingBounds DEF EventsGrow

LEMMA IdleCards ==
    ASSUME BillingTypes, CardsSafe, NEW w \in Workers,
           Finish(w) \/ MarkLost(w) \/ AnswerLost(w) \/ Fails(w) \/ AttachCustomer(w)
    PROVE  CardsSafe'
<1>1. job' = [job EXCEPT ![w] = Idle]
    BY DEF Finish, MarkLost, AnswerLost, Fails, AttachCustomer
<1>2. UNCHANGED <<cards, overlap, events>>
    BY DEF Finish, MarkLost, AnswerLost, Fails, AttachCustomer, ghosts, stripe
<1>3. Idle.pc \notin Recording  BY DEF Idle, Recording
<1> QED  BY <1>1, <1>2, <1>3, EventsStay, OtherCards

\* A handler that goes on with something else than a card.
LEMMA HandlerCards ==
    ASSUME BillingTypes, CardsSafe, NEW w \in Workers,
           \/ \E i \in 1..Len(events) : Deliver(w, i) \/ DeliverAgain(w, i)
           \/ Attach(w) \/ Update(w) \/ Refresh(w) \/ Sync(w) \/ SaveInvoice(w)
           \/ WriteLocally(w)
           \/ Look(w) /\ ~LookCard(w)
    PROVE  CardsSafe'
<1> USE BillingBounds
<1>1. UNCHANGED <<cards, overlap, stripe>>
    BY DEF Deliver, DeliverAgain, Attach, Update, Refresh, Sync, SaveInvoice, WriteLocally, Look,
           LookSubscription, LookCheckout, LookInvoice, LookIntent, ghosts
<1>2. EventsGrow  BY <1>1, EventsStay DEF stripe
<1>3. ASSUME NEW i \in 1..Len(events), Deliver(w, i) \/ DeliverAgain(w, i)
      PROVE  CardsSafe'
  <2>1. Handle(w, i)  BY <1>3 DEF Deliver, DeliverAgain
  <2>2. PICK row : job' = [job EXCEPT ![w] = row] /\ row.pc = "look"  BY <2>1, Handles
  <2>3. row.pc \notin Recording  BY <2>2 DEF Recording
  <2> QED  BY <1>1, <1>2, <2>2, <2>3, OtherCards
<1>4. ASSUME NEW pc \in {"update", "mark", "refresh", "attach", "save"}, Goto(w, pc)
      PROVE  CardsSafe'
    BY <1>1, <1>4, GoingOnCards DEF Steps, Recording
<1>5. CASE Attach(w)  BY <1>4, <1>5 DEF Attach
<1>6. CASE Update(w) \/ WriteLocally(w)  BY <1>4, <1>6 DEF Update, WriteLocally
<1>7. CASE Look(w) /\ (LookSubscription(w) \/ LookCheckout(w) \/ LookIntent(w))
    BY <1>4, <1>7 DEF LookSubscription, LookCheckout, LookIntent
<1>9. CASE Look(w) /\ LookInvoice(w)
  <2>1. PICK pc \in {"save", "mark"} : job' = [job EXCEPT ![w].pc = pc, ![w].saw = InvoiceFound]
    BY <1>9 DEF LookInvoice
  <2>2. PICK j \in Jobs(Len(events)) : j = job[w]  OBVIOUS
  <2>3. PICK row : row = [j EXCEPT !.pc = pc, !.saw = InvoiceFound]  OBVIOUS
  <2>4. job' = [job EXCEPT ![w] = row]  BY <2>1, <2>2, <2>3
  <2>5. row.pc \notin Recording  BY <2>3 DEF Jobs, Recording
  <2> QED  BY <1>1, <1>2, <2>4, <2>5, OtherCards
<1>10. CASE SaveInvoice(w)
  <2>1. PICK j \in Jobs(Len(events)) : j = job[w]  OBVIOUS
  <2>2. PICK row : row = [j EXCEPT !.pc = "mark", !.saw = FALSE]  OBVIOUS
  <2>3. job' = [job EXCEPT ![w] = row]  BY <1>10, <2>1, <2>2 DEF SaveInvoice
  <2>4. row.pc \notin Recording  BY <2>2 DEF Jobs, Recording
  <2> QED  BY <1>1, <1>2, <2>3, <2>4, OtherCards
<1>11. CASE Refresh(w)
  <2>1. PICK j \in Jobs(Len(events)) : j = job[w]  OBVIOUS
  <2>2. PICK row : row = [j EXCEPT !.pc = "sync", !.snap = account, !.ver = version.account]
    OBVIOUS
  <2>3. job' = [job EXCEPT ![w] = row]  BY <1>11, <2>1, <2>2 DEF Refresh
  <2>4. row.pc \notin Recording  BY <2>2 DEF Jobs, Recording
  <2> QED  BY <1>1, <1>2, <2>3, <2>4, OtherCards
<1>12. CASE Sync(w)
  <2>1. PICK row :
           /\ row = IF job[w].ask = "event"
                    THEN [Idle EXCEPT !.pc = "mark", !.ask = "event", !.ev = job[w].ev]
                    ELSE Idle
           /\ job' = [job EXCEPT ![w] = row]
    BY <1>12 DEF Sync
  <2>2. row.pc \notin Recording  BY <2>1 DEF Idle, Recording
  <2> QED  BY <1>1, <1>2, <2>1, <2>2, OtherCards
<1> QED  BY <1>3, <1>5, <1>6, <1>7, <1>9, <1>10, <1>11, <1>12 DEF Look

LEMMA RouteCards ==
    ASSUME BillingTypes, CardsSafe, NEW w \in Workers,
           \/ CancelPlan(w)
           \/ \E price \in Prices : ChangePlan(w, price) \/ CheckoutNewCustomer(w, price)
    PROVE  CardsSafe'
<1> USE BillingBounds
<1>1. CASE CancelPlan(w) \/ \E price \in Prices : ChangePlan(w, price)
  <2>1. PICK e \in SubEvent, ask \in {"change", "cancel"} :
            /\ Emit(e)
            /\ job' = [job EXCEPT ![w] = [Idle EXCEPT !.pc = "called", !.ask = ask,
                                                      !.ev = Len(events) + 1]]
    BY <1>1, StripeAnswers
  <2>2. UNCHANGED <<session, cards, overlap>>
    BY <1>1 DEF CancelPlan, ChangePlan, Ask, ghosts
  <2>3. EventsGrow
    <3>1. e \in Event  BY DEF Event
    <3> QED  BY <2>1, <2>2, <3>1, Emitted DEF Grows
  <2>4. PICK row : row = [Idle EXCEPT !.pc = "called", !.ask = ask, !.ev = Len(events) + 1]
    OBVIOUS
  <2>5. row.pc \notin Recording  BY <2>4 DEF Idle, Recording
  <2> QED  BY <2>1, <2>2, <2>3, <2>4, <2>5, OtherCards
<1>2. ASSUME NEW price \in Prices, CheckoutNewCustomer(w, price) PROVE CardsSafe'
  <2>1. UNCHANGED <<cards, overlap, events>>  BY <1>2 DEF CheckoutNewCustomer, ghosts
  <2>2. PICK row : /\ row = [Idle EXCEPT !.pc = "customer", !.ask = "checkout", !.sub = FreshSub]
                   /\ job' = [job EXCEPT ![w] = row]
    BY <1>2 DEF CheckoutNewCustomer
  <2>3. row.pc \notin Recording  BY <2>2 DEF Idle, Recording
  <2> QED  BY <2>1, <2>2, <2>3, EventsStay, OtherCards
<1> QED  BY <1>1, <1>2

LEMMA OutsideCards ==
    ASSUME BillingTypes, CardsSafe,
           \/ UNCHANGED vars \/ Tick \/ Stripe
           \/ \E price \in Prices : Checkout(price)
           \/ \E i \in 1..Len(events) : AlreadyProcessed(i)
           \/ \E r \in cards : DeletePaymentMethod(r)
    PROVE  CardsSafe'
<1>1. UNCHANGED <<job, overlap>> /\ cards' \subseteq cards
    BY DEF vars, Tick, Stripe, Checkout, AlreadyProcessed, DeletePaymentMethod, Without, ghosts
<1>2. EventsGrow
  <2>1. CASE Stripe
    <3>1. session' = session  BY <2>1 DEF Stripe
    <3> QED  BY <2>1, <3>1, StripeSays, Emitted DEF Grows
  <2>2. CASE ~Stripe
    BY <2>2, EventsStay DEF vars, Tick, Checkout, AlreadyProcessed, DeletePaymentMethod, stripe
  <2> QED  BY <2>1, <2>2
<1> QED  BY <1>1, <1>2, CardsFrame

LEMMA CardsStep == BillingTypes /\ CardsSafe /\ [Next]_vars => CardsSafe'
<1> SUFFICES ASSUME BillingTypes, CardsSafe, [Next]_vars PROVE CardsSafe'
    OBVIOUS
<1>1. ASSUME NEW w \in Workers, Webhook(w) PROVE CardsSafe'
    BY <1>1, LookCardStep, ClearStep, InsertStep, IdleCards, HandlerCards DEF Webhook
<1>2. ASSUME NEW w \in Workers, Failures(w) PROVE CardsSafe'
    BY <1>2, IdleCards, HandlerCards DEF Failures
<1>3. ASSUME NEW w \in Workers, Routes(w) PROVE CardsSafe'
    BY <1>3, IdleCards, HandlerCards, RouteCards DEF Routes
<1> QED  BY <1>1, <1>2, <1>3, OutsideCards DEF Next

\* One row for each card and one default card, unless two were recorded at the same time.
THEOREM CardsAreKept == Spec => []CardsKept
<1>1. Init => BillingTypes  BY BillingTypesInit
<1>2. BillingTypes /\ [Next]_vars => BillingTypes'  BY BillingTypesStep
<1>3. Init => CardsSafe
  <2>1. ASSUME Init PROVE cards = {} /\ \A w \in Workers : job[w].pc = "idle"
    BY <2>1 DEF Init, Idle
  <2> QED  BY <2>1 DEF CardsSafe, Recording
<1>4. BillingTypes /\ CardsSafe /\ [Next]_vars => CardsSafe'  BY CardsStep
<1>5. CardsSafe => CardsKept  BY DEF CardsSafe, CardsKept
<1> QED  BY <1>1, <1>2, <1>3, <1>4, <1>5, PTL DEF Spec

-----------------------------------------------------------------------------
\* Account and mirror

\* What event i tells of the account.
Told(i) == Updates(NoAccount, events[i])
\* Stripe has told nothing of a subscription after event i.
LastTold(i) == i # 0 /\ \A k \in SubEvents : k <= i

\* All that Stripe has is the account's customer's.
OneCustomer ==
    /\ \A s \in Subs : session[s].open => session[s].cust = account.cust
    /\ \A i \in 1..Len(events) : events[i].kind # "intent" => events[i].cust = account.cust
\* The versions are of events told, and not older than what was applied.
Versions ==
    /\ version.account \in SubEvents \cup {0} /\ version.org \in SubEvents \cup {0}
    /\ applied \subseteq SubEvents
    /\ \A i \in applied : i <= version.account
\* What Stripe has been answered, or will be, has reached the account and the mirror.
Answered ==
    \A i \in SubEvents : i \notin owed \/ i \in marked => i \in applied /\ i <= version.org
\* Who has the last version has its values.
Values ==
    /\ LastTold(version.account) => account = Told(version.account)
    /\ LastTold(version.org) => org = Told(version.org)
\* What a handler has seen to of the event it is about, and what a mirror it writes is like.
VersionSeen(j) == j.pc = "sync" => j.ver \in SubEvents \cup {0}
SeenTo(j) ==
    /\ j.ask = "event" /\ j.ev \in SubEvents =>
           /\ j.pc \in {"refresh", "sync", "mark"} => j.ev \in applied
           /\ j.pc = "sync" => j.ev <= j.ver
           /\ j.pc = "mark" => j.ev <= version.org
    /\ j.pc = "sync" /\ LastTold(j.ver) => j.snap = Told(j.ver)

FollowInv ==
    /\ Versions
    /\ \A w \in Workers : VersionSeen(job[w])
    /\ ~overtaken => /\ OneCustomer /\ Answered /\ Values
                     /\ \A w \in Workers : SeenTo(job[w])

LEMMA VersionNumbers ==
    ASSUME BillingTypes
    PROVE  version.account \in 0..Len(events) /\ version.org \in 0..Len(events)
           /\ SubEvents \subseteq 1..Len(events)
BY DEF BillingTypes, TypeOK, SubEvents

LEMMA SubEventsGrow ==
    ASSUME BillingTypes, EventsGrow
    PROVE  /\ SubEvents \subseteq SubEvents'
           /\ \A i \in 0..Len(events) : i \in SubEvents' => i \in SubEvents
           /\ \A i \in 0..Len(events) : LastTold(i)' => LastTold(i)
           /\ \A i \in SubEvents : Told(i)' = Told(i)
<1>1. SubEvents \subseteq SubEvents'  BY DEF SubEvents, EventsGrow
<1>2. \A i \in 0..Len(events) : i \in SubEvents' => i \in SubEvents
    BY DEF SubEvents, EventsGrow
<1>3. \A i \in 0..Len(events) : LastTold(i)' => LastTold(i)  BY <1>1 DEF LastTold
<1>4. ASSUME NEW i \in SubEvents PROVE Told(i)' = Told(i)
  <2>1. events'[i] = events[i]  BY DEF SubEvents, EventsGrow
  <2> QED  BY <2>1 DEF Told, Updates, MapStatus, NoAccount, NoTime
<1> QED  BY <1>1, <1>2, <1>3, <1>4

\* What others have seen to stays seen to.
LEMMA OthersFollow ==
    ASSUME BillingTypes, FollowInv, EventsGrow, NEW j \in Jobs(Len(events)),
           applied \subseteq applied', version.org <= version'.org, version'.org \in Nat
    PROVE  /\ VersionSeen(j) => VersionSeen(j)'
           /\ VersionSeen(j) /\ SeenTo(j) => SeenTo(j)'
<1> USE BillingBounds
<1>1. j.ev \in 0..Len(events) /\ j.ver \in 0..Len(events)  BY JobFields
<1>2. version.org \in 0..Len(events)  BY VersionNumbers
<1>3. /\ SubEvents \subseteq SubEvents'
      /\ \A i \in 0..Len(events) : i \in SubEvents' => i \in SubEvents
      /\ \A i \in 0..Len(events) : LastTold(i)' => LastTold(i)
      /\ \A i \in SubEvents : Told(i)' = Told(i)
    BY SubEventsGrow
<1>4. VersionSeen(j) => VersionSeen(j)'  BY <1>3 DEF VersionSeen
<1>5. ASSUME VersionSeen(j), SeenTo(j) PROVE SeenTo(j)'
  <2>1. ASSUME j.ask = "event", j.ev \in SubEvents'
        PROVE  /\ j.pc \in {"refresh", "sync", "mark"} => j.ev \in applied'
               /\ j.pc = "sync" => j.ev <= j.ver
               /\ j.pc = "mark" => j.ev <= version'.org
    <3>1. j.ev \in SubEvents  BY <1>1, <1>3, <2>1
    <3> QED  BY <1>1, <1>2, <1>5, <2>1, <3>1 DEF SeenTo
  <2>2. ASSUME j.pc = "sync", LastTold(j.ver)' PROVE j.snap = Told(j.ver)'
    <3>1. LastTold(j.ver)  BY <1>1, <1>3, <2>2
    <3>2. j.ver \in SubEvents  BY <1>5, <2>2, <3>1 DEF VersionSeen, LastTold
    <3>3. Told(j.ver)' = Told(j.ver)  BY <1>3, <3>2
    <3> QED  BY <1>5, <2>2, <3>1, <3>3 DEF SeenTo
  <2> QED  BY <2>1, <2>2 DEF SeenTo
<1> QED  BY <1>4, <1>5

LEMMA FollowStep ==
    ASSUME BillingTypes, FollowInv, EventsGrow,
           NEW w \in Workers, NEW row \in Jobs(Len(events')), job' = [job EXCEPT ![w] = row],
           applied \subseteq applied', version.org <= version'.org, version'.org \in Nat,
           overtaken => overtaken', Versions', VersionSeen(row)',
           ~overtaken /\ ~overtaken' => OneCustomer' /\ Answered' /\ Values' /\ SeenTo(row)'
    PROVE  FollowInv'
<1> USE BillingBounds
<1>1. \A v \in Workers : job'[v] = IF v = w THEN row ELSE job[v]  OBVIOUS
<1>2. ASSUME NEW v \in Workers
      PROVE  VersionSeen(job[v])' /\ (~overtaken /\ ~overtaken' => SeenTo(job[v])')
  <2>1. CASE v = w
    <3>1. job'[v] = row  BY <1>1, <2>1
    <3> QED  BY <3>1 DEF VersionSeen, SeenTo
  <2>2. CASE v # w
    <3>1. PICK j \in Jobs(Len(events)) : j = job[v]  OBVIOUS
    <3>2. job'[v] = j  BY <1>1, <2>2, <3>1
    <3>3. VersionSeen(j) /\ (~overtaken => SeenTo(j))  BY <3>1 DEF FollowInv
    <3>4. VersionSeen(j)' /\ (~overtaken => SeenTo(j)')  BY <3>3, OthersFollow
    <3> QED  BY <3>2, <3>4 DEF VersionSeen, SeenTo
  <2> QED  BY <2>1, <2>2
<1> QED  BY <1>2 DEF FollowInv

\* ... and without a worker
LEMMA FollowOutside ==
    ASSUME BillingTypes, FollowInv, EventsGrow, UNCHANGED <<job, applied, version>>,
           overtaken' = overtaken, Versions',
           ~overtaken => OneCustomer' /\ Answered' /\ Values'
    PROVE  FollowInv'
<1> USE BillingBounds
<1>1. ASSUME NEW v \in Workers
      PROVE  VersionSeen(job[v])' /\ (~overtaken => SeenTo(job[v])')
  <2>1. PICK j \in Jobs(Len(events)) : j = job[v]  OBVIOUS
  <2>2. job'[v] = j  BY <2>1
  <2>3. VersionSeen(j) /\ (~overtaken => SeenTo(j))  BY <2>1 DEF FollowInv
  <2>4. version.org <= version'.org /\ version'.org \in Nat  BY VersionNumbers
  <2>5. VersionSeen(j)' /\ (~overtaken => SeenTo(j)')  BY <2>3, <2>4, OthersFollow
  <2> QED  BY <2>2, <2>5 DEF VersionSeen, SeenTo
<1> QED  BY <1>1 DEF FollowInv

\* Nothing that the account, the mirror and the deliveries are about.
LEMMA OnlyWorkFollows ==
    ASSUME BillingTypes, FollowInv,
           UNCHANGED <<account, org, stripe, owed, marked, applied, version, overtaken>>,
           NEW w \in Workers, NEW row \in Jobs(Len(events)), job' = [job EXCEPT ![w] = row],
           VersionSeen(row), ~overtaken => SeenTo(row)
    PROVE  FollowInv'
<1> USE BillingBounds
<1>1. events' = events /\ session' = session  BY DEF stripe
<1>2. EventsGrow  BY <1>1, EventsStay
<1>3. version.org <= version'.org /\ version'.org \in Nat  BY VersionNumbers
<1>4. Versions'  BY <1>1 DEF FollowInv, Versions, SubEvents
<1>5. VersionSeen(row)'  BY <1>1 DEF VersionSeen, SubEvents
<1>6. ASSUME ~overtaken PROVE OneCustomer' /\ Answered' /\ Values' /\ SeenTo(row)'
  <2>1. OneCustomer'  BY <1>1, <1>6 DEF FollowInv, OneCustomer
  <2>2. Answered'  BY <1>1, <1>6 DEF FollowInv, Answered, SubEvents
  <2>3. Values'
    <3>1. Values  BY <1>6 DEF FollowInv
    <3> QED  BY <1>1, <3>1 DEF Values, LastTold, Told, SubEvents
  <2>4. SeenTo(row)'
    <3>1. SeenTo(row)  BY <1>6
    <3> QED  BY <1>1, <3>1 DEF SeenTo, LastTold, Told, SubEvents
  <2> QED  BY <2>1, <2>2, <2>3, <2>4
<1> QED  BY <1>1, <1>2, <1>3, <1>4, <1>5, <1>6, FollowStep

\* Work that has not come to the mirror yet, or has nothing to do with it.
LEMMA NothingToSee ==
    ASSUME NEW j,
           j.pc \notin {"refresh", "sync", "mark"} \/ (j.pc = "mark" /\ j.ev \notin SubEvents)
    PROVE  VersionSeen(j) /\ SeenTo(j)
BY DEF VersionSeen, SeenTo

-----------------------------------------------------------------------------
\* Account and mirror, step by step of the handlers and of the routes.
LEMMA StartsFollow ==
    ASSUME BillingTypes, FollowInv, NEW w \in Workers, NEW i \in 1..Len(events),
           Deliver(w, i) \/ DeliverAgain(w, i)
    PROVE  FollowInv'
<1>1. PICK row \in Jobs(Len(events)) : job' = [job EXCEPT ![w] = row] /\ row.pc = "look"
    BY Handles DEF Deliver, DeliverAgain
<1>2. UNCHANGED <<account, org, stripe, owed, marked, applied, version, overtaken>>
    BY DEF Deliver, DeliverAgain, ghosts
<1>3. VersionSeen(row) /\ SeenTo(row)  BY <1>1, NothingToSee
<1> QED  BY <1>1, <1>2, <1>3, OnlyWorkFollows

LEMMA LookFollows ==
    ASSUME BillingTypes, FollowInv, NEW w \in Workers, Look(w)
    PROVE  FollowInv'
<1> USE BillingBounds
<1>1. UNCHANGED <<account, org, stripe, owed, marked, applied, version, overtaken>>
    BY DEF Look, LookSubscription, LookCheckout, LookCard, LookInvoice, LookIntent, ghosts
<1>2. job[w].ev \in 1..Len(events) /\ Evt(w) = events[job[w].ev] /\ Evt(w) \in Event
    BY EvtOf DEF Look, Handling
<1>3. Evt(w).kind # "subscription" => job[w].ev \notin SubEvents  BY <1>2 DEF SubEvents
<1>4. ASSUME NEW pc \in {"attach", "mark", "clear", "save"}, Goto(w, pc),
             ~overtaken /\ pc = "mark" => Evt(w).kind # "subscription"
      PROVE  FollowInv'
  <2>1. PICK row \in Jobs(Len(events)) : /\ job' = [job EXCEPT ![w] = row]
                                         /\ row.pc = pc /\ row.ev = job[w].ev
    BY <1>4, GoesTo DEF Steps
  <2>2. VersionSeen(row)  BY <2>1 DEF VersionSeen
  <2>3. ~overtaken => SeenTo(row)  BY <1>3, <1>4, <2>1, NothingToSee
  <2> QED  BY <1>1, <2>1, <2>2, <2>3, OnlyWorkFollows
<1>5. CASE LookSubscription(w)
  <2>1. PICK pc \in {"attach", "mark"} : Goto(w, pc) /\ (AccountFound(Evt(w)) => pc = "attach")
    BY <1>5 DEF LookSubscription
  <2>2. ~overtaken => AccountFound(Evt(w))
    BY <1>2, <1>5 DEF FollowInv, OneCustomer, AccountFound, LookSubscription
  <2> QED  BY <1>4, <2>1, <2>2
<1>6. CASE LookCheckout(w)
  <2>1. PICK pc \in {"attach", "mark"} : Goto(w, pc)  BY <1>6 DEF LookCheckout
  <2>2. Evt(w).kind # "subscription"  BY <1>6 DEF LookCheckout
  <2> QED  BY <1>4, <2>1, <2>2
<1>7. CASE LookCard(w)
  <2>1. Goto(w, "clear") \/ Goto(w, "mark")  BY <1>7 DEF LookCard
  <2>2. Evt(w).kind # "subscription"  BY <1>7 DEF LookCard
  <2> QED  BY <1>4, <2>1, <2>2
<1>8. CASE LookIntent(w)
  <2>1. Goto(w, "save") \/ Goto(w, "mark")  BY <1>8 DEF LookIntent
  <2>2. Evt(w).kind # "subscription"  BY <1>8 DEF LookIntent
  <2> QED  BY <1>4, <2>1, <2>2
<1>9. CASE LookInvoice(w)
  <2>1. PICK pc \in {"save", "mark"} : job' = [job EXCEPT ![w].pc = pc, ![w].saw = InvoiceFound]
    BY <1>9 DEF LookInvoice
  <2>2. PICK j \in Jobs(Len(events)) : j = job[w]  OBVIOUS
  <2>3. PICK saw \in BOOLEAN : saw = InvoiceFound
    <3>1. InvoiceFound \in BOOLEAN  BY Zenon DEF InvoiceFound
    <3> QED  BY Zenon, <3>1
  <2>4. PICK row \in Jobs(Len(events)) : row = [j EXCEPT !.pc = pc, !.saw = saw]
    BY DEF Jobs, Steps
  <2>5. job' = [job EXCEPT ![w] = row]  BY Zenon, <2>1, <2>2, <2>3, <2>4
  <2>6. row.pc = pc /\ row.ev = job[w].ev  BY <2>2, <2>4 DEF Jobs
  <2>7. job[w].ev \notin SubEvents  BY <1>3, <1>9 DEF LookInvoice
  <2>8. VersionSeen(row) /\ SeenTo(row)  BY <2>6, <2>7, NothingToSee
  <2> QED  BY <1>1, <2>5, <2>8, OnlyWorkFollows
<1> QED  BY <1>5, <1>6, <1>7, <1>8, <1>9 DEF Look

LEMMA OtherKindsFollow ==
    ASSUME BillingTypes, FollowInv, NEW w \in Workers,
           SaveInvoice(w) \/ ClearDefaults(w) \/ InsertCard(w)
    PROVE  FollowInv'
<1> USE BillingBounds
<1>1. UNCHANGED <<account, org, stripe, owed, marked, applied, version, overtaken>>
    BY DEF SaveInvoice, ClearDefaults, InsertCard, ghosts, stripe
<1>2. PICK j \in Jobs(Len(events)) : j = job[w]  OBVIOUS
<1>3. j.ev \in 1..Len(events) /\ Evt(w) = events[j.ev] /\ WorkFits(j)
    BY <1>2, EvtOf DEF SaveInvoice, ClearDefaults, InsertCard, Handling
<1>4. CASE SaveInvoice(w)
  <2>1. j.ev \notin SubEvents
    BY <1>3, <1>4 DEF SaveInvoice, UpsertInvoice, MarkInvoicePaid, MarkInvoiceFailed, SubEvents
  <2>2. PICK row \in Jobs(Len(events)) : row = [j EXCEPT !.pc = "mark", !.saw = FALSE]
    <3>1. FALSE \in BOOLEAN  OBVIOUS
    <3>2. \A b \in BOOLEAN : [j EXCEPT !.pc = "mark", !.saw = b] \in Jobs(Len(events))
      BY DEF Jobs, Steps
    <3> QED  BY <3>1, <3>2
  <2>3. job' = [job EXCEPT ![w] = row]  BY <1>2, <1>4, <2>2 DEF SaveInvoice
  <2>4. row.pc = "mark" /\ row.ev = j.ev  BY <2>2 DEF Jobs
  <2>5. VersionSeen(row) /\ SeenTo(row)  BY <2>1, <2>4, NothingToSee
  <2> QED  BY <1>1, <2>3, <2>5, OnlyWorkFollows
<1>5. CASE ClearDefaults(w)
  <2>1. PICK ids \in SUBSET (1..MaxRows) : ids = {r.id : r \in {c \in cards : c.default}}
    <3>1. \A r \in cards : r.id \in 1..MaxRows  BY DEF BillingTypes, TypeOK, Card
    <3> QED  BY <3>1
  <2>2. PICK row \in Jobs(Len(events)) : row = [j EXCEPT !.pc = "insert", !.cleared = ids]
    BY DEF Jobs, Steps
  <2>3. job' = [job EXCEPT ![w] = row]  BY <1>2, <1>5, <2>1, <2>2 DEF ClearDefaults
  <2>4. row.pc = "insert"  BY <2>2 DEF Jobs
  <2>5. VersionSeen(row) /\ SeenTo(row)  BY <2>4, NothingToSee
  <2> QED  BY <1>1, <2>3, <2>5, OnlyWorkFollows
<1>6. CASE InsertCard(w)
  <2>1. events[j.ev].kind = "card"  BY <1>2, <1>3, <1>6 DEF InsertCard, WorkFits
  <2>2. j.ev \notin SubEvents  BY <2>1 DEF SubEvents
  <2>3. PICK row \in Jobs(Len(events)) : row = [j EXCEPT !.pc = "mark", !.cleared = {}]
    BY DEF Jobs, Steps
  <2>4. job' = [job EXCEPT ![w] = row]  BY <1>2, <1>6, <2>3 DEF InsertCard
  <2>5. row.pc = "mark" /\ row.ev = j.ev  BY <2>3 DEF Jobs
  <2>6. VersionSeen(row) /\ SeenTo(row)  BY <2>2, <2>5, NothingToSee
  <2> QED  BY <1>1, <2>4, <2>6, OnlyWorkFollows
<1> QED  BY <1>4, <1>5, <1>6

LEMMA RefreshFollows ==
    ASSUME BillingTypes, FollowInv, NEW w \in Workers, Refresh(w)
    PROVE  FollowInv'
<1> USE BillingBounds
<1>1. UNCHANGED <<account, org, stripe, owed, marked, applied, version, overtaken>>
    BY DEF Refresh, ghosts
<1>2. PICK j \in Jobs(Len(events)) : j = job[w]  OBVIOUS
<1>3. PICK a \in Account : a = account  BY DEF BillingTypes, TypeOK
<1>4. PICK v \in 0..Len(events) : v = version.account  BY VersionNumbers
<1>5. PICK row \in Jobs(Len(events)) : row = [j EXCEPT !.pc = "sync", !.snap = a, !.ver = v]
    BY DEF Jobs, Steps
<1>6. job' = [job EXCEPT ![w] = row]  BY <1>2, <1>3, <1>4, <1>5 DEF Refresh
<1>7. /\ row.pc = "sync" /\ row.snap = a /\ row.ver = v
      /\ row.ask = j.ask /\ row.ev = j.ev
    BY <1>5 DEF Jobs
<1>8. j.pc = "refresh"  BY <1>2 DEF Refresh
<1>9. VersionSeen(row)  BY <1>4, <1>7 DEF FollowInv, Versions, VersionSeen
<1>10. ASSUME ~overtaken PROVE SeenTo(row)
  <2>1. SeenTo(j) /\ Values  BY <1>2, <1>10 DEF FollowInv
  <2>2. \A i \in applied : i <= v  BY <1>4 DEF FollowInv, Versions
  <2>3. LastTold(v) => a = Told(v)  BY <1>3, <1>4, <2>1 DEF Values
  <2> QED  BY <1>7, <1>8, <2>1, <2>2, <2>3 DEF SeenTo
<1> QED  BY <1>1, <1>6, <1>9, <1>10, OnlyWorkFollows

LEMMA FailsFollows ==
    ASSUME BillingTypes, FollowInv, NEW w \in Workers, Fails(w)
    PROVE  FollowInv'
<1>1. UNCHANGED <<account, org, stripe, owed, marked, applied, version, overtaken>>
    BY DEF Fails, ghosts
<1>2. job' = [job EXCEPT ![w] = Idle]  BY DEF Fails
<1>3. VersionSeen(Idle) /\ SeenTo(Idle)  BY NothingToSee DEF Idle
<1>4. Idle \in Jobs(Len(events))  BY IdleTyped, BillingBounds
<1> QED  BY <1>1, <1>2, <1>3, <1>4, OnlyWorkFollows

LEMMA FinishFollows ==
    ASSUME BillingTypes, FollowInv, NEW w \in Workers,
           Finish(w) \/ MarkLost(w) \/ AnswerLost(w)
    PROVE  FollowInv'
<1> USE BillingBounds
<1>1. UNCHANGED <<account, org, session, events, applied, version, overtaken>>
    BY DEF Finish, MarkLost, AnswerLost, ghosts, stripe
<1>2. /\ job' = [job EXCEPT ![w] = Idle]
      /\ job[w].pc = "mark"
      /\ marked' \subseteq marked \cup {job[w].ev} /\ owed \subseteq owed' \cup {job[w].ev}
    BY DEF Finish, MarkLost, AnswerLost
<1>3. WorkFits(job[w])  BY <1>2, EvtOf DEF Handling
<1>4. job[w].ask = "event"  BY <1>2, <1>3 DEF WorkFits, Handling
<1>5. EventsGrow /\ Idle \in Jobs(Len(events'))  BY <1>1, EventsStay, IdleTyped
<1>6. version.org <= version'.org /\ version'.org \in Nat  BY <1>1, VersionNumbers
<1>7. Versions'  BY <1>1 DEF FollowInv, Versions, SubEvents
<1>9. ASSUME ~overtaken PROVE OneCustomer' /\ Answered' /\ Values'
  <2>1. OneCustomer'  BY <1>1, <1>9 DEF FollowInv, OneCustomer
  <2>2. Answered'
    <3>1. Answered /\ SeenTo(job[w])  BY <1>9 DEF FollowInv
    <3>2. job[w].ev \in SubEvents => job[w].ev \in applied /\ job[w].ev <= version.org
      BY <1>2, <1>4, <3>1 DEF SeenTo
    <3>3. SubEvents' = SubEvents  BY <1>1 DEF SubEvents
    <3>4. \A i \in SubEvents : i \notin owed' \/ i \in marked' =>
              i \notin owed \/ i \in marked \/ i = job[w].ev
      BY <1>2
    <3> QED  BY <1>1, <3>1, <3>2, <3>3, <3>4 DEF Answered
  <2>3. Values'
    <3>1. Values  BY <1>9 DEF FollowInv
    <3> QED  BY <1>1, <3>1 DEF Values, LastTold, Told, SubEvents
  <2> QED  BY <2>1, <2>2, <2>3
<1>11. PICK row \in Jobs(Len(events')) : row = Idle  BY <1>5
<1>12. VersionSeen(row)' /\ SeenTo(row)'  BY <1>11 DEF Idle, VersionSeen, SeenTo
<1>13. job' = [job EXCEPT ![w] = row]  BY <1>2, <1>11
<1> QED  BY <1>1, <1>5, <1>6, <1>7, <1>9, <1>12, <1>13, FollowStep

LEMMA SyncFollows ==
    ASSUME BillingTypes, FollowInv, NEW w \in Workers, Sync(w)
    PROVE  FollowInv'
<1> USE BillingBounds
<1>1. UNCHANGED <<account, session, events, owed, marked, applied>>  BY DEF Sync, stripe
<1>2. PICK j \in Jobs(Len(events)) : j = job[w]  OBVIOUS
<1>3. j.pc = "sync" /\ j.ver \in 0..Len(events) /\ j.ver \in SubEvents \cup {0}
  <2>1. j.pc = "sync"  BY <1>2 DEF Sync
  <2> QED  BY <1>2, <2>1, JobFields DEF FollowInv, VersionSeen
<1>4. version.org \in 0..Len(events) /\ version.account \in 0..Len(events)  BY VersionNumbers
<1>5. /\ version'.account = version.account
      /\ version'.org = IF version.org < j.ver THEN j.ver ELSE version.org
    BY <1>2 DEF Sync, BillingTypes, TypeOK, Newer
<1>6. org' = j.snap  BY <1>2 DEF Sync
<1>7. overtaken => overtaken'  BY DEF Sync
<1>8. ~overtaken' => ~overtaken /\ ~(j.ver < version.org)  BY <1>2 DEF Sync
<1>9. SubEvents' = SubEvents  BY <1>1 DEF SubEvents
<1>10. Versions'
  <2>1. Versions  BY DEF FollowInv
  <2>2. version'.org \in SubEvents \cup {0}  BY <1>3, <1>5, <2>1 DEF Versions
  <2> QED  BY <1>1, <1>5, <1>9, <2>1, <2>2 DEF Versions
<1>11. PICK row \in Jobs(Len(events)) :
          /\ job' = [job EXCEPT ![w] = row]
          /\ \/ row.pc = "idle"
             \/ row.pc = "mark" /\ row.ask = j.ask /\ row.ev = j.ev /\ j.ask = "event"
  <2>1. PICK idle \in Jobs(Len(events)) : idle = Idle  BY IdleTyped
  <2>2. CASE j.ask = "event"
    <3>1. j.ev \in 0..Len(events)  BY JobFields
    <3>2. PICK row \in Jobs(Len(events)) :
             row = [idle EXCEPT !.pc = "mark", !.ask = "event", !.ev = j.ev]
      BY <3>1 DEF Jobs, Steps, Asks
    <3>3. job' = [job EXCEPT ![w] = row]  BY <1>2, <2>1, <2>2, <3>2 DEF Sync
    <3>4. row.pc = "mark" /\ row.ask = "event" /\ row.ev = j.ev  BY <3>2 DEF Jobs
    <3> QED  BY <2>2, <3>3, <3>4
  <2>3. CASE j.ask # "event"
    <3>1. job' = [job EXCEPT ![w] = idle]  BY <1>2, <2>1, <2>3 DEF Sync
    <3>2. idle.pc = "idle"  BY <2>1 DEF Idle
    <3> QED  BY <3>1, <3>2
  <2> QED  BY <2>2, <2>3
<1>12. VersionSeen(row)'  BY <1>11 DEF VersionSeen
<1>13. ASSUME ~overtaken, ~overtaken' PROVE OneCustomer' /\ Answered' /\ Values' /\ SeenTo(row)'
  <2>1. OneCustomer /\ Answered /\ Values /\ SeenTo(j)  BY <1>2, <1>13 DEF FollowInv
  <2>2. version'.org = j.ver /\ version.org <= j.ver  BY <1>3, <1>4, <1>5, <1>8, <1>13
  <2>3. OneCustomer'  BY <1>1, <2>1 DEF OneCustomer
  <2>4. Answered'
    <3>1. \A i \in SubEvents : i <= version.org => i <= version'.org
      BY <1>3, <1>4, <2>2, VersionNumbers
    <3> QED  BY <1>1, <1>9, <2>1, <3>1 DEF Answered
  <2>5. Values'
    <3>2. Told(version.account)' = Told(version.account)  BY <1>1, <1>5 DEF Told
    <3>3. Told(version.org)' = Told(j.ver)  BY <1>1, <2>2 DEF Told
    <3>4. LastTold(version.account)' => LastTold(version.account)
      BY <1>5, <1>9 DEF LastTold
    <3>5. LastTold(version.org)' => LastTold(j.ver)  BY <1>9, <2>2 DEF LastTold
    <3>6. LastTold(j.ver) => j.snap = Told(j.ver)  BY <1>3, <2>1 DEF SeenTo
    <3> QED  BY <1>1, <1>6, <2>1, <3>2, <3>3, <3>4, <3>5, <3>6 DEF Values
  <2>6. SeenTo(row)'
    <3>1. j.ask = "event" /\ j.ev \in SubEvents => j.ev \in applied /\ j.ev <= j.ver
      BY <1>3, <2>1 DEF SeenTo
    <3> QED  BY <1>1, <1>9, <1>11, <2>2, <3>1 DEF SeenTo
  <2> QED  BY <2>3, <2>4, <2>5, <2>6
<1>14. EventsGrow /\ row \in Jobs(Len(events'))  BY <1>1, <1>11, EventsStay
<1>15. version.org <= version'.org /\ version'.org \in Nat  BY <1>3, <1>4, <1>5
<1> QED  BY <1>1, <1>7, <1>10, <1>11, <1>12, <1>13, <1>14, <1>15, FollowStep

\* An older value than the newest is written, or nothing of what Stripe told last changes.
LEMMA AccountFollows ==
    ASSUME BillingTypes, FollowInv, UNCHANGED <<org, events, owed, marked, applied, version>>,
           overtaken => overtaken',
           NEW w \in Workers, NEW row \in Jobs(Len(events)), job' = [job EXCEPT ![w] = row],
           VersionSeen(row),
           ~overtaken /\ ~overtaken' => /\ OneCustomer' /\ SeenTo(row)
                                        /\ LastTold(version.account) => account' = account
    PROVE  FollowInv'
<1>1. EventsGrow  BY EventsStay
<1>2. version.org <= version'.org /\ version'.org \in Nat  BY BillingBounds, VersionNumbers
<1>3. Versions'  BY DEF FollowInv, Versions, SubEvents
<1>4. VersionSeen(row)'  BY DEF VersionSeen, SubEvents
<1>5. ASSUME ~overtaken, ~overtaken' PROVE Answered' /\ Values' /\ SeenTo(row)'
  <2>1. Answered'  BY <1>5 DEF FollowInv, Answered, SubEvents
  <2>2. Values'
    <3>1. Values /\ (LastTold(version.account) => account' = account)  BY <1>5 DEF FollowInv
    <3> QED  BY <3>1 DEF Values, LastTold, Told, SubEvents
  <2>3. SeenTo(row)'
    <3>1. SeenTo(row)  BY <1>5
    <3> QED  BY <3>1 DEF SeenTo, LastTold, Told, SubEvents
  <2> QED  BY <2>1, <2>2, <2>3
<1> QED  BY <1>1, <1>2, <1>3, <1>4, <1>5, FollowStep

\* What the account is like when it has what Stripe told last.
LEMMA ToldFields ==
    ASSUME BillingTypes, NEW i \in SubEvents
    PROVE  /\ Told(i) \in Account /\ events[i] \in SubEvent
           /\ Told(i).cust = events[i].cust /\ Told(i).sub = events[i].sub
           /\ Told(i).status = MapStatus(events[i].status) /\ Told(i).cancel = events[i].cancel
           /\ Told(i).price = events[i].price /\ Told(i).periodEnd = events[i].until
           /\ \A a \in Account : Updates(a, events[i]) = Told(i)
<1>1. events[i] \in SubEvent  BY BillingBounds, EventKinds DEF SubEvents
<1>2. PICK e \in SubEvent : e = events[i]  BY <1>1
<1>3. Told(i) = Updates(NoAccount, e)  BY <1>2 DEF Told
<1>4. \A a \in Account : Updates(a, e) = Updates(NoAccount, e)
  <2> TAKE a \in Account
  <2>1. /\ Updates(a, e) \in Account /\ Updates(NoAccount, e) \in Account
        /\ Updates(a, e).cust = Updates(NoAccount, e).cust
        /\ Updates(a, e).sub = Updates(NoAccount, e).sub
        /\ Updates(a, e).status = Updates(NoAccount, e).status
        /\ Updates(a, e).cancel = Updates(NoAccount, e).cancel
        /\ Updates(a, e).price = Updates(NoAccount, e).price
        /\ Updates(a, e).trialEnd = Updates(NoAccount, e).trialEnd
        /\ Updates(a, e).periodEnd = Updates(NoAccount, e).periodEnd
    BY NoAccountTyped, UpdatesTyped
  <2> QED  BY <2>1, SameAccount
<1>5. /\ Updates(NoAccount, e) \in Account
      /\ Updates(NoAccount, e).cust = e.cust /\ Updates(NoAccount, e).sub = e.sub
      /\ Updates(NoAccount, e).status = MapStatus(e.status)
      /\ Updates(NoAccount, e).cancel = e.cancel
      /\ Updates(NoAccount, e).price = e.price /\ Updates(NoAccount, e).periodEnd = e.until
    BY NoAccountTyped, UpdatesTyped
<1> QED  BY <1>2, <1>3, <1>4, <1>5

LEMMA AttachFollows ==
    ASSUME BillingTypes, FollowInv, NEW w \in Workers, Attach(w)
    PROVE  FollowInv'
<1> USE BillingBounds
<1>1. UNCHANGED <<org, session, events, owed, marked, applied, version>>  BY DEF Attach, stripe
<1>2. PICK j \in Jobs(Len(events)) : j = job[w]  OBVIOUS
<1>3. j.pc = "attach" /\ j.ev \in 1..Len(events) /\ Evt(w) = events[j.ev] /\ Evt(w) \in Event
      /\ WorkFits(j)
    BY <1>2, EvtOf DEF Attach, Handling
<1>4. PICK e \in Event : e = Evt(w) /\ e = events[j.ev]  BY <1>3
<1>5. e.kind \in {"subscription", "checkout"}  BY <1>3, <1>4 DEF WorkFits
<1>6. overtaken => overtaken'  BY DEF Attach
<1>7. ~overtaken' => /\ ~overtaken /\ ~(j.ev < version.account)
                     /\ ~(e.kind = "checkout" /\ account.sub \notin {None, e.sub})
    BY <1>2, <1>4 DEF Attach
<1>8. PICK a \in Account : a = account  BY DEF BillingTypes, TypeOK
<1>9. account' = [a EXCEPT !.cust = e.cust, !.sub = e.sub]  BY <1>4, <1>8 DEF Attach
<1>10. e.cust \in Customers /\ e.sub \in Subs  BY <1>5, EventKinds
<1>11. /\ account' \in Account /\ account'.cust = e.cust /\ account'.sub = e.sub
       /\ account'.status = a.status /\ account'.price = a.price
       /\ account'.trialEnd = a.trialEnd /\ account'.periodEnd = a.periodEnd
    BY <1>9, <1>10 DEF Account
<1>12. account'.cancel = a.cancel  BY Zenon, <1>9 DEF Account
<1>13. PICK pc \in {"update", "mark"} : /\ Goto(w, pc)
                                        /\ pc = "mark" => e.kind # "subscription"
    BY <1>4 DEF Attach
<1>14. PICK row \in Jobs(Len(events)) : /\ job' = [job EXCEPT ![w] = row]
                                        /\ row.pc = pc /\ row.ev = j.ev
    BY <1>2, <1>13, GoesTo DEF Steps
<1>15. VersionSeen(row) /\ SeenTo(row)
  <2>1. pc = "mark" => j.ev \notin SubEvents  BY <1>4, <1>13 DEF SubEvents
  <2> QED  BY <1>14, <2>1, NothingToSee
<1>16. ASSUME ~overtaken, ~overtaken'
       PROVE  OneCustomer' /\ (LastTold(version.account) => account' = account)
  <2>1. OneCustomer /\ Values  BY <1>16 DEF FollowInv
  <2>2. account'.cust = account.cust
    BY <1>3, <1>4, <1>5, <1>11, <2>1 DEF OneCustomer
  <2>3. OneCustomer'  BY <1>1, <2>1, <2>2 DEF OneCustomer
  <2>4. ASSUME LastTold(version.account) PROVE account' = account
    <3>1. PICK v \in SubEvents : v = version.account
      BY <2>4 DEF LastTold, FollowInv, Versions
    <3>2. account = Told(v)  BY <2>1, <2>4, <3>1 DEF Values
    <3>3. account.sub = events[v].sub /\ events[v] \in SubEvent  BY <3>2, ToldFields
    <3>4. e.sub = account.sub
      <4>1. CASE e.kind = "subscription"
        <5>1. j.ev \in SubEvents  BY <1>3, <1>4, <4>1 DEF SubEvents
        <5>2. j.ev <= v /\ ~(j.ev < v)  BY <1>7, <1>16, <2>4, <3>1, <5>1 DEF LastTold
        <5>3. j.ev = v  BY <1>3, <3>1, <5>2, VersionNumbers
        <5> QED  BY <1>4, <3>3, <5>3
      <4>2. CASE e.kind = "checkout"
        <5>1. account.sub \in {None, e.sub}  BY <1>7, <1>16, <4>2
        <5>2. account.sub \in Subs  BY <3>3 DEF SubEvent
        <5> QED  BY <5>1, <5>2
      <4> QED  BY <1>5, <4>1, <4>2
    <3>5. account' = a  BY <1>8, <1>11, <1>12, <2>2, <3>4, SameAccount
    <3> QED  BY <1>8, <3>5
  <2> QED  BY <2>3, <2>4
<1> QED  BY <1>1, <1>6, <1>14, <1>15, <1>16, AccountFollows

LEMMA WriteFollows ==
    ASSUME BillingTypes, FollowInv, NEW w \in Workers, WriteLocally(w)
    PROVE  FollowInv'
<1> USE BillingBounds
<1>1. UNCHANGED <<org, session, events, owed, marked, applied, version>>
    BY DEF WriteLocally, stripe
<1>2. PICK j \in Jobs(Len(events)) : j = job[w]  OBVIOUS
<1>3. j.pc = "called" /\ j.ev \in 1..Len(events) /\ Evt(w) = events[j.ev] /\ Evt(w) \in Event
      /\ WorkFits(j)
    BY <1>2, EvtOf DEF WriteLocally
<1>4. j.ev \in SubEvents /\ j.ask # "event" /\ (j.ask = "cancel" => events[j.ev].cancel)
    BY <1>3 DEF WorkFits, SubEvents
<1>5. PICK e \in SubEvent : e = events[j.ev]  BY <1>4, ToldFields
<1>6. overtaken => overtaken'  BY DEF WriteLocally
<1>7. ~overtaken' => ~overtaken /\ ~(j.ev < version.account)  BY <1>2 DEF WriteLocally
<1>8. PICK a \in Account : a = account  BY DEF BillingTypes, TypeOK
<1>9. PICK row \in Jobs(Len(events)) : /\ job' = [job EXCEPT ![w] = row]
                                       /\ row.pc = "refresh" /\ row.ask = j.ask
    BY <1>2, GoesTo DEF Steps, WriteLocally
<1>10. VersionSeen(row) /\ SeenTo(row)  BY <1>4, <1>9 DEF VersionSeen, SeenTo
<1>11. \/ account' = [a EXCEPT !.price = e.price]
       \/ account' = [a EXCEPT !.cancel = TRUE, !.periodEnd = e.until] /\ j.ask = "cancel"
    BY <1>2, <1>3, <1>5, <1>8 DEF WriteLocally, WritePrice, WriteCancel
<1>12. account'.cust = a.cust  BY <1>11 DEF Account
<1>13. ASSUME ~overtaken, ~overtaken'
       PROVE  OneCustomer' /\ (LastTold(version.account) => account' = account)
  <2>1. OneCustomer /\ Values  BY <1>13 DEF FollowInv
  <2>2. OneCustomer'  BY <1>1, <1>8, <1>12, <2>1 DEF OneCustomer
  <2>3. ASSUME LastTold(version.account) PROVE account' = account
    <3>1. PICK v \in SubEvents : v = version.account
      BY <2>3 DEF LastTold, FollowInv, Versions
    <3>2. j.ev <= v /\ ~(j.ev < v)  BY <1>4, <1>7, <1>13, <2>3, <3>1 DEF LastTold
    <3>3. j.ev = v  BY <1>3, <3>1, <3>2, VersionNumbers
    <3>4. a = Told(v)  BY <1>8, <2>1, <2>3, <3>1 DEF Values
    <3>5. a.price = e.price /\ a.periodEnd = e.until /\ a.cancel = e.cancel
      BY <1>5, <3>3, <3>4, ToldFields
    <3>6. CASE account' = [a EXCEPT !.price = e.price]
      <4>1. [a EXCEPT !.price = a.price] = a  BY DEF Account
      <4> QED  BY <1>8, <3>5, <3>6, <4>1
    <3>7. CASE account' = [a EXCEPT !.cancel = TRUE, !.periodEnd = e.until] /\ j.ask = "cancel"
      <4>1. e.cancel  BY <1>4, <1>5, <3>7
      <4>2. e.cancel = TRUE
        <5>1. e.cancel \in BOOLEAN  BY DEF SubEvent
        <5> QED  BY Zenon, <4>1, <5>1
      <4>3. account' = [a EXCEPT !.cancel = a.cancel, !.periodEnd = a.periodEnd]
        BY Zenon, <3>5, <3>7, <4>2
      <4>4. [a EXCEPT !.cancel = a.cancel, !.periodEnd = a.periodEnd] = a  BY DEF Account
      <4> QED  BY <1>8, <4>3, <4>4
    <3> QED  BY <1>11, <3>6, <3>7
  <2> QED  BY <2>2, <2>3
<1> QED  BY <1>1, <1>6, <1>9, <1>10, <1>13, AccountFollows

LEMMA UpdateFollows ==
    ASSUME BillingTypes, FollowInv, NEW w \in Workers, Update(w)
    PROVE  FollowInv'
<1> USE BillingBounds
<1>1. UNCHANGED <<org, session, events, owed, marked>>  BY DEF Update, stripe
<1>2. PICK j \in Jobs(Len(events)) : j = job[w]  OBVIOUS
<1>3. j.pc = "update" /\ j.ev \in 1..Len(events) /\ Evt(w) = events[j.ev] /\ WorkFits(j)
    BY <1>2, EvtOf DEF Update, Handling
<1>4. j.ev \in SubEvents  BY <1>3 DEF WorkFits, SubEvents
<1>5. account \in Account  BY DEF BillingTypes, TypeOK
<1>6. account' = Told(j.ev)  BY <1>3, <1>4, <1>5, ToldFields DEF Update
<1>7. applied' = applied \cup {j.ev}  BY <1>2 DEF Update
<1>8. version.org \in 0..Len(events) /\ version.account \in 0..Len(events)  BY VersionNumbers
<1>9. /\ version'.org = version.org
      /\ version'.account = IF version.account < j.ev THEN j.ev ELSE version.account
    BY <1>2 DEF Update, BillingTypes, TypeOK, Newer
<1>10. overtaken => overtaken'  BY DEF Update
<1>11. ~overtaken' => ~overtaken /\ ~(j.ev < version.account)  BY <1>2 DEF Update
<1>12. SubEvents' = SubEvents  BY <1>1 DEF SubEvents
<1>13. Versions'
  <2>1. Versions  BY DEF FollowInv
  <2>2. version'.account \in SubEvents \cup {0}  BY <1>4, <1>9, <2>1 DEF Versions
  <2>3. ASSUME NEW i \in applied' PROVE i <= version'.account
    <3>1. CASE i = j.ev  BY <1>3, <1>8, <1>9, <3>1
    <3>2. CASE i \in applied
      <4>1. i <= version.account /\ i \in 1..Len(events)
        BY <2>1, <3>2, VersionNumbers DEF Versions
      <4> QED  BY <1>3, <1>8, <1>9, <4>1
    <3> QED  BY <1>7, <3>1, <3>2
  <2> QED  BY <1>4, <1>7, <1>9, <1>12, <2>1, <2>2, <2>3 DEF Versions
<1>14. PICK row \in Jobs(Len(events)) : /\ job' = [job EXCEPT ![w] = row]
                                        /\ row.pc = "refresh" /\ row.ev = j.ev
    BY <1>2, GoesTo DEF Steps, Update
<1>15. VersionSeen(row)'  BY <1>14 DEF VersionSeen
<1>16. ASSUME ~overtaken, ~overtaken' PROVE OneCustomer' /\ Answered' /\ Values' /\ SeenTo(row)'
  <2>1. OneCustomer /\ Answered /\ Values  BY <1>16 DEF FollowInv
  <2>2. version'.account = j.ev  BY <1>3, <1>8, <1>9, <1>11, <1>16
  <2>3. OneCustomer'
    <3>1. account'.cust = events[j.ev].cust  BY <1>4, <1>6, ToldFields
    <3>2. events[j.ev].kind # "intent"  BY <1>4 DEF SubEvents
    <3>3. account'.cust = account.cust  BY <1>3, <2>1, <3>1, <3>2 DEF OneCustomer
    <3> QED  BY <1>1, <2>1, <3>3 DEF OneCustomer
  <2>4. Answered'  BY <1>1, <1>7, <1>9, <1>12, <2>1 DEF Answered
  <2>5. Values'
    <3>1. Told(version.account)' = Told(j.ev)  BY <1>1, <2>2 DEF Told
    <3>2. Told(version.org)' = Told(version.org)  BY <1>1, <1>9 DEF Told
    <3>3. LastTold(version.org)' => LastTold(version.org)  BY <1>9, <1>12 DEF LastTold
    <3> QED  BY <1>1, <1>6, <2>1, <3>1, <3>2, <3>3 DEF Values
  <2>6. SeenTo(row)'  BY <1>7, <1>14 DEF SeenTo
  <2> QED  BY <2>3, <2>4, <2>5, <2>6
<1>17. EventsGrow /\ row \in Jobs(Len(events'))  BY <1>1, <1>14, EventsStay
<1>18. version.org <= version'.org /\ version'.org \in Nat /\ applied \subseteq applied'
    BY <1>7, <1>8, <1>9
<1> QED  BY <1>10, <1>13, <1>14, <1>15, <1>16, <1>17, <1>18, FollowStep

LEMMA AttachCustomerFollows ==
    ASSUME BillingTypes, FollowInv, NEW w \in Workers, AttachCustomer(w)
    PROVE  FollowInv'
<1> USE BillingBounds
<1>1. UNCHANGED <<org, events, owed, marked, applied, version>>  BY DEF AttachCustomer
<1>2. PICK s \in Subs : s = job[w].sub /\ session[s] # NoSession
    BY DEF AttachCustomer, BillingTypes, WorkOK, WorkFits
<1>3. session[s].cust \in Customers  BY <1>2 DEF BillingTypes, SessionsOK
<1>4. overtaken => overtaken'  BY DEF AttachCustomer
<1>5. ~overtaken' => ~overtaken /\ account.cust = None  BY DEF AttachCustomer
<1>6. PICK row \in Jobs(Len(events)) : row = Idle /\ job' = [job EXCEPT ![w] = row]
    BY IdleTyped DEF AttachCustomer
<1>7. VersionSeen(row) /\ SeenTo(row)  BY <1>6, NothingToSee DEF Idle
<1>8. ASSUME ~overtaken, ~overtaken'
      PROVE  OneCustomer' /\ ~LastTold(version.account)
  <2>1. OneCustomer /\ account.cust = None  BY <1>5, <1>8 DEF FollowInv
  <2>2. \A t \in Subs : ~session[t].open  BY <2>1, OpenSession DEF OneCustomer
  <2>3. \A i \in 1..Len(events) : events[i].kind = "intent"
    <3>1. \A i \in 1..Len(events) : events[i].kind # "intent" => events[i].cust \in Customers
      BY EventKinds
    <3> QED  BY <2>1, <3>1 DEF OneCustomer
  <2>4. SubEvents = {}  BY <2>3 DEF SubEvents
  <2>5. ~LastTold(version.account)  BY <2>4 DEF LastTold, FollowInv, Versions
  <2>6. account'.cust = session[s].cust
    BY <1>2 DEF AttachCustomer, BillingTypes, TypeOK, Account
  <2>7. session' = [session EXCEPT ![s].open = TRUE]  BY <1>2 DEF AttachCustomer
  <2>8. session \in Sessions  BY TypesSplit DEF BillingTypes
  <2>9. \A t \in Subs : session'[t].cust = session[t].cust
                        /\ (t # s => session'[t].open = session[t].open)
    BY <2>7, <2>8 DEF Sessions
  <2>10. OneCustomer'  BY <1>1, <2>2, <2>3, <2>6, <2>9 DEF OneCustomer
  <2> QED  BY <2>5, <2>10
<1> QED  BY <1>1, <1>4, <1>6, <1>7, <1>8, AccountFollows

\* A session is made for the account's customer, or is not open yet.
LEMMA CheckoutFollows ==
    ASSUME BillingTypes, FollowInv, NEW price \in Prices, Checkout(price)
    PROVE  FollowInv'
<1> USE BillingBounds
<1>1. UNCHANGED <<account, org, events, owed, marked, job, applied, version, overtaken>>
    BY DEF Checkout, ghosts
<1>2. EventsGrow  BY <1>1, EventsStay
<1>3. Versions'  BY <1>1 DEF FollowInv, Versions, SubEvents
<1>4. ASSUME ~overtaken PROVE OneCustomer' /\ Answered' /\ Values'
  <2>1. OneCustomer /\ Answered /\ Values  BY <1>4 DEF FollowInv
  <2>2. \A t \in Subs : session'[t] = session[t] \/ session'[t].cust = account.cust
    BY DEF Checkout, BillingTypes, TypeOK
  <2>3. OneCustomer'  BY <1>1, <2>1, <2>2 DEF OneCustomer
  <2>4. Answered'  BY <1>1, <2>1 DEF Answered, SubEvents
  <2>5. Values'  BY <1>1, <2>1 DEF Values, LastTold, Told, SubEvents
  <2> QED  BY <2>3, <2>4, <2>5
<1> QED  BY <1>1, <1>2, <1>3, <1>4, FollowOutside

LEMMA NewCustomerFollows ==
    ASSUME BillingTypes, FollowInv, NEW w \in Workers, NEW price \in Prices,
           CheckoutNewCustomer(w, price)
    PROVE  FollowInv'
<1> USE BillingBounds
<1>1. UNCHANGED <<account, org, events, owed, marked, applied, version, overtaken>>
    BY DEF CheckoutNewCustomer, ghosts
<1>2. FreshSub \in Subs  BY FreshOnes DEF CheckoutNewCustomer
<1>3. PICK s \in Subs : s = FreshSub  BY <1>2
<1>4. PICK idle \in Jobs(Len(events)) : idle = Idle  BY IdleTyped
<1>5. PICK row \in Jobs(Len(events)) :
         row = [idle EXCEPT !.pc = "customer", !.ask = "checkout", !.sub = s]
    BY DEF Jobs, Steps, Asks
<1>6. job' = [job EXCEPT ![w] = row]  BY <1>3, <1>4, <1>5 DEF CheckoutNewCustomer
<1>7. row.pc = "customer"  BY <1>5 DEF Jobs
<1>8. VersionSeen(row) /\ SeenTo(row)  BY <1>7, NothingToSee
<1>9. ASSUME ~overtaken PROVE OneCustomer'
  <2>1. OneCustomer  BY <1>9 DEF FollowInv
  <2>2. \A t \in Subs : session'[t] = session[t] \/ ~session'[t].open
    <3>1. PICK new : new = [cust |-> FreshCustomer, price |-> price, open |-> FALSE]  OBVIOUS
    <3>2. ~new.open  BY <3>1
    <3>3. session' = [session EXCEPT ![s] = new]  BY <1>3, <3>1 DEF CheckoutNewCustomer
    <3> QED  BY <3>2, <3>3 DEF BillingTypes, TypeOK
  <2> QED  BY <1>1, <2>1, <2>2 DEF OneCustomer
<1> QED  BY <1>1, <1>6, <1>8, <1>9, AccountFollows

\* Stripe says something, which it is owed an answer to.
LEMMA SaidFollows ==
    ASSUME BillingTypes, FollowInv, NEW e \in Event, Emit(e),
           UNCHANGED <<account, org, session, marked, applied, version, overtaken>>,
           ~overtaken /\ e.kind # "intent" => e.cust = account.cust
    PROVE  /\ EventsGrow /\ Versions'
           /\ ~overtaken => OneCustomer' /\ Answered' /\ Values'
<1> USE BillingBounds
<1>1. /\ EventsGrow /\ Len(events') = Len(events) + 1 /\ events'[Len(events) + 1] = e
      /\ owed' = owed \cup {Len(events) + 1}
    BY Emitted DEF Grows
<1>2. /\ SubEvents \subseteq SubEvents'
      /\ \A i \in 0..Len(events) : i \in SubEvents' => i \in SubEvents
      /\ \A i \in 0..Len(events) : LastTold(i)' => LastTold(i)
      /\ \A i \in SubEvents : Told(i)' = Told(i)
    BY <1>1, SubEventsGrow
<1>3. Versions'  BY <1>2 DEF FollowInv, Versions
<1>4. ASSUME ~overtaken PROVE OneCustomer' /\ Answered' /\ Values'
  <2>1. OneCustomer /\ Answered /\ Values /\ Versions  BY <1>4 DEF FollowInv
  <2>2. OneCustomer'
    <3>1. ASSUME NEW i \in 1..Len(events'), events'[i].kind # "intent"
          PROVE  events'[i].cust = account.cust
      <4>1. CASE i \in 1..Len(events)  BY <1>1, <2>1, <3>1, <4>1 DEF OneCustomer, EventsGrow
      <4>2. CASE i = Len(events) + 1  BY <1>1, <1>4, <3>1, <4>2
      <4> QED  BY <1>1, <4>1, <4>2
    <3> QED  BY <2>1, <3>1 DEF OneCustomer
  <2>3. Answered'
    <3>1. ASSUME NEW i \in SubEvents', i \notin owed' \/ i \in marked
          PROVE  i \in applied /\ i <= version.org
      <4>1. i \in 1..Len(events') /\ i # Len(events) + 1
        <5>1. marked \subseteq 1..Len(events)  BY DEF BillingTypes, TypeOK
        <5>2. i \in 1..Len(events')  BY DEF SubEvents
        <5>3. Len(events) + 1 \notin 1..Len(events)  OBVIOUS
        <5> QED  BY <1>1, <3>1, <5>1, <5>2, <5>3
      <4>2. i \in 0..Len(events)  BY <1>1, <4>1
      <4>3. i \in SubEvents  BY <1>2, <4>2
      <4>4. i \notin owed \/ i \in marked  BY <1>1, <3>1
      <4> QED  BY <2>1, <4>3, <4>4 DEF Answered
    <3> QED  BY <3>1 DEF Answered
  <2>4. Values'
    <3>1. version.account \in 0..Len(events) /\ version.org \in 0..Len(events)
      BY VersionNumbers
    <3>2. ASSUME NEW i \in {version.account, version.org}, LastTold(i)'
          PROVE  LastTold(i) /\ Told(i)' = Told(i)
      <4>1. LastTold(i)  BY <1>2, <3>1, <3>2
      <4>2. i \in SubEvents  BY <2>1, <4>1 DEF LastTold, Versions
      <4> QED  BY <1>2, <4>1, <4>2
    <3>3. LastTold(version.account)' => /\ LastTold(version.account)
                                        /\ Told(version.account)' = Told(version.account)
      <4>1. PICK i \in 0..Len(events) : i = version.account  BY <3>1
      <4>2. LastTold(i)' => LastTold(i) /\ Told(i)' = Told(i)  BY <3>2, <4>1
      <4> QED  BY <4>1, <4>2 DEF LastTold, Told
    <3>4. LastTold(version.org)' => /\ LastTold(version.org)
                                    /\ Told(version.org)' = Told(version.org)
      <4>1. PICK i \in 0..Len(events) : i = version.org  BY <3>1
      <4>2. LastTold(i)' => LastTold(i) /\ Told(i)' = Told(i)  BY <3>2, <4>1
      <4> QED  BY <4>1, <4>2 DEF LastTold, Told
    <3> QED  BY <2>1, <3>3, <3>4 DEF Values
  <2> QED  BY <2>2, <2>3, <2>4
<1> QED  BY <1>1, <1>3, <1>4

LEMMA KnownIsOurs ==
    ASSUME OneCustomer, NEW cust, KnownCustomer(cust)
    PROVE  cust = account.cust
BY DEF OneCustomer, KnownCustomer, SubEvents

LEMMA StripeFollows ==
    ASSUME BillingTypes, FollowInv, Stripe
    PROVE  FollowInv'
<1>1. PICK e \in Event : Emit(e) /\ (e.kind # "intent" => KnownCustomer(e.cust))
    BY StripeSays
<1>2. UNCHANGED <<account, org, session, marked, job, applied, version, overtaken>>
    BY DEF Stripe, ghosts
<1>3. ~overtaken /\ e.kind # "intent" => e.cust = account.cust
    BY <1>1, KnownIsOurs DEF FollowInv
<1>4. EventsGrow /\ Versions' /\ (~overtaken => OneCustomer' /\ Answered' /\ Values')
    BY <1>1, <1>2, <1>3, SaidFollows
<1> QED  BY <1>2, <1>4, FollowOutside

LEMMA AskFollows ==
    ASSUME BillingTypes, FollowInv, NEW w \in Workers,
           CancelPlan(w) \/ \E price \in Prices : ChangePlan(w, price)
    PROVE  FollowInv'
<1> USE BillingBounds
<1>1. PICK e \in SubEvent, ask \in {"change", "cancel"} :
          /\ Emit(e) /\ \E i \in SubEvents : e.cust = events[i].cust
          /\ job' = [job EXCEPT ![w] = [Idle EXCEPT !.pc = "called", !.ask = ask,
                                                    !.ev = Len(events) + 1]]
    BY StripeAnswers
<1>2. UNCHANGED <<account, org, session, marked, applied, version, overtaken>>
    BY DEF CancelPlan, ChangePlan, Ask, ghosts
<1>3. e \in Event /\ KnownCustomer(e.cust)  BY <1>1 DEF Event, KnownCustomer
<1>4. ~overtaken => e.cust = account.cust  BY <1>3, KnownIsOurs DEF FollowInv
<1>5. EventsGrow /\ Versions' /\ (~overtaken => OneCustomer' /\ Answered' /\ Values')
    BY <1>1, <1>2, <1>3, <1>4, SaidFollows
<1>6. Len(events') = Len(events) + 1  BY <1>1, <1>2, <1>3, Emitted
<1>7. PICK n \in Nat : n = Len(events')  BY <1>6
<1>8. PICK idle \in Jobs(n) : idle = Idle  BY IdleTyped
<1>9. PICK row \in Jobs(n) : row = [idle EXCEPT !.pc = "called", !.ask = ask, !.ev = n]
  <2>1. n \in 0..n  BY <1>7
  <2>2. [idle EXCEPT !.pc = "called", !.ask = ask, !.ev = n] \in Jobs(n)
    BY <2>1 DEF Jobs, Steps, Asks
  <2> QED  BY <2>2
<1>10. job' = [job EXCEPT ![w] = row]  BY <1>1, <1>6, <1>7, <1>8, <1>9
<1>11. row.pc = "called" /\ row \in Jobs(Len(events'))  BY <1>7, <1>9 DEF Jobs
<1>12. VersionSeen(row)' /\ SeenTo(row)'  BY <1>11 DEF VersionSeen, SeenTo
<1>13. version.org <= version'.org /\ version'.org \in Nat  BY <1>2, VersionNumbers
<1> QED  BY <1>2, <1>5, <1>10, <1>11, <1>12, <1>13, FollowStep

LEMMA OutsideFollows ==
    ASSUME BillingTypes, FollowInv,
           \/ UNCHANGED vars \/ Tick
           \/ \E i \in 1..Len(events) : AlreadyProcessed(i)
           \/ \E r \in cards : DeletePaymentMethod(r)
    PROVE  FollowInv'
<1>1. UNCHANGED <<account, org, session, events, marked, job, applied, version, overtaken>>
    BY DEF vars, Tick, AlreadyProcessed, DeletePaymentMethod, stripe, ghosts
<1>2. \A i : i \in owed /\ i \notin marked => i \in owed'
    BY DEF vars, Tick, AlreadyProcessed, DeletePaymentMethod
<1>3. EventsGrow  BY <1>1, EventsStay
<1>4. Versions'  BY <1>1 DEF FollowInv, Versions, SubEvents
<1>5. ASSUME ~overtaken PROVE OneCustomer' /\ Answered' /\ Values'
  <2>1. OneCustomer /\ Answered /\ Values  BY <1>5 DEF FollowInv
  <2>2. OneCustomer'  BY <1>1, <2>1 DEF OneCustomer
  <2>3. Answered'  BY <1>1, <1>2, <2>1 DEF Answered, SubEvents
  <2>4. Values'  BY <1>1, <2>1 DEF Values, LastTold, Told, SubEvents
  <2> QED  BY <2>2, <2>3, <2>4
<1> QED  BY <1>1, <1>3, <1>4, <1>5, FollowOutside

LEMMA FollowInvStep == BillingTypes /\ FollowInv /\ [Next]_vars => FollowInv'
<1> SUFFICES ASSUME BillingTypes, FollowInv, [Next]_vars PROVE FollowInv'
    OBVIOUS
<1>1. ASSUME NEW w \in Workers, Webhook(w) PROVE FollowInv'
    BY <1>1, StartsFollow, LookFollows, AttachFollows, UpdateFollows, RefreshFollows, SyncFollows,
       OtherKindsFollow, FinishFollows DEF Webhook
<1>2. ASSUME NEW w \in Workers, Failures(w) PROVE FollowInv'
    BY <1>2, StartsFollow, FinishFollows, FailsFollows DEF Failures
<1>3. ASSUME NEW w \in Workers, Routes(w) PROVE FollowInv'
    BY <1>3, AttachCustomerFollows, NewCustomerFollows, AskFollows, WriteFollows DEF Routes
<1> QED  BY <1>1, <1>2, <1>3, StripeFollows, CheckoutFollows, OutsideFollows DEF Next

LEMMA FollowInvInit == Init => FollowInv
<1> SUFFICES ASSUME Init PROVE FollowInv
    OBVIOUS
<1>1. events = <<>> /\ Len(events) = 0  BY DEF Init
<1>2. SubEvents = {}  BY <1>1 DEF SubEvents
<1>3. version.account = 0 /\ version.org = 0 /\ applied = {}  BY DEF Init
<1>4. Versions  BY <1>2, <1>3 DEF Versions
<1>5. \A w \in Workers : job[w].pc = "idle"  BY DEF Init, Idle
<1>6. \A w \in Workers : VersionSeen(job[w]) /\ SeenTo(job[w])  BY <1>5, NothingToSee
<1>7. OneCustomer
  <2>1. ~NoSession.open  BY DEF NoSession
  <2>2. \A s \in Subs : ~session[s].open  BY <2>1 DEF Init
  <2> QED  BY <1>1, <2>2 DEF OneCustomer
<1>8. Answered /\ Values  BY <1>2, <1>3 DEF Answered, Values, LastTold
<1> QED  BY <1>4, <1>6, <1>7, <1>8 DEF FollowInv

\* What Stripe takes for delivered has been written.
THEOREM AnsweredEventsWereApplied == Spec => []AnsweredWasApplied
<1>1. Init => BillingTypes /\ FollowInv  BY BillingTypesInit, FollowInvInit
<1>2. BillingTypes /\ FollowInv /\ [Next]_vars => BillingTypes' /\ FollowInv'
    BY BillingTypesStep, FollowInvStep
<1>3. FollowInv => AnsweredWasApplied  BY DEF FollowInv, Answered, AnsweredWasApplied, SubEvents
<1> QED  BY <1>1, <1>2, <1>3, PTL DEF Spec

\* Account and mirror tell what Stripe told last, once it has had all its answers.
THEOREM AccountsFollowStripe == Spec => []FollowsStripe
<1>1. Init => BillingTypes /\ FollowInv  BY BillingTypesInit, FollowInvInit
<1>2. BillingTypes /\ FollowInv /\ [Next]_vars => BillingTypes' /\ FollowInv'
    BY BillingTypesStep, FollowInvStep
<1>3. ASSUME BillingTypes, FollowInv, Settled, ~overtaken, SubEvents # {}
      PROVE  SubscriptionStatus(account) = AsStripeHasIt(events[Newest(SubEvents)])
             /\ org = account
  <2>1. SubEvents \in SUBSET (1..Len(events)) /\ Len(events) \in Nat
    BY <1>3, BillingBounds, VersionNumbers
  <2>2. PICK n \in SubEvents : n = Newest(SubEvents) /\ \A i \in SubEvents : i <= n
    BY <1>3, <2>1, NewestIs
  <2>3. n \in applied /\ n <= version.org
    BY <1>3, <2>2 DEF FollowInv, Answered, Settled
  <2>4. n <= version.account  BY <1>3, <2>3 DEF FollowInv, Versions
  <2>5. version.account \in SubEvents \cup {0} /\ version.org \in SubEvents \cup {0}
    BY <1>3 DEF FollowInv, Versions
  <2>6. version.account = n /\ version.org = n
    <3>1. \A v \in SubEvents \cup {0} : n <= v => v = n
      <4>1. n \in 1..Len(events) /\ \A v \in SubEvents : v \in 1..Len(events)  BY <2>1
      <4> QED  BY <2>1, <2>2, <4>1
    <3> QED  BY <2>3, <2>4, <2>5, <3>1
  <2>7. LastTold(n)  BY <2>1, <2>2 DEF LastTold
  <2>8. account = Told(n) /\ org = Told(n)  BY <1>3, <2>6, <2>7 DEF FollowInv, Values
  <2>9. /\ Told(n).sub = events[n].sub
        /\ Told(n).status = MapStatus(events[n].status) /\ Told(n).cancel = events[n].cancel
        /\ Told(n).price = events[n].price /\ Told(n).periodEnd = events[n].until
    BY <1>3, ToldFields
  <2> QED  BY Zenon, <2>2, <2>8, <2>9 DEF SubscriptionStatus, AsStripeHasIt
<1>4. BillingTypes /\ FollowInv => FollowsStripe  BY <1>3 DEF FollowsStripe
<1> QED  BY <1>1, <1>2, <1>4, PTL DEF Spec
=============================================================================

------------------------------- MODULE Plans -------------------------------
(***************************************************************************)
(* The catalogue of billing plans.  Every server seeds it as it starts,    *)
(* from a list that is part of its release, so that a deployment changes   *)
(* it and a rollback changes it back, while servers of the other release   *)
(* may be starting too.  A plan is known by its code, interval and         *)
(* currency; a plan that no release lists any more is kept, inactive.      *)
(***************************************************************************)
EXTENDS Naturals

CONSTANTS
    Servers,   \* processes of the API
    OldPlans,  \* BILLING_PLAN_SEED of one release
    NewPlans   \* and of the next

Catalogue == [old |-> OldPlans, new |-> NewPlans]
Releases == {"old", "new"}
PlanKeys == OldPlans \cup NewPlans

VARIABLES
    plans,   \* the billing_plans, each with the release that wrote its terms last
    server,  \* the processes, with the rows that one that is starting has read
    seeded   \* ghost: the release the catalogue should be that of, "mixed" if of none

planVars == <<plans, server, seeded>>

NoPlan == [active |-> FALSE, terms |-> "none"]
Down == [pc |-> "down", release |-> "none", saw |-> [k \in PlanKeys |-> NoPlan]]
BillingPlan == [active : BOOLEAN, terms : Releases] \cup {NoPlan}

PlansTypeOK ==
    /\ plans \in [PlanKeys -> BillingPlan]
    /\ server \in [Servers -> [pc : {"down", "seeding", "up"}, release : Releases \cup {"none"},
                               saw : [PlanKeys -> BillingPlan]]]
    /\ seeded \in Releases \cup {"none", "mixed"}

PlansInit ==
    /\ plans = [k \in PlanKeys |-> NoPlan]
    /\ server = [s \in Servers |-> Down]
    /\ seeded = "none"

\* list_active_plans: the rows of the pricing page.
Offered == {k \in PlanKeys : plans[k].active}

\* lifespan, up to the rows that seed_billing_plans reads.
StartServer(s) ==
    /\ server[s].pc = "down"
    /\ \E r \in Releases :
          server' = [server EXCEPT ![s] = [pc |-> "seeding", release |-> r, saw |-> plans]]
    /\ UNCHANGED <<plans, seeded>>

\* Mutant of Written: a row that is there keeps its is_active.
WrittenInPlace(saw, r, k) ==
    IF k \in Catalogue[r] THEN [active |-> saw[k] = NoPlan \/ saw[k].active, terms |-> r]
    ELSE [saw[k] EXCEPT !.active = FALSE]
\* What a release makes of the row it has read of a plan.
Written(saw, r, k) ==
    IF k \in Catalogue[r] THEN [active |-> TRUE, terms |-> r]
    ELSE [saw[k] EXCEPT !.active = FALSE]

\* The commit.  The session writes the columns whose value differs from the one it has read,
\* so what another server wrote in between stays where the two reads agree with the seed.
Flushed(s, k) ==
    LET saw == server[s].saw[k]
        new == Written(server[s].saw, server[s].release, k)
    IN [active |-> IF new.active = saw.active THEN plans[k].active ELSE new.active,
        terms |-> IF new.terms = saw.terms THEN plans[k].terms ELSE new.terms]
\* A plan this server is to insert and another one has inserted since.
Clashes(s) ==
    \E k \in Catalogue[server[s].release] : server[s].saw[k] = NoPlan /\ plans[k] # NoPlan
SeedPlans(s) ==
    /\ server[s].pc = "seeding" /\ ~Clashes(s)
    /\ plans' = [k \in PlanKeys |-> Flushed(s, k)]
    /\ seeded' = IF server[s].saw = plans \/ seeded = server[s].release
                 THEN server[s].release ELSE "mixed"
    /\ server' = [server EXCEPT ![s] = [Down EXCEPT !.pc = "up", !.release = server[s].release]]
\* The unique key refuses an insertion, or the database is away: the process ends.
StartFails(s) ==
    /\ server[s].pc = "seeding"
    /\ server' = [server EXCEPT ![s] = Down]
    /\ UNCHANGED <<plans, seeded>>
StopServer(s) ==
    /\ server[s].pc = "up"
    /\ server' = [server EXCEPT ![s] = Down]
    /\ UNCHANGED <<plans, seeded>>

PlansNext == \E s \in Servers : StartServer(s) \/ SeedPlans(s) \/ StartFails(s) \/ StopServer(s)

PlansSpec == PlansInit /\ [][PlansNext]_planVars

\* Customers are offered the plans of one release, on its terms, whatever was deployed and
\* rolled back before, unless a server of the other release committed its seed between the
\* read and the commit of the last one; the next start then puts it right.
CatalogueOfOneRelease ==
    seeded \in Releases =>
        /\ Offered = Catalogue[seeded]
        /\ \A k \in Offered : plans[k].terms = seeded
=============================================================================

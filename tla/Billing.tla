------------------------------- MODULE Billing -------------------------------
(***************************************************************************)
(* Subscriptions: BillingService (checkout, webhook) and PlanAccessService *)
(* (the cached plan that RequiresPlanGuard asks for).                      *)
(*                                                                         *)
(* Stripe is external.  It knows customers, and subscriptions that pass    *)
(* through a sequence of snapshots, and reports each of them by events.    *)
(* Events are delivered in any order, several times, and concurrently;     *)
(* Stripe gives up on none.  Requests interleave at every await; the two   *)
(* writes of syncSubscriptionFromStripe are one transaction.               *)
(*                                                                         *)
(* Left out: signatures, portal sessions and period dates, which no other  *)
(* state depends on, and events of other types.  A checkout refused for an *)
(* unknown user, plan or price changes nothing.                            *)
(***************************************************************************)
EXTENDS Integers, FiniteSets, Sequences

CONSTANTS
    Slot,         \* concurrent requests and deliveries
    User,
    Customer,     \* identifiers of Stripe customers
    Sub,          \* identifiers of Stripe subscriptions
    Snapshot,     \* [status, price] of a subscription: what an event carries
    PricePlan,    \* PricePlan[p]: the plan one of whose prices is p, or NoPlan
    CacheLimit,   \* BILLING_WEBHOOK_CACHE_LIMIT
    MaxVersions,  \* bound on the snapshots of a subscription
    NoPlan, Nobody, NoCustomer, NoSub, NoEvent

Plan == {"FREE", "PRO", "TEAM"}

\* mapStripeStatusToUserPlan, and PlanAccessService's paidStatuses.
ActiveStatus == {"active", "trialing", "past_due", "unpaid"}

ASSUME BillingAssumption ==
    /\ IsFiniteSet(Slot) /\ Slot # {}
    /\ IsFiniteSet(Customer)
    /\ \A x \in Snapshot : PricePlan[x.price] \in Plan \cup {NoPlan}
    /\ CacheLimit \in Nat \ {0} /\ MaxVersions \in Nat
    /\ NoPlan \notin Plan /\ Nobody \notin User
    /\ NoCustomer \notin Customer /\ NoSub \notin Sub

\* Version 0 stands for checkout.session.completed, which carries no snapshot;
\* version n for customer.subscription.* with the n-th one.
Event == [sub: Sub, version: 0..MaxVersions]

VARIABLES
    customerOf,  \* Stripe: the customer of a subscription, once it is paid for
    log,         \* Stripe: log[b], the snapshots of subscription b so far
    owner,       \* Stripe: the user a customer was created for
    open,        \* Stripe: customers with a checkout session
    plan,        \* users.plan
    stripeId,    \* users.stripe_customer_id
    stored,      \* subscriptions: the user's row, a subscription and version
    processed,   \* processedWebhookEventIds, a Set in order of insertion
    cache,       \* cache[u]: the unexpired entry of PlanAccessService
    pc,          \* pc[s]: what the request in slot s does next
    who,         \* who[s]: its user
    event,       \* event[s]: the event it handles
    version,     \* version[s]: the snapshot the event carries or it retrieved
    got          \* got[s]: the customer created, or the plan read, by it

stripeVars == <<customerOf, log, owner, open>>
dbVars == <<plan, stripeId, stored>>
memoryVars == <<processed, cache>>
requestVars == <<pc, who, event, version, got>>
vars == <<stripeVars, dbVars, memoryVars, requestVars>>

-----------------------------------------------------------------------------
NoRow == [sub |-> NoSub, version |-> 0]

\* syncSubscriptionFromStripe: the plan of the price, or PRO when it is none's.
PlanOf(snapshot) ==
    IF PricePlan[snapshot.price] = NoPlan THEN "PRO" ELSE PricePlan[snapshot.price]

\* mapStripeStatusToUserPlan.
UserPlan(snapshot) ==
    IF snapshot.status \in ActiveStatus THEN PlanOf(snapshot) ELSE "FREE"

Stored(u) == log[stored[u].sub][stored[u].version]

\* getUserPlan: the plan of an active subscription, else users.plan.
ResolvedPlan(u) ==
    IF stored[u] # NoRow /\ Stored(u).status \in ActiveStatus
    THEN PlanOf(Stored(u)) ELSE plan[u]

\* Events that Stripe has sent and will send again until they are received.
Sent == {e \in Event : customerOf[e.sub] # NoCustomer /\ e.version <= Len(log[e.sub])}

Processed(e) == \E i \in DOMAIN processed : processed[i] = e

TypeOK ==
    /\ customerOf \in [Sub -> Customer \cup {NoCustomer}]
    /\ log \in [Sub -> Seq(Snapshot)] /\ \A b \in Sub : Len(log[b]) <= MaxVersions
    /\ owner \in [Customer -> User \cup {Nobody}]
    /\ open \subseteq Customer
    /\ plan \in [User -> Plan]
    /\ stripeId \in [User -> Customer \cup {NoCustomer}]
    /\ stored \in [User -> [sub: Sub, version: 1..MaxVersions] \cup {NoRow}]
    /\ processed \in Seq(Event) /\ Len(processed) <= CacheLimit
    /\ cache \in [User -> Plan \cup {NoPlan}]
    /\ pc \in [Slot -> {"idle", "createCustomer", "saveCustomer", "openSession",
                        "retrieve", "findUser", "sync", "invalidate",
                        "readPlan", "fillCache"}]
    /\ who \in [Slot -> User \cup {Nobody}]
    /\ event \in [Slot -> Event \cup {NoEvent}]
    /\ version \in [Slot -> 0..MaxVersions]
    /\ got \in [Slot -> Customer \cup Plan \cup {NoCustomer}]

Init ==
    /\ customerOf = [b \in Sub |-> NoCustomer]
    /\ log = [b \in Sub |-> <<>>]
    /\ owner = [c \in Customer |-> Nobody]
    /\ open = {}
    /\ plan = [u \in User |-> "FREE"]
    /\ stripeId = [u \in User |-> NoCustomer]
    /\ stored = [u \in User |-> NoRow]
    /\ processed = <<>>
    /\ cache = [u \in User |-> NoPlan]
    /\ pc = [s \in Slot |-> "idle"]
    /\ who = [s \in Slot |-> Nobody]
    /\ event = [s \in Slot |-> NoEvent]
    /\ version = [s \in Slot |-> 0]
    /\ got = [s \in Slot |-> NoCustomer]

Goto(s, label) == pc' = [pc EXCEPT ![s] = label]

Finish(s) ==
    /\ Goto(s, "idle")
    /\ who' = [who EXCEPT ![s] = Nobody]
    /\ event' = [event EXCEPT ![s] = NoEvent]
    /\ version' = [version EXCEPT ![s] = 0]
    /\ got' = [got EXCEPT ![s] = NoCustomer]

-----------------------------------------------------------------------------
(* Checkout. *)

\* Mutant: the customer the user already has is not looked at.
CheckoutAnew(s, u) ==
    /\ pc[s] = "idle"
    /\ Goto(s, "createCustomer")
    /\ who' = [who EXCEPT ![s] = u]
    /\ UNCHANGED <<stripeVars, dbVars, memoryVars, event, version, got>>

\* createCheckoutSession has read a user with a customer, or one without.
Checkout(s, u) ==
    /\ pc[s] = "idle"
    /\ Goto(s, IF stripeId[u] = NoCustomer THEN "createCustomer" ELSE "openSession")
    /\ who' = [who EXCEPT ![s] = u]
    /\ got' = [got EXCEPT ![s] = stripeId[u]]
    /\ UNCHANGED <<stripeVars, dbVars, memoryVars, event, version>>

\* ensureStripeCustomer: Stripe creates a customer ...
CreateCustomer(s, c) ==
    /\ pc[s] = "createCustomer"
    /\ owner[c] = Nobody
    /\ owner' = [owner EXCEPT ![c] = who[s]]
    /\ got' = [got EXCEPT ![s] = c]
    /\ Goto(s, "saveCustomer")
    /\ UNCHANGED <<customerOf, log, open, dbVars, memoryVars, who, event, version>>

\* ... and users.update stores it over whatever is there.
SaveCustomer(s) ==
    /\ pc[s] = "saveCustomer"
    /\ stripeId' = [stripeId EXCEPT ![who[s]] = got[s]]
    /\ Goto(s, "openSession")
    /\ UNCHANGED <<stripeVars, plan, stored, memoryVars, who, event, version, got>>

OpenSession(s) ==
    /\ pc[s] = "openSession"
    /\ open' = open \cup {got[s]}
    /\ Finish(s)
    /\ UNCHANGED <<customerOf, log, owner, dbVars, memoryVars>>

-----------------------------------------------------------------------------
(* Webhook. *)

\* processWebhook: an event not among the processed ones is handled.
Deliver(s, e) ==
    /\ pc[s] = "idle"
    /\ e \in Sent
    /\ ~Processed(e)
    /\ Goto(s, IF e.version = 0 THEN "retrieve" ELSE "findUser")
    /\ event' = [event EXCEPT ![s] = e]
    /\ version' = [version EXCEPT ![s] = e.version]
    /\ UNCHANGED <<stripeVars, dbVars, memoryVars, who, got>>

\* checkout.session.completed: the subscription as Stripe has it now.
Retrieve(s) ==
    /\ pc[s] = "retrieve"
    /\ version' = [version EXCEPT ![s] = Len(log[event[s].sub])]
    /\ Goto(s, "findUser")
    /\ UNCHANGED <<stripeVars, dbVars, memoryVars, who, event, got>>

\* Mutant: the identifiers are never evicted.
RememberAll(e) == processed' = IF Processed(e) THEN processed ELSE Append(processed, e)

\* markWebhookEventProcessed: the set grows by e, and drops its oldest element
\* when it is past its limit.
Remember(e) ==
    LET grown == IF Processed(e) THEN processed ELSE Append(processed, e) IN
    processed' = IF Len(grown) <= CacheLimit THEN grown ELSE Tail(grown)

\* Mutant: a user without a customer matches, too.
FindLooseUser(s, u) ==
    /\ pc[s] = "findUser"
    /\ stripeId[u] \in {customerOf[event[s].sub], NoCustomer}
    /\ who' = [who EXCEPT ![s] = u]
    /\ Goto(s, "sync")
    /\ UNCHANGED <<stripeVars, dbVars, memoryVars, event, version, got>>

\* syncSubscriptionFromStripe: the user with the subscription's customer.
FindUser(s, u) ==
    /\ pc[s] = "findUser"
    /\ stripeId[u] = customerOf[event[s].sub]
    /\ who' = [who EXCEPT ![s] = u]
    /\ Goto(s, "sync")
    /\ UNCHANGED <<stripeVars, dbVars, memoryVars, event, version, got>>

\* No user has that customer: the event is skipped, and counts as processed.
SkipEvent(s) ==
    /\ pc[s] = "findUser"
    /\ \A u \in User : stripeId[u] # customerOf[event[s].sub]
    /\ Remember(event[s])
    /\ Finish(s)
    /\ UNCHANGED <<stripeVars, dbVars, cache>>

\* Mutant: the subscription is stored outside the transaction, after it.
SyncPlanOnly(s) ==
    LET b == event[s].sub  u == who[s] IN
    /\ pc[s] = "sync"
    /\ plan' = [plan EXCEPT ![u] = UserPlan(log[b][version[s]])]
    /\ stripeId' = [stripeId EXCEPT ![u] = customerOf[b]]
    /\ Goto(s, "invalidate")
    /\ UNCHANGED <<stripeVars, stored, memoryVars, who, event, version, got>>

\* Its transaction: the user's plan and customer, and the subscription's row.
Sync(s) ==
    LET b == event[s].sub  u == who[s] IN
    /\ pc[s] = "sync"
    /\ plan' = [plan EXCEPT ![u] = UserPlan(log[b][version[s]])]
    /\ stripeId' = [stripeId EXCEPT ![u] = customerOf[b]]
    /\ stored' = [stored EXCEPT ![u] = [sub |-> b, version |-> version[s]]]
    /\ Goto(s, "invalidate")
    /\ UNCHANGED <<stripeVars, memoryVars, who, event, version, got>>

\* The transaction has committed: invalidate the cached plan, and remember.
Invalidate(s) ==
    /\ pc[s] = "invalidate"
    /\ cache' = [cache EXCEPT ![who[s]] = NoPlan]
    /\ Remember(event[s])
    /\ Finish(s)
    /\ UNCHANGED <<stripeVars, dbVars>>

-----------------------------------------------------------------------------
(* RequiresPlanGuard. *)

\* getUserPlan finds no unexpired entry.  (One that is there is served.)
AskPlan(s, u) ==
    /\ pc[s] = "idle"
    /\ cache[u] = NoPlan
    /\ Goto(s, "readPlan")
    /\ who' = [who EXCEPT ![s] = u]
    /\ UNCHANGED <<stripeVars, dbVars, memoryVars, event, version, got>>

\* Its findUnique, with the subscription and the plan.
ReadPlan(s) ==
    /\ pc[s] = "readPlan"
    /\ got' = [got EXCEPT ![s] = ResolvedPlan(who[s])]
    /\ Goto(s, "fillCache")
    /\ UNCHANGED <<stripeVars, dbVars, memoryVars, who, event, version>>

\* What it read is cached for another TTL, and served.
FillCache(s) ==
    /\ pc[s] = "fillCache"
    /\ cache' = [cache EXCEPT ![who[s]] = got[s]]
    /\ Finish(s)
    /\ UNCHANGED <<stripeVars, dbVars, processed>>

\* Mutant: the time to live is not looked at.
NeverExpire(u) == cache[u] # NoPlan /\ UNCHANGED vars

\* BILLING_PLAN_CACHE_TTL_SECONDS have passed.
ExpireCache(u) ==
    /\ cache[u] # NoPlan
    /\ cache' = [cache EXCEPT ![u] = NoPlan]
    /\ UNCHANGED <<stripeVars, dbVars, processed, requestVars>>

-----------------------------------------------------------------------------
(* Failures, and Stripe. *)

\* A call to the database or to Stripe rejects, with what is done so far done;
\* an event is then not marked as processed.
Reject(s) ==
    /\ pc[s] # "idle"
    /\ Finish(s)
    /\ UNCHANGED <<stripeVars, dbVars, memoryVars>>

\* The process stops and restarts: its memory and its requests are lost.
Restart ==
    /\ processed' = <<>>
    /\ cache' = [u \in User |-> NoPlan]
    /\ pc' = [s \in Slot |-> "idle"]
    /\ who' = [s \in Slot |-> Nobody]
    /\ event' = [s \in Slot |-> NoEvent]
    /\ version' = [s \in Slot |-> 0]
    /\ got' = [s \in Slot |-> NoCustomer]
    /\ UNCHANGED <<stripeVars, dbVars>>

\* A checkout is completed: the customer has a new subscription.
Pay(c, b, x) ==
    /\ c \in open
    /\ customerOf[b] = NoCustomer
    /\ MaxVersions > 0
    /\ customerOf' = [customerOf EXCEPT ![b] = c]
    /\ log' = [log EXCEPT ![b] = <<x>>]
    /\ UNCHANGED <<owner, open, dbVars, memoryVars, requestVars>>

\* A subscription is renewed, falls behind, changes its price or ends.
Change(b, x) ==
    /\ customerOf[b] # NoCustomer
    /\ Len(log[b]) < MaxVersions
    /\ log' = [log EXCEPT ![b] = Append(@, x)]
    /\ UNCHANGED <<customerOf, owner, open, dbVars, memoryVars, requestVars>>

RequestStep(s) ==
    \/ \E c \in Customer : CreateCustomer(s, c)
    \/ SaveCustomer(s)
    \/ OpenSession(s)
    \/ Retrieve(s)
    \/ \E u \in User : FindUser(s, u)
    \/ SkipEvent(s)
    \/ Sync(s)
    \/ Invalidate(s)
    \/ ReadPlan(s)
    \/ FillCache(s)
    \/ Reject(s)

Next ==
    \/ \E s \in Slot : RequestStep(s)
    \/ \E s \in Slot, u \in User : Checkout(s, u) \/ AskPlan(s, u)
    \/ \E s \in Slot, e \in Event : Deliver(s, e)
    \/ \E u \in User : ExpireCache(u)
    \/ \E c \in Customer, b \in Sub, x \in Snapshot : Pay(c, b, x)
    \/ \E b \in Sub, x \in Snapshot : Change(b, x)
    \/ Restart

Spec == Init /\ [][Next]_vars

\* Every await settles, and time passes.
Fairness ==
    /\ \A s \in Slot : WF_vars(RequestStep(s))
    /\ \A u \in User : WF_vars(ExpireCache(u))

FairSpec == Spec /\ Fairness

-----------------------------------------------------------------------------
(* Properties. *)

\* Whatever events are lost, late or repeated, a user's plan is what the stored
\* subscription says, and so the guard and the billing profile, which derive it
\* in different ways (ResolvedPlan, users.plan), agree.
PlanMatchesSubscription ==
    \A u \in User :
        /\ plan[u] = IF stored[u] = NoRow THEN "FREE" ELSE UserPlan(Stored(u))
        /\ ResolvedPlan(u) = plan[u]

\* What is stored for a user was once the state of a subscription paid for by a
\* customer created for that very user: no event of one user reaches another,
\* though the customer's id is read, created, saved and written back by
\* checkouts and webhooks that interleave.
StoredIsOwn ==
    \A u \in User :
        /\ stripeId[u] # NoCustomer => owner[stripeId[u]] = u
        /\ stored[u] # NoRow =>
               /\ stored[u].version \in DOMAIN log[stored[u].sub]
               /\ owner[customerOf[stored[u].sub]] = u

\* Overlapping first checkouts each create a customer, and only the last saved
\* one is found again; but a user never has more customers that can pay than
\* there are requests in flight, and with no overlap exactly one.
PayingCustomersBounded ==
    \A u \in User : Cardinality({c \in open : owner[c] = u}) <= Cardinality(Slot)

\* A plan that has settled is the only one cached in the end: a fill that read
\* the plan before a webhook changed it, and came after its invalidation, is
\* forgotten with the time to live.
CacheCatchesUp ==
    \A u \in User, p \in Plan :
        <>[](plan[u] = p) => <>[](cache[u] \in {p, NoPlan})

-----------------------------------------------------------------------------
(* What a test says, and the code does not keep. *)

Handles(s, e) == event[s] = e

\* "processes each Stripe event id only once" (billing.service.spec.ts): no event
\* is handled that has been processed or is being handled.
EventHandledOnce ==
    \A s \in Slot, e \in Event :
        Handles(s, e) => ~Processed(e) /\ \A t \in Slot \ {s} : ~Handles(t, e)
=============================================================================

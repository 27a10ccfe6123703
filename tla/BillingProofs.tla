---------------------------- MODULE BillingProofs ----------------------------
(***************************************************************************)
(* Proofs about Billing, for any number of requests, users, customers,     *)
(* subscriptions and snapshots, in any order of delivery.                  *)
(*                                                                         *)
(* What is stored for a user names a customer, a subscription and one of   *)
(* its snapshots, and Stripe's side only grows: a customer keeps its       *)
(* owner, a subscription its customer and its snapshots (StripeGrows).     *)
(* So what was true of them when a request read or stored them stays true  *)
(* however late the request goes on.                                       *)
(***************************************************************************)
EXTENDS Billing, FiniteSetTheorems, SequenceTheorems, TLAPS

\* A subscription is that of a customer who has had a checkout session.
StripeInv ==
    /\ \A b \in Sub :
          IF customerOf[b] = NoCustomer THEN log[b] = <<>>
          ELSE Len(log[b]) >= 1 /\ customerOf[b] \in open
    /\ \A c \in open : owner[c] \in User

\* What a request carries from one step to a later one.
RequestInv(s) ==
    /\ pc[s] \in {"createCustomer", "saveCustomer", "openSession", "sync", "invalidate",
                  "readPlan", "fillCache"} => who[s] \in User
    /\ pc[s] \in {"saveCustomer", "openSession"} =>
           got[s] \in Customer /\ owner[got[s]] = who[s]
    /\ pc[s] = "fillCache" => got[s] \in Plan
    /\ pc[s] \in {"retrieve", "findUser", "sync", "invalidate"} =>
           event[s] \in Event /\ customerOf[event[s].sub] # NoCustomer
    /\ pc[s] \in {"findUser", "sync"} => version[s] \in 1 .. Len(log[event[s].sub])
    /\ pc[s] = "sync" => owner[customerOf[event[s].sub]] = who[s]

StoredInv(u) ==
    /\ stripeId[u] # NoCustomer => owner[stripeId[u]] = u
    /\ stored[u] # NoRow =>
           /\ customerOf[stored[u].sub] # NoCustomer
           /\ owner[customerOf[stored[u].sub]] = u
           /\ stored[u].version \in 1 .. Len(log[stored[u].sub])
    /\ plan[u] = IF stored[u] = NoRow THEN "FREE" ELSE UserPlan(Stored(u))

Inv ==
    /\ TypeOK
    /\ StripeInv
    /\ \A s \in Slot : RequestInv(s)
    /\ \A u \in User : StoredInv(u)

StripeGrows ==
    /\ \A b \in Sub : customerOf[b] # NoCustomer =>
           /\ customerOf'[b] = customerOf[b]
           /\ Len(log[b]) <= Len(log'[b])
           /\ \A v \in 1 .. Len(log[b]) : log'[b][v] = log[b][v]
    /\ \A c \in Customer : owner[c] # Nobody => owner'[c] = owner[c]

-----------------------------------------------------------------------------
(* Plans and rows. *)

LEMMA Constants ==
    /\ Nobody \notin User /\ NoCustomer \notin Customer /\ NoSub \notin Sub
    /\ NoPlan \notin Plan /\ CacheLimit \in Nat /\ CacheLimit >= 1 /\ MaxVersions \in Nat
BY BillingAssumption

LEMMA PlanTypes ==
    \A x \in Snapshot : PlanOf(x) \in Plan /\ UserPlan(x) \in Plan
<1> SUFFICES ASSUME NEW x \in Snapshot PROVE PlanOf(x) \in Plan /\ UserPlan(x) \in Plan
  OBVIOUS
<1>1. PricePlan[x.price] \in Plan \cup {NoPlan}
  BY BillingAssumption
<1> QED BY <1>1 DEF PlanOf, UserPlan, Plan

\* A row of subscriptions, and the snapshot it stands for.
LEMMA StoredType ==
    ASSUME TypeOK, NEW u \in User, StoredInv(u), stored[u] # NoRow
    PROVE  /\ stored[u].sub \in Sub /\ Stored(u) \in Snapshot
           /\ stored[u].version \in Nat
<1>1. stored[u] \in [sub: Sub, version: 1 .. MaxVersions]
  BY DEF TypeOK
<1>2. stored[u].sub \in Sub /\ stored[u].version \in 1 .. MaxVersions
  BY <1>1
<1>3. log[stored[u].sub] \in Seq(Snapshot)
  BY <1>2 DEF TypeOK
<1>4. stored[u].version \in 1 .. Len(log[stored[u].sub])
  BY DEF StoredInv
<1>5. log[stored[u].sub][stored[u].version] \in Snapshot
  BY <1>3, <1>4, ElementOfSeq
<1> QED BY <1>2, <1>5 DEF Stored

LEMMA ResolvedIsPlan ==
    ASSUME TypeOK, NEW u \in User, StoredInv(u)
    PROVE  ResolvedPlan(u) = plan[u] /\ plan[u] \in Plan
<1>1. plan[u] \in Plan
  BY DEF TypeOK
<1>2. CASE stored[u] = NoRow
  BY <1>1, <1>2 DEF ResolvedPlan
<1>3. CASE stored[u] # NoRow
  BY <1>1, <1>3 DEF StoredInv, ResolvedPlan, UserPlan
<1> QED BY <1>2, <1>3

\* An event is about a subscription.
LEMMA EventType ==
    ASSUME NEW e \in Event
    PROVE  e.sub \in Sub /\ e.version \in 0 .. MaxVersions /\ e.version \in Int
BY Constants DEF Event

\* Stripe's side in a step that is not of Stripe.
LEMMA StripeStays ==
    ASSUME TypeOK, UNCHANGED <<customerOf, log>>,
           \A c \in Customer : owner[c] # Nobody => owner'[c] = owner[c]
    PROVE  StripeGrows
<1>1. \A b \in Sub : Len(log[b]) \in Nat
  BY LenProperties DEF TypeOK
<1> QED BY <1>1 DEF StripeGrows

\* A request and a row that a step leaves alone.
LEMMA RequestKept ==
    ASSUME TypeOK, StripeGrows, TypeOK', NEW s \in Slot, RequestInv(s),
           UNCHANGED <<pc[s], who[s], event[s], version[s], got[s]>>
    PROVE  RequestInv(s)'
<1>1. pc[s] \in {"retrieve", "findUser", "sync", "invalidate"} =>
        /\ event[s] \in Event /\ event[s].sub \in Sub
        /\ customerOf'[event[s].sub] = customerOf[event[s].sub]
        /\ customerOf[event[s].sub] \in Customer
        /\ 1 .. Len(log[event[s].sub]) \subseteq 1 .. Len(log'[event[s].sub])
  <2> SUFFICES ASSUME pc[s] \in {"retrieve", "findUser", "sync", "invalidate"}
      PROVE  /\ event[s] \in Event /\ event[s].sub \in Sub
             /\ customerOf'[event[s].sub] = customerOf[event[s].sub]
             /\ customerOf[event[s].sub] \in Customer
             /\ 1 .. Len(log[event[s].sub]) \subseteq 1 .. Len(log'[event[s].sub])
    OBVIOUS
  <2>1. event[s] \in Event /\ event[s].sub \in Sub /\ customerOf[event[s].sub] # NoCustomer
    BY EventType DEF RequestInv
  <2>2. Len(log[event[s].sub]) \in Nat /\ Len(log'[event[s].sub]) \in Nat
    BY <2>1, LenProperties DEF TypeOK
  <2> QED BY <2>1, <2>2 DEF StripeGrows, TypeOK
<1>2. pc[s] \in {"saveCustomer", "openSession"} => owner'[got[s]] = owner[got[s]]
  BY Constants DEF StripeGrows, RequestInv
<1>3. pc[s] = "sync" =>
        owner'[customerOf[event[s].sub]] = owner[customerOf[event[s].sub]]
  BY <1>1, Constants DEF StripeGrows, RequestInv
<1> QED BY <1>1, <1>2, <1>3 DEF RequestInv

LEMMA StoredKept ==
    ASSUME TypeOK, TypeOK', StripeGrows, NEW u \in User, StoredInv(u),
           UNCHANGED <<plan[u], stripeId[u], stored[u]>>
    PROVE  StoredInv(u)'
<1>1. stripeId[u] # NoCustomer => owner'[stripeId[u]] = u
  BY Constants DEF StoredInv, StripeGrows, TypeOK
<1>2. CASE stored[u] = NoRow
  BY <1>1, <1>2 DEF StoredInv
<1>3. CASE stored[u] # NoRow
  <2>1. /\ stored[u].sub \in Sub /\ customerOf[stored[u].sub] # NoCustomer
        /\ stored[u].version \in 1 .. Len(log[stored[u].sub])
        /\ owner[customerOf[stored[u].sub]] = u
    BY <1>3, StoredType DEF StoredInv
  <2>2. /\ customerOf'[stored[u].sub] = customerOf[stored[u].sub]
        /\ customerOf[stored[u].sub] \in Customer
        /\ log'[stored[u].sub][stored[u].version] = log[stored[u].sub][stored[u].version]
        /\ Len(log[stored[u].sub]) <= Len(log'[stored[u].sub])
    BY <2>1 DEF StripeGrows, TypeOK
  <2>3. Len(log[stored[u].sub]) \in Nat /\ Len(log'[stored[u].sub]) \in Nat
    BY <2>1, LenProperties DEF TypeOK
  <2>4. stored[u].version \in 1 .. Len(log'[stored[u].sub])
    BY <2>1, <2>2, <2>3
  <2>5. owner'[customerOf[stored[u].sub]] = u
    BY <2>1, <2>2, Constants DEF StripeGrows
  <2>6. Stored(u)' = Stored(u)
    BY <2>2 DEF Stored
  <2>7. UserPlan(Stored(u))' = UserPlan(Stored(u))
    BY <2>6 DEF UserPlan, PlanOf
  <2> QED BY <1>1, <1>3, <2>1, <2>2, <2>4, <2>5, <2>7 DEF StoredInv
<1> QED BY <1>2, <1>3

-----------------------------------------------------------------------------
(* Types. *)

\* The request variables, after a step of one request.
OthersKept(s) ==
    \A t \in Slot \ {s} : UNCHANGED <<pc[t], who[t], event[t], version[t], got[t]>>

MemoryTypeOK ==
    /\ processed \in Seq(Event) /\ Len(processed) <= CacheLimit
    /\ cache \in [User -> Plan \cup {NoPlan}]

RequestTypeOK ==
    /\ pc \in [Slot -> {"idle", "createCustomer", "saveCustomer", "openSession",
                        "retrieve", "findUser", "sync", "invalidate",
                        "readPlan", "fillCache"}]
    /\ who \in [Slot -> User \cup {Nobody}]
    /\ event \in [Slot -> Event \cup {NoEvent}]
    /\ version \in [Slot -> 0 .. MaxVersions]
    /\ got \in [Slot -> Customer \cup Plan \cup {NoCustomer}]

DbTypeOK ==
    /\ plan \in [User -> Plan]
    /\ stripeId \in [User -> Customer \cup {NoCustomer}]
    /\ stored \in [User -> [sub: Sub, version: 1 .. MaxVersions] \cup {NoRow}]

StripeTypeOK ==
    /\ customerOf \in [Sub -> Customer \cup {NoCustomer}]
    /\ log \in [Sub -> Seq(Snapshot)] /\ \A b \in Sub : Len(log[b]) <= MaxVersions
    /\ owner \in [Customer -> User \cup {Nobody}]
    /\ open \subseteq Customer

LEMMA TypeParts == TypeOK <=> StripeTypeOK /\ DbTypeOK /\ MemoryTypeOK /\ RequestTypeOK
BY DEF TypeOK, StripeTypeOK, DbTypeOK, MemoryTypeOK, RequestTypeOK

LEMMA StripeTypeKept == UNCHANGED stripeVars /\ StripeTypeOK => StripeTypeOK'
BY DEF stripeVars, StripeTypeOK

LEMMA DbTypeKept == UNCHANGED dbVars /\ DbTypeOK => DbTypeOK'
BY DEF dbVars, DbTypeOK

LEMMA MemoryTypeKept == UNCHANGED memoryVars /\ MemoryTypeOK => MemoryTypeOK'
BY DEF memoryVars, MemoryTypeOK

LEMMA RequestTypeKept == UNCHANGED requestVars /\ RequestTypeOK => RequestTypeOK'
BY DEF requestVars, RequestTypeOK

LEMMA FinishEffect ==
    ASSUME RequestTypeOK, NEW s \in Slot, Finish(s)
    PROVE  RequestTypeOK' /\ OthersKept(s) /\ RequestInv(s)'
<1>1. RequestTypeOK'
  BY Constants DEF RequestTypeOK, Finish, Goto
<1>2. OthersKept(s)
  BY DEF RequestTypeOK, Finish, Goto, OthersKept
<1>3. pc'[s] = "idle"
  BY DEF RequestTypeOK, Finish, Goto
<1>4. RequestInv(s)'
  BY <1>3 DEF RequestInv
<1> QED BY <1>1, <1>2, <1>4

LEMMA RememberType ==
    ASSUME NEW e \in Event, processed \in Seq(Event), Len(processed) <= CacheLimit, Remember(e)
    PROVE  processed' \in Seq(Event) /\ Len(processed') <= CacheLimit
<1> DEFINE grown == IF Processed(e) THEN processed ELSE Append(processed, e)
<1>1. grown \in Seq(Event) /\ Len(grown) <= CacheLimit + 1
  <2>1. Len(processed) \in Nat
    BY LenProperties
  <2>2. Append(processed, e) \in Seq(Event) /\ Len(Append(processed, e)) = Len(processed) + 1
    BY AppendProperties
  <2> QED BY <2>1, <2>2, Constants
<1>2. processed' = IF Len(grown) <= CacheLimit THEN grown ELSE Tail(grown)
  BY DEF Remember
<1> HIDE DEF grown
<1>3. Len(grown) \in Nat
  BY <1>1, LenProperties
<1>4. CASE Len(grown) <= CacheLimit
  BY <1>1, <1>2, <1>4
<1>5. CASE ~(Len(grown) <= CacheLimit)
  <2>1. grown # <<>>
    BY <1>5, Constants, EmptySeq
  <2>2. Tail(grown) \in Seq(Event) /\ Len(Tail(grown)) = Len(grown) - 1
    BY <1>1, <2>1, HeadTailProperties
  <2> QED BY <1>1, <1>2, <1>3, <1>5, <2>2, Constants
<1> QED BY <1>4, <1>5

-----------------------------------------------------------------------------
(* The steps. *)

\* A step of a request that writes nothing to the database.
LEMMA RequestStepInv ==
    ASSUME Inv, TypeOK', StripeGrows, StripeInv', UNCHANGED dbVars,
           NEW s \in Slot, OthersKept(s), RequestInv(s)'
    PROVE  Inv'
<1>1. ASSUME NEW t \in Slot PROVE RequestInv(t)'
  BY RequestKept DEF Inv, OthersKept
<1>2. ASSUME NEW u \in User PROVE StoredInv(u)'
  BY StoredKept DEF Inv, dbVars
<1> QED BY <1>1, <1>2 DEF Inv

\* Such a step that leaves Stripe's side alone, too.
LEMMA LocalStepInv ==
    ASSUME Inv, UNCHANGED <<stripeVars, dbVars>>, MemoryTypeOK', RequestTypeOK',
           NEW s \in Slot, OthersKept(s), RequestInv(s)'
    PROVE  Inv'
<1>1. TypeOK'
  <2>1. StripeTypeOK' /\ DbTypeOK'
    BY TypeParts, StripeTypeKept, DbTypeKept DEF Inv
  <2> QED BY <2>1 DEF TypeOK, StripeTypeOK, DbTypeOK, MemoryTypeOK, RequestTypeOK
<1>2. StripeGrows
  BY StripeStays DEF Inv, stripeVars
<1>3. StripeInv'
  BY DEF Inv, StripeInv, stripeVars
<1> QED BY <1>1, <1>2, <1>3, RequestStepInv

LEMMA CheckoutInv ==
    ASSUME Inv, NEW s \in Slot, NEW u \in User, Checkout(s, u)
    PROVE  Inv'
<1>0. TypeOK /\ MemoryTypeOK /\ RequestTypeOK /\ StoredInv(u)
  BY TypeParts DEF Inv
<1>1. /\ pc' = [pc EXCEPT ![s] = IF stripeId[u] = NoCustomer THEN "createCustomer"
                                 ELSE "openSession"]
      /\ who' = [who EXCEPT ![s] = u] /\ got' = [got EXCEPT ![s] = stripeId[u]]
      /\ UNCHANGED <<stripeVars, dbVars, memoryVars, event, version>>
  BY DEF Checkout, Goto
<1>2. stripeId[u] \in Customer \cup {NoCustomer}
  BY <1>0 DEF TypeOK
<1>3. RequestTypeOK' /\ OthersKept(s) /\ MemoryTypeOK'
  BY <1>0, <1>1, <1>2, MemoryTypeKept DEF RequestTypeOK, OthersKept
<1>4. RequestInv(s)'
  <2>1. pc'[s] \in {"createCustomer", "openSession"} /\ who'[s] = u /\ got'[s] = stripeId[u]
        /\ (pc'[s] = "openSession" => stripeId[u] # NoCustomer)
    BY <1>0, <1>1 DEF RequestTypeOK
  <2>2. stripeId[u] # NoCustomer => owner'[stripeId[u]] = u /\ stripeId[u] \in Customer
    BY <1>0, <1>1, <1>2 DEF StoredInv, stripeVars
  <2> QED BY <2>1, <2>2 DEF RequestInv
<1> QED BY <1>1, <1>3, <1>4, LocalStepInv

LEMMA AskPlanInv ==
    ASSUME Inv, NEW s \in Slot, NEW u \in User, AskPlan(s, u)
    PROVE  Inv'
<1>0. MemoryTypeOK /\ RequestTypeOK
  BY TypeParts DEF Inv
<1>1. /\ pc' = [pc EXCEPT ![s] = "readPlan"] /\ who' = [who EXCEPT ![s] = u]
      /\ UNCHANGED <<stripeVars, dbVars, memoryVars, event, version, got>>
  BY DEF AskPlan, Goto
<1>2. RequestTypeOK' /\ OthersKept(s) /\ MemoryTypeOK'
  BY <1>0, <1>1, MemoryTypeKept DEF RequestTypeOK, OthersKept
<1>3. RequestInv(s)'
  BY <1>0, <1>1 DEF RequestTypeOK, RequestInv
<1> QED BY <1>1, <1>2, <1>3, LocalStepInv

LEMMA ReadPlanInv ==
    ASSUME Inv, NEW s \in Slot, ReadPlan(s)
    PROVE  Inv'
<1>0. MemoryTypeOK /\ RequestTypeOK /\ RequestInv(s)
  BY TypeParts DEF Inv
<1>1. /\ pc[s] = "readPlan" /\ pc' = [pc EXCEPT ![s] = "fillCache"]
      /\ got' = [got EXCEPT ![s] = ResolvedPlan(who[s])]
      /\ UNCHANGED <<stripeVars, dbVars, memoryVars, who, event, version>>
  BY DEF ReadPlan, Goto
<1>2. who[s] \in User
  BY <1>0, <1>1 DEF RequestInv
<1>3. ResolvedPlan(who[s]) \in Plan
  BY <1>2, ResolvedIsPlan DEF Inv
<1>4. RequestTypeOK' /\ OthersKept(s) /\ MemoryTypeOK'
  BY <1>0, <1>1, <1>3, MemoryTypeKept DEF RequestTypeOK, OthersKept
<1>5. RequestInv(s)'
  BY <1>0, <1>1, <1>2, <1>3 DEF RequestTypeOK, RequestInv
<1> QED BY <1>1, <1>4, <1>5, LocalStepInv

LEMMA FillCacheInv ==
    ASSUME Inv, NEW s \in Slot, FillCache(s)
    PROVE  Inv'
<1>0. MemoryTypeOK /\ RequestTypeOK /\ RequestInv(s)
  BY TypeParts DEF Inv
<1>1. Finish(s) /\ UNCHANGED <<stripeVars, dbVars, processed>>
  BY DEF FillCache
<1>2. got[s] \in Plan
  BY <1>0 DEF FillCache, RequestInv
<1>3. MemoryTypeOK'
  BY <1>0, <1>1, <1>2 DEF MemoryTypeOK, FillCache
<1> QED BY <1>0, <1>1, <1>3, FinishEffect, LocalStepInv

LEMMA DeliverInv ==
    ASSUME Inv, NEW s \in Slot, NEW e \in Event, Deliver(s, e)
    PROVE  Inv'
<1>0. TypeOK /\ MemoryTypeOK /\ RequestTypeOK
  BY TypeParts DEF Inv
<1>1. /\ pc' = [pc EXCEPT ![s] = IF e.version = 0 THEN "retrieve" ELSE "findUser"]
      /\ event' = [event EXCEPT ![s] = e] /\ version' = [version EXCEPT ![s] = e.version]
      /\ UNCHANGED <<stripeVars, dbVars, memoryVars, who, got>>
      /\ customerOf[e.sub] # NoCustomer /\ e.version <= Len(log[e.sub])
  BY DEF Deliver, Goto, Sent
<1>2. e.sub \in Sub /\ e.version \in 0 .. MaxVersions /\ e.version \in Int
  BY EventType
<1>3. RequestTypeOK' /\ OthersKept(s) /\ MemoryTypeOK'
  BY <1>0, <1>1, <1>2, MemoryTypeKept DEF RequestTypeOK, OthersKept
<1>4. e.version # 0 => e.version \in 1 .. Len(log[e.sub])
  <2>1. Len(log[e.sub]) \in Nat
    BY <1>0, <1>2, LenProperties DEF TypeOK
  <2> QED BY <1>1, <1>2, <2>1
<1>5. RequestInv(s)'
  BY <1>0, <1>1, <1>4 DEF RequestTypeOK, RequestInv, stripeVars
<1> QED BY <1>1, <1>3, <1>5, LocalStepInv

LEMMA RetrieveInv ==
    ASSUME Inv, NEW s \in Slot, Retrieve(s)
    PROVE  Inv'
<1>0. TypeOK /\ MemoryTypeOK /\ RequestTypeOK /\ RequestInv(s)
  BY TypeParts DEF Inv
<1>1. /\ pc[s] = "retrieve" /\ pc' = [pc EXCEPT ![s] = "findUser"]
      /\ version' = [version EXCEPT ![s] = Len(log[event[s].sub])]
      /\ UNCHANGED <<stripeVars, dbVars, memoryVars, who, event, got>>
  BY DEF Retrieve, Goto
<1>2. event[s] \in Event /\ event[s].sub \in Sub /\ customerOf[event[s].sub] # NoCustomer
  BY <1>0, <1>1, EventType DEF RequestInv
<1>3. Len(log[event[s].sub]) \in 1 .. MaxVersions
  <2>1. Len(log[event[s].sub]) \in Nat
    BY <1>0, <1>2, LenProperties DEF TypeOK
  <2>2. Len(log[event[s].sub]) >= 1 /\ Len(log[event[s].sub]) <= MaxVersions
    BY <1>0, <1>2 DEF Inv, StripeInv, TypeOK
  <2> QED BY <2>1, <2>2, Constants
<1>4. RequestTypeOK' /\ OthersKept(s) /\ MemoryTypeOK'
  BY <1>0, <1>1, <1>3, Constants, MemoryTypeKept DEF RequestTypeOK, OthersKept
<1>5. RequestInv(s)'
  BY <1>0, <1>1, <1>2, <1>3 DEF RequestTypeOK, RequestInv, stripeVars
<1> QED BY <1>1, <1>4, <1>5, LocalStepInv

LEMMA FindUserInv ==
    ASSUME Inv, NEW s \in Slot, NEW u \in User, FindUser(s, u)
    PROVE  Inv'
<1>0. MemoryTypeOK /\ RequestTypeOK /\ RequestInv(s) /\ StoredInv(u)
  BY TypeParts DEF Inv
<1>1. /\ pc[s] = "findUser" /\ pc' = [pc EXCEPT ![s] = "sync"]
      /\ who' = [who EXCEPT ![s] = u] /\ stripeId[u] = customerOf[event[s].sub]
      /\ UNCHANGED <<stripeVars, dbVars, memoryVars, event, version, got>>
  BY DEF FindUser, Goto
<1>2. RequestTypeOK' /\ OthersKept(s) /\ MemoryTypeOK'
  BY <1>0, <1>1, MemoryTypeKept DEF RequestTypeOK, OthersKept
<1>3. RequestInv(s)'
  BY <1>0, <1>1 DEF RequestTypeOK, RequestInv, StoredInv, stripeVars
<1> QED BY <1>1, <1>2, <1>3, LocalStepInv

\* The ends of a delivery, and of any request that rejects.
LEMMA EndInv ==
    ASSUME Inv, NEW s \in Slot, SkipEvent(s) \/ Invalidate(s) \/ Reject(s)
    PROVE  Inv'
<1>0. MemoryTypeOK /\ RequestTypeOK /\ RequestInv(s)
  BY TypeParts DEF Inv
<1>1. Finish(s) /\ UNCHANGED <<stripeVars, dbVars>>
  BY DEF SkipEvent, Invalidate, Reject
<1>2. CASE Reject(s)
  BY <1>0, <1>1, <1>2, FinishEffect, MemoryTypeKept, LocalStepInv DEF Reject
<1>3. CASE SkipEvent(s) \/ Invalidate(s)
  <2>1. event[s] \in Event
    BY <1>0, <1>3 DEF RequestInv, SkipEvent, Invalidate
  <2>2. cache' \in [User -> Plan \cup {NoPlan}]
    BY <1>0, <1>3 DEF MemoryTypeOK, SkipEvent, Invalidate
  <2>3. MemoryTypeOK'
    BY <1>0, <1>3, <2>1, <2>2, RememberType DEF MemoryTypeOK, SkipEvent, Invalidate
  <2> QED BY <1>0, <1>1, <2>3, FinishEffect, LocalStepInv
<1> QED BY <1>2, <1>3

\* Types of the whole after a step, from those of its parts.
LEMMA TypePartsNext ==
    ASSUME StripeTypeOK', DbTypeOK', MemoryTypeOK', RequestTypeOK'
    PROVE  TypeOK'
BY DEF TypeOK, StripeTypeOK, DbTypeOK, MemoryTypeOK, RequestTypeOK

LEMMA CreateCustomerInv ==
    ASSUME Inv, NEW s \in Slot, NEW c \in Customer, CreateCustomer(s, c)
    PROVE  Inv'
<1>0. /\ TypeOK /\ StripeTypeOK /\ DbTypeOK /\ MemoryTypeOK /\ RequestTypeOK
      /\ RequestInv(s) /\ StripeInv
  BY TypeParts DEF Inv
<1>1. /\ pc[s] = "createCustomer" /\ pc' = [pc EXCEPT ![s] = "saveCustomer"]
      /\ owner[c] = Nobody /\ owner' = [owner EXCEPT ![c] = who[s]]
      /\ got' = [got EXCEPT ![s] = c]
      /\ UNCHANGED <<customerOf, log, open, dbVars, memoryVars, who, event, version>>
  BY DEF CreateCustomer, Goto
<1>2. who[s] \in User
  BY <1>0, <1>1 DEF RequestInv
<1>3. StripeTypeOK' /\ RequestTypeOK' /\ OthersKept(s)
  BY <1>0, <1>1, <1>2 DEF StripeTypeOK, RequestTypeOK, OthersKept
<1>4. TypeOK'
  BY <1>0, <1>1, <1>3, DbTypeKept, MemoryTypeKept, TypePartsNext
<1>5. \A x \in Customer : owner[x] # Nobody => owner'[x] = owner[x]
  BY <1>0, <1>1 DEF StripeTypeOK
<1>6. StripeGrows
  BY <1>0, <1>1, <1>5, StripeStays
<1>7. StripeInv'
  BY <1>0, <1>1, <1>2 DEF StripeInv, StripeTypeOK
<1>8. RequestInv(s)'
  BY <1>0, <1>1, <1>2 DEF RequestTypeOK, StripeTypeOK, RequestInv
<1> QED BY <1>1, <1>3, <1>4, <1>6, <1>7, <1>8, RequestStepInv

LEMMA OpenSessionInv ==
    ASSUME Inv, NEW s \in Slot, OpenSession(s)
    PROVE  Inv'
<1>0. /\ TypeOK /\ StripeTypeOK /\ DbTypeOK /\ MemoryTypeOK /\ RequestTypeOK
      /\ RequestInv(s) /\ StripeInv
  BY TypeParts DEF Inv
<1>1. /\ pc[s] = "openSession" /\ open' = open \cup {got[s]} /\ Finish(s)
      /\ UNCHANGED <<customerOf, log, owner, dbVars, memoryVars>>
  BY DEF OpenSession
<1>2. got[s] \in Customer /\ owner[got[s]] \in User
  BY <1>0, <1>1 DEF RequestInv
<1>3. RequestTypeOK' /\ OthersKept(s) /\ RequestInv(s)'
  BY <1>0, <1>1, FinishEffect
<1>4. StripeTypeOK' /\ StripeInv'
  BY <1>0, <1>1, <1>2 DEF StripeTypeOK, StripeInv
<1>5. TypeOK'
  BY <1>0, <1>1, <1>3, <1>4, DbTypeKept, MemoryTypeKept, TypePartsNext
<1>6. StripeGrows
  BY <1>0, <1>1, StripeStays
<1> QED BY <1>1, <1>3, <1>4, <1>5, <1>6, RequestStepInv

\* A step that writes one user's row.
LEMMA UserStepInv ==
    ASSUME Inv, UNCHANGED <<stripeVars, memoryVars>>, DbTypeOK', RequestTypeOK',
           NEW s \in Slot, OthersKept(s), RequestInv(s)',
           NEW v \in User, StoredInv(v)',
           \A u \in User \ {v} : UNCHANGED <<plan[u], stripeId[u], stored[u]>>
    PROVE  Inv'
<1>1. TypeOK'
  BY TypeParts, StripeTypeKept, MemoryTypeKept, TypePartsNext DEF Inv
<1>2. StripeGrows
  BY StripeStays DEF Inv, stripeVars
<1>3. StripeInv'
  BY DEF Inv, StripeInv, stripeVars
<1>4. ASSUME NEW t \in Slot PROVE RequestInv(t)'
  BY <1>1, <1>2, RequestKept DEF Inv, OthersKept
<1>5. ASSUME NEW u \in User PROVE StoredInv(u)'
  BY <1>1, <1>2, StoredKept DEF Inv
<1> QED BY <1>1, <1>3, <1>4, <1>5 DEF Inv

LEMMA SaveCustomerInv ==
    ASSUME Inv, NEW s \in Slot, SaveCustomer(s)
    PROVE  Inv'
<1>0. DbTypeOK /\ RequestTypeOK /\ RequestInv(s) /\ \A u \in User : StoredInv(u)
  BY TypeParts DEF Inv
<1>1. /\ pc[s] = "saveCustomer" /\ pc' = [pc EXCEPT ![s] = "openSession"]
      /\ stripeId' = [stripeId EXCEPT ![who[s]] = got[s]]
      /\ UNCHANGED <<customerOf, log, owner, open, plan, stored, memoryVars,
                     who, event, version, got>>
  BY DEF SaveCustomer, Goto, stripeVars
<1>2. who[s] \in User /\ got[s] \in Customer /\ owner[got[s]] = who[s]
  BY <1>0, <1>1 DEF RequestInv
<1>3. DbTypeOK'
  BY <1>0, <1>1, <1>2 DEF DbTypeOK
<1>4. RequestTypeOK' /\ OthersKept(s)
  BY <1>0, <1>1 DEF RequestTypeOK, OthersKept
<1>5. RequestInv(s)'
  BY <1>0, <1>1, <1>2 DEF RequestTypeOK, RequestInv
<1>6. StoredInv(who[s])'
  <2>1. /\ stripeId'[who[s]] = got[s]
        /\ UNCHANGED <<plan, stored, customerOf, log, owner, who>>
    BY <1>0, <1>1, <1>2 DEF DbTypeOK
  <2>2. \A u \in User : Stored(u)' = Stored(u) /\ UserPlan(Stored(u))' = UserPlan(Stored(u))
    BY <2>1 DEF Stored, UserPlan, PlanOf
  <2>3. StoredInv(who[s])
    BY <1>0, <1>2
  <2> QED BY <1>2, <2>1, <2>2, <2>3 DEF StoredInv
<1>7. \A u \in User \ {who[s]} : UNCHANGED <<plan[u], stripeId[u], stored[u]>>
  BY <1>0, <1>1, <1>2 DEF DbTypeOK
<1>8. ASSUME NEW w, w = who[s] PROVE Inv'
  <2>1. /\ w \in User /\ \A u \in User \ {w} : UNCHANGED <<plan[u], stripeId[u], stored[u]>>
    BY <1>2, <1>7, <1>8
  <2>2. StoredInv(w)'
    BY <1>1, <1>6, <1>8 DEF StoredInv
  <2> QED BY <1>1, <1>3, <1>4, <1>5, <2>1, <2>2, UserStepInv DEF stripeVars
<1> QED BY <1>8

LEMMA SyncInv ==
    ASSUME Inv, NEW s \in Slot, Sync(s)
    PROVE  Inv'
<1> SUFFICES ASSUME NEW u, u = who[s], NEW b, b = event[s].sub, NEW n, n = version[s]
             PROVE  Inv'
  OBVIOUS
<1>0. TypeOK /\ DbTypeOK /\ MemoryTypeOK /\ RequestTypeOK /\ RequestInv(s)
  BY TypeParts DEF Inv
<1>1. /\ pc[s] = "sync" /\ pc' = [pc EXCEPT ![s] = "invalidate"]
      /\ plan' = [plan EXCEPT ![u] = UserPlan(log[b][n])]
      /\ stripeId' = [stripeId EXCEPT ![u] = customerOf[b]]
      /\ stored' = [stored EXCEPT ![u] = [sub |-> b, version |-> n]]
      /\ UNCHANGED <<customerOf, log, owner, open, memoryVars, who, event, version, got>>
  BY DEF Sync, Goto, stripeVars
<1>2. /\ u \in User /\ event[s] \in Event /\ b \in Sub
      /\ customerOf[b] # NoCustomer /\ owner[customerOf[b]] = u
      /\ n \in 1 .. Len(log[b])
  BY <1>0, <1>1, EventType DEF RequestInv
<1>3. /\ log[b] \in Seq(Snapshot) /\ Len(log[b]) <= MaxVersions
      /\ customerOf[b] \in Customer /\ Len(log[b]) \in Nat
  BY <1>0, <1>2, LenProperties DEF TypeOK
<1>4. n \in 1 .. MaxVersions /\ log[b][n] \in Snapshot
  BY <1>2, <1>3, Constants, ElementOfSeq
<1>5. UserPlan(log[b][n]) \in Plan
  BY <1>4, PlanTypes
<1>6. /\ [sub |-> b, version |-> n] \in [sub: Sub, version: 1 .. MaxVersions]
      /\ [sub |-> b, version |-> n] # NoRow
  BY <1>2, <1>4, Constants DEF NoRow
<1>7. DbTypeOK'
  BY <1>0, <1>1, <1>2, <1>3, <1>5, <1>6 DEF DbTypeOK
<1>8. RequestTypeOK' /\ OthersKept(s)
  BY <1>0, <1>1 DEF RequestTypeOK, OthersKept
<1>9. RequestInv(s)'
  BY <1>0, <1>1, <1>2 DEF RequestTypeOK, RequestInv
<1>10. /\ stored'[u] = [sub |-> b, version |-> n] /\ stripeId'[u] = customerOf[b]
       /\ plan'[u] = UserPlan(log[b][n])
       /\ \A v \in User \ {u} : UNCHANGED <<plan[v], stripeId[v], stored[v]>>
  BY <1>0, <1>1, <1>2 DEF DbTypeOK
<1>11. StoredInv(u)'
  <2>1. Stored(u)' = log[b][n]
    BY <1>1, <1>10 DEF Stored
  <2>2. UserPlan(Stored(u))' = UserPlan(log[b][n])
    BY <2>1 DEF UserPlan, PlanOf
  <2> QED BY <1>1, <1>2, <1>6, <1>10, <2>2 DEF StoredInv
<1> QED BY <1>1, <1>2, <1>7, <1>8, <1>9, <1>10, <1>11, UserStepInv DEF stripeVars

\* Steps of Stripe.
LEMMA StripeStepInv ==
    ASSUME Inv, StripeTypeOK', StripeInv', StripeGrows,
           UNCHANGED <<dbVars, memoryVars, requestVars>>
    PROVE  Inv'
<1>1. TypeOK'
  BY TypeParts, DbTypeKept, MemoryTypeKept, RequestTypeKept, TypePartsNext DEF Inv
<1>2. ASSUME NEW t \in Slot PROVE RequestInv(t)'
  BY <1>1, RequestKept DEF Inv, requestVars
<1>3. ASSUME NEW u \in User PROVE StoredInv(u)'
  BY <1>1, StoredKept DEF Inv, dbVars
<1> QED BY <1>1, <1>2, <1>3 DEF Inv

LEMMA PayInv ==
    ASSUME Inv, NEW c \in Customer, NEW b \in Sub, NEW x \in Snapshot, Pay(c, b, x)
    PROVE  Inv'
<1>0. TypeOK /\ StripeTypeOK /\ StripeInv
  BY TypeParts DEF Inv
<1>1. /\ c \in open /\ customerOf[b] = NoCustomer /\ MaxVersions >= 1
      /\ customerOf' = [customerOf EXCEPT ![b] = c] /\ log' = [log EXCEPT ![b] = <<x>>]
      /\ UNCHANGED <<owner, open, dbVars, memoryVars, requestVars>>
  BY Constants DEF Pay
<1>2. <<x>> \in Seq(Snapshot) /\ Len(<<x>>) = 1
  OBVIOUS
<1>3. StripeTypeOK'
  BY <1>0, <1>1, <1>2 DEF StripeTypeOK
<1>4. StripeInv'
  BY <1>0, <1>1, <1>2, Constants DEF StripeTypeOK, StripeInv
<1>5. \A d \in Sub : customerOf[d] # NoCustomer => customerOf'[d] = customerOf[d] /\ log'[d] = log[d]
  BY <1>0, <1>1 DEF StripeTypeOK
<1>6. StripeGrows
  <2>1. \A d \in Sub : Len(log[d]) \in Nat
    BY <1>0, LenProperties DEF TypeOK
  <2> QED BY <1>1, <1>5, <2>1 DEF StripeGrows
<1> QED BY <1>1, <1>3, <1>4, <1>6, StripeStepInv

LEMMA ChangeInv ==
    ASSUME Inv, NEW b \in Sub, NEW x \in Snapshot, Change(b, x)
    PROVE  Inv'
<1>0. TypeOK /\ StripeTypeOK /\ StripeInv
  BY TypeParts DEF Inv
<1>1. /\ customerOf[b] # NoCustomer /\ Len(log[b]) < MaxVersions
      /\ log' = [log EXCEPT ![b] = Append(log[b], x)]
      /\ UNCHANGED <<customerOf, owner, open, dbVars, memoryVars, requestVars>>
  BY DEF Change
<1>2. \A d \in Sub : log[d] \in Seq(Snapshot) /\ Len(log[d]) \in Nat
  BY <1>0, LenProperties DEF TypeOK
<1>3. /\ Append(log[b], x) \in Seq(Snapshot) /\ Len(Append(log[b], x)) = Len(log[b]) + 1
      /\ \A v \in 1 .. Len(log[b]) : Append(log[b], x)[v] = log[b][v]
  BY <1>2, AppendProperties
<1>4. StripeTypeOK'
  BY <1>0, <1>1, <1>2, <1>3, Constants DEF StripeTypeOK
<1>5. \A d \in Sub : log'[d] = IF d = b THEN Append(log[b], x) ELSE log[d]
  BY <1>0, <1>1 DEF StripeTypeOK
<1>6. StripeInv'
  BY <1>0, <1>1, <1>2, <1>3, <1>5 DEF StripeInv
<1>7. StripeGrows
  BY <1>1, <1>2, <1>3, <1>5 DEF StripeGrows
<1> QED BY <1>1, <1>4, <1>6, <1>7, StripeStepInv

LEMMA RestartInv == ASSUME Inv, Restart PROVE Inv'
<1>1. MemoryTypeOK' /\ RequestTypeOK'
  BY Constants, EmptySeq DEF Restart, MemoryTypeOK, RequestTypeOK
<1>2. TypeOK'
  BY <1>1, TypeParts, StripeTypeKept, DbTypeKept, TypePartsNext DEF Restart, Inv
<1>3. StripeGrows
  BY StripeStays DEF Restart, Inv, stripeVars
<1>4. StripeInv'
  BY DEF Restart, Inv, StripeInv, stripeVars
<1>5. ASSUME NEW t \in Slot PROVE RequestInv(t)'
  BY DEF Restart, RequestInv
<1>6. ASSUME NEW u \in User PROVE StoredInv(u)'
  BY <1>2, <1>3, StoredKept DEF Restart, Inv, dbVars
<1> QED BY <1>2, <1>4, <1>5, <1>6 DEF Inv

LEMMA ExpireCacheInv == ASSUME Inv, NEW v \in User, ExpireCache(v) PROVE Inv'
<1>1. /\ cache' = [cache EXCEPT ![v] = NoPlan]
      /\ UNCHANGED <<stripeVars, dbVars, processed, requestVars>>
  BY DEF ExpireCache
<1>2. MemoryTypeOK'
  BY <1>1, TypeParts DEF Inv, MemoryTypeOK
<1>3. TypeOK'
  BY <1>1, <1>2, TypeParts, StripeTypeKept, DbTypeKept, RequestTypeKept, TypePartsNext DEF Inv
<1>4. StripeGrows
  BY <1>1, StripeStays DEF Inv, stripeVars
<1>5. StripeInv'
  BY <1>1 DEF Inv, StripeInv, stripeVars
<1>6. ASSUME NEW t \in Slot PROVE RequestInv(t)'
  BY <1>1, <1>3, <1>4, RequestKept DEF Inv, requestVars
<1>7. ASSUME NEW u \in User PROVE StoredInv(u)'
  BY <1>1, <1>3, <1>4, StoredKept DEF Inv, dbVars
<1> QED BY <1>3, <1>5, <1>6, <1>7 DEF Inv

LEMMA InitInv == Init => Inv
<1> SUFFICES ASSUME Init PROVE Inv
  OBVIOUS
<1>1. TypeOK
  BY Constants, EmptySeq DEF Init, TypeOK, Plan
<1>2. StripeInv /\ (\A s \in Slot : RequestInv(s)) /\ (\A u \in User : StoredInv(u))
  BY DEF Init, StripeInv, RequestInv, StoredInv
<1> QED BY <1>1, <1>2 DEF Inv

LEMMA NextInv == Inv /\ [Next]_vars => Inv'
<1> SUFFICES ASSUME Inv, [Next]_vars PROVE Inv'
  OBVIOUS
<1>1. ASSUME NEW s \in Slot, RequestStep(s) PROVE Inv'
  BY <1>1, CreateCustomerInv, SaveCustomerInv, OpenSessionInv, RetrieveInv, FindUserInv,
     SyncInv, ReadPlanInv, FillCacheInv, EndInv DEF RequestStep
<1>2. ASSUME NEW s \in Slot, NEW u \in User, Checkout(s, u) \/ AskPlan(s, u) PROVE Inv'
  BY <1>2, CheckoutInv, AskPlanInv
<1>3. ASSUME NEW s \in Slot, NEW e \in Event, Deliver(s, e) PROVE Inv'
  BY <1>3, DeliverInv
<1>4. CASE UNCHANGED vars
  <2>1. UNCHANGED <<stripeVars, dbVars, memoryVars, requestVars>>
    BY <1>4 DEF vars
  <2>2. TypeOK' /\ StripeGrows /\ StripeInv'
    BY <2>1, TypeParts, StripeTypeKept, DbTypeKept, MemoryTypeKept, RequestTypeKept,
       TypePartsNext, StripeStays DEF Inv, StripeInv, stripeVars
  <2>3. ASSUME NEW t \in Slot PROVE RequestInv(t)'
    BY <2>1, <2>2, RequestKept DEF Inv, requestVars
  <2>4. ASSUME NEW u \in User PROVE StoredInv(u)'
    BY <2>1, <2>2, StoredKept DEF Inv, dbVars
  <2> QED BY <2>2, <2>3, <2>4 DEF Inv
<1> QED BY <1>1, <1>2, <1>3, <1>4, ExpireCacheInv, PayInv, ChangeInv, RestartInv DEF Next

\* Every state of checkout, webhook and plan access has its types.
THEOREM TypeCorrect == Spec => []TypeOK
<1>1. Inv => TypeOK
  BY DEF Inv
<1> QED BY InitInv, NextInv, <1>1, PTL DEF Spec

\* BillingService: what is stored for a user was once the state of a
\* subscription paid for by a customer created for that very user.
THEOREM StoredIsOwners == Spec => []StoredIsOwn
<1>1. Inv => StoredIsOwn
  <2> SUFFICES ASSUME Inv, NEW u \in User, stored[u] # NoRow
               PROVE  stored[u].version \in DOMAIN log[stored[u].sub]
    BY DEF Inv, StoredInv, StoredIsOwn
  <2>1. log[stored[u].sub] \in Seq(Snapshot)
    BY StoredType DEF Inv, TypeOK
  <2> QED BY <2>1, LenProperties DEF Inv, StoredInv
<1> QED BY InitInv, NextInv, <1>1, PTL DEF Spec

\* BillingService.syncSubscriptionFromStripe and PlanAccessService: the plan of a
\* user is that of the stored subscription, in whichever way it is derived.
THEOREM PlanMatches == Spec => []PlanMatchesSubscription
<1>1. Inv => PlanMatchesSubscription
  BY ResolvedIsPlan DEF Inv, StoredInv, PlanMatchesSubscription
<1> QED BY InitInv, NextInv, <1>1, PTL DEF Spec

-----------------------------------------------------------------------------
(* Customers that can pay. *)

\* Customers of u that have, or may yet get, a checkout session.
Payable(u) ==
    {c \in Customer : \/ c \in open /\ owner[c] = u
                      \/ c = stripeId[u]
                      \/ \E s \in Slot : pc[s] = "openSession" /\ who[s] = u /\ got[s] = c}

\* Checkouts that will save another one.
Saving(u) == {s \in Slot : pc[s] \in {"createCustomer", "saveCustomer"} /\ who[s] = u}

\* Once a customer is saved no checkout begins to create one, so those that
\* began before make up for all there will be.
CountInv(u) ==
    IF stripeId[u] = NoCustomer THEN Payable(u) = {}
    ELSE Cardinality(Payable(u)) + Cardinality(Saving(u)) <= Cardinality(Slot)

LEMMA SubsetsFinite ==
    /\ \A A \in SUBSET Slot :
          /\ Cardinality(A) \in Nat /\ Cardinality(Slot) \in Nat
          /\ Cardinality(A) <= Cardinality(Slot)
          /\ \A B \in SUBSET A : Cardinality(B) <= Cardinality(A)
          /\ \A s \in A : Cardinality(A \ {s}) + 1 = Cardinality(A)
    /\ \A A \in SUBSET Customer :
          /\ Cardinality(A) \in Nat
          /\ \A B \in SUBSET A : Cardinality(B) <= Cardinality(A)
          /\ \A c \in Customer : \A B \in SUBSET (A \cup {c}) : Cardinality(B) <= Cardinality(A) + 1
<1>1. IsFiniteSet(Slot) /\ IsFiniteSet(Customer)
  BY BillingAssumption
<1>2. ASSUME NEW A \in SUBSET Slot
      PROVE  /\ Cardinality(A) \in Nat /\ Cardinality(Slot) \in Nat
             /\ Cardinality(A) <= Cardinality(Slot)
             /\ \A B \in SUBSET A : Cardinality(B) <= Cardinality(A)
             /\ \A s \in A : Cardinality(A \ {s}) + 1 = Cardinality(A)
  <2>1. IsFiniteSet(A)
    BY <1>1, FS_Subset
  <2>2. Cardinality(A) \in Nat /\ Cardinality(Slot) \in Nat /\ Cardinality(A) <= Cardinality(Slot)
    BY <1>1, <2>1, FS_Subset, FS_CardinalityType
  <2>3. \A B \in SUBSET A : Cardinality(B) <= Cardinality(A)
    BY <2>1, FS_Subset
  <2>4. ASSUME NEW s \in A PROVE Cardinality(A \ {s}) + 1 = Cardinality(A)
    <3>1. Cardinality(A \ {s}) = Cardinality(A) - 1
      BY <2>1, FS_RemoveElement
    <3> QED BY <2>2, <3>1
  <2> QED BY <2>2, <2>3, <2>4
<1>3. ASSUME NEW A \in SUBSET Customer
      PROVE  /\ Cardinality(A) \in Nat
             /\ \A B \in SUBSET A : Cardinality(B) <= Cardinality(A)
             /\ \A c \in Customer : \A B \in SUBSET (A \cup {c}) :
                    Cardinality(B) <= Cardinality(A) + 1
  <2>1. IsFiniteSet(A) /\ Cardinality(A) \in Nat
    BY <1>1, FS_Subset, FS_CardinalityType
  <2>2. \A B \in SUBSET A : Cardinality(B) <= Cardinality(A)
    BY <2>1, FS_Subset
  <2>3. ASSUME NEW c \in Customer, NEW B \in SUBSET (A \cup {c})
        PROVE  Cardinality(B) <= Cardinality(A) + 1
    <3>1. /\ IsFiniteSet(A \cup {c})
          /\ Cardinality(A \cup {c}) = IF c \in A THEN Cardinality(A) ELSE Cardinality(A) + 1
      BY <2>1, FS_AddElement
    <3>2. /\ Cardinality(B) \in Nat /\ Cardinality(A \cup {c}) \in Nat
          /\ Cardinality(B) <= Cardinality(A \cup {c})
      BY <3>1, FS_Subset, FS_CardinalityType
    <3> QED BY <2>1, <3>1, <3>2
  <2> QED BY <2>1, <2>2, <2>3
<1> QED BY <1>2, <1>3

LEMMA CountTypes == \A u : Payable(u) \in SUBSET Customer /\ Saving(u) \in SUBSET Slot
BY DEF Payable, Saving

\* A step that adds no customer and no checkout that will.
LEMMA CountShrinks ==
    ASSUME NEW u \in User, CountInv(u), (stripeId'[u] = NoCustomer <=> stripeId[u] = NoCustomer),
           Payable(u)' \in SUBSET Payable(u),
           stripeId[u] # NoCustomer => Saving(u)' \in SUBSET Saving(u)
    PROVE  CountInv(u)'
<1>1. CASE stripeId[u] = NoCustomer
  BY <1>1 DEF CountInv
<1>2. CASE stripeId[u] # NoCustomer
  <2>1. Payable(u)' \in SUBSET Customer /\ Saving(u)' \in SUBSET Slot
        /\ Payable(u) \in SUBSET Customer /\ Saving(u) \in SUBSET Slot
    BY DEF Payable, Saving
  <2>2. /\ Cardinality(Payable(u)') <= Cardinality(Payable(u))
        /\ Cardinality(Payable(u)') \in Nat /\ Cardinality(Payable(u)) \in Nat
    BY <2>1, SubsetsFinite
  <2>3. /\ Cardinality(Saving(u)') <= Cardinality(Saving(u))
        /\ Cardinality(Saving(u)') \in Nat /\ Cardinality(Saving(u)) \in Nat
        /\ Cardinality(Slot) \in Nat
    BY <1>2, <2>1, SubsetsFinite
  <2>4. Cardinality(Payable(u)) + Cardinality(Saving(u)) <= Cardinality(Slot)
    BY <1>2 DEF CountInv
  <2>5. Cardinality(Payable(u)') + Cardinality(Saving(u)') <= Cardinality(Slot)
    BY <2>2, <2>3, <2>4
  <2> QED BY <1>2, <2>5 DEF CountInv
<1> QED BY <1>1, <1>2

LEMMA SaveCount ==
    ASSUME Inv, NEW u \in User, CountInv(u), NEW s \in Slot, SaveCustomer(s)
    PROVE  CountInv(u)'
<1>0. DbTypeOK /\ RequestTypeOK /\ RequestInv(s)
  BY TypeParts DEF Inv
<1>1. /\ pc[s] = "saveCustomer" /\ pc' = [pc EXCEPT ![s] = "openSession"]
      /\ stripeId' = [stripeId EXCEPT ![who[s]] = got[s]]
      /\ UNCHANGED <<owner, open, who, got>>
      /\ who[s] \in User /\ got[s] \in Customer /\ got[s] # NoCustomer
  BY <1>0, Constants DEF SaveCustomer, Goto, stripeVars, RequestInv
<1>2. CASE who[s] # u
  <2>1. stripeId'[u] = stripeId[u]
    BY <1>0, <1>1, <1>2 DEF DbTypeOK
  <2>2. Payable(u)' \in SUBSET Payable(u) /\ Saving(u)' \in SUBSET Saving(u)
    BY <1>0, <1>1, <1>2, <2>1 DEF Payable, Saving, RequestTypeOK
  <2> QED BY <2>1, <2>2, CountShrinks
<1>3. CASE who[s] = u
  <2>1. stripeId'[u] = got[s]
    BY <1>0, <1>1, <1>3 DEF DbTypeOK
  <2>2. Payable(u)' \in SUBSET (Payable(u) \cup {got[s]})
    BY <1>0, <1>1, <1>3, <2>1 DEF Payable, RequestTypeOK
  <2>3. s \in Saving(u) /\ Saving(u)' = Saving(u) \ {s}
    BY <1>0, <1>1, <1>3 DEF Saving, RequestTypeOK
  <2>4. /\ Payable(u)' \in SUBSET Customer /\ Payable(u) \in SUBSET Customer
        /\ Saving(u) \in SUBSET Slot
    BY DEF Payable, Saving
  <2>5. /\ Cardinality(Payable(u)') <= Cardinality(Payable(u)) + 1
        /\ Cardinality(Payable(u)') \in Nat /\ Cardinality(Payable(u)) \in Nat
    BY <1>1, <2>2, <2>4, SubsetsFinite
  <2>6. /\ Cardinality(Saving(u)') + 1 = Cardinality(Saving(u))
        /\ Cardinality(Saving(u)) <= Cardinality(Slot)
        /\ Cardinality(Saving(u)) \in Nat /\ Cardinality(Slot) \in Nat
    BY <2>3, <2>4, SubsetsFinite
  <2>7. Cardinality(Saving(u)') \in Nat
    BY <2>3, <2>4, SubsetsFinite
  <2>8. Cardinality(Payable(u)) + Cardinality(Saving(u)) <= Cardinality(Slot)
    <3>1. CASE stripeId[u] = NoCustomer
      <4>1. Cardinality(Payable(u)) = 0
        BY <3>1, FS_EmptySet DEF CountInv
      <4> QED BY <2>6, <4>1
    <3>2. CASE stripeId[u] # NoCustomer
      BY <3>2 DEF CountInv
    <3> QED BY <3>1, <3>2
  <2>9. Cardinality(Payable(u)') + Cardinality(Saving(u)') <= Cardinality(Slot)
    BY <2>5, <2>6, <2>7, <2>8
  <2> QED BY <1>1, <2>1, <2>9 DEF CountInv
<1> QED BY <1>2, <1>3

LEMMA SyncCount ==
    ASSUME Inv, NEW u \in User, CountInv(u), NEW s \in Slot, Sync(s)
    PROVE  CountInv(u)'
<1>0. TypeOK /\ DbTypeOK /\ RequestTypeOK /\ RequestInv(s) /\ StripeInv
  BY TypeParts DEF Inv
<1> SUFFICES ASSUME NEW b, b = event[s].sub PROVE CountInv(u)'
  OBVIOUS
<1>1. /\ pc[s] = "sync" /\ pc' = [pc EXCEPT ![s] = "invalidate"]
      /\ stripeId' = [stripeId EXCEPT ![who[s]] = customerOf[b]]
      /\ UNCHANGED <<owner, open, who, got>>
  BY DEF Sync, Goto, stripeVars
<1>2. /\ event[s] \in Event /\ b \in Sub /\ customerOf[b] # NoCustomer
      /\ who[s] \in User /\ owner[customerOf[b]] = who[s]
  BY <1>0, <1>1, EventType DEF RequestInv
<1>3. customerOf[b] \in open /\ customerOf[b] \in Customer
  BY <1>0, <1>2 DEF StripeInv, TypeOK
<1>4. CASE who[s] # u
  <2>1. stripeId'[u] = stripeId[u]
    BY <1>0, <1>1, <1>2, <1>4 DEF DbTypeOK
  <2>2. Payable(u)' \in SUBSET Payable(u) /\ Saving(u)' \in SUBSET Saving(u)
    BY <1>0, <1>1, <2>1 DEF Payable, Saving, RequestTypeOK
  <2> QED BY <2>1, <2>2, CountShrinks
<1>5. CASE who[s] = u
  <2>1. stripeId'[u] = customerOf[b]
    BY <1>0, <1>1, <1>2, <1>5 DEF DbTypeOK
  <2>2. customerOf[b] \in Payable(u)
    BY <1>2, <1>3, <1>5 DEF Payable
  <2>3. stripeId[u] # NoCustomer
    BY <2>2 DEF CountInv
  <2>4. Payable(u)' \in SUBSET Payable(u) /\ Saving(u)' \in SUBSET Saving(u)
    BY <1>0, <1>1, <2>1, <2>2 DEF Payable, Saving, RequestTypeOK
  <2> QED BY <1>2, <2>1, <2>3, <2>4, CountShrinks
<1> QED BY <1>4, <1>5

\* All other steps.
LEMMA NextCount == ASSUME Inv, NEW u \in User, CountInv(u), [Next]_vars PROVE CountInv(u)'
<1>0. TypeOK /\ DbTypeOK /\ RequestTypeOK /\ StripeTypeOK /\ StripeInv
  BY TypeParts DEF Inv
<1>1. ASSUME UNCHANGED stripeId, Payable(u)' \in SUBSET Payable(u),
             stripeId[u] # NoCustomer => Saving(u)' \in SUBSET Saving(u)
      PROVE  CountInv(u)'
  BY <1>1, CountShrinks
<1>2. ASSUME NEW s \in Slot, NEW v \in User, Checkout(s, v) PROVE CountInv(u)'
  <2>1. /\ pc[s] = "idle"
        /\ pc' = [pc EXCEPT ![s] = IF stripeId[v] = NoCustomer THEN "createCustomer"
                                   ELSE "openSession"]
        /\ who' = [who EXCEPT ![s] = v] /\ got' = [got EXCEPT ![s] = stripeId[v]]
        /\ UNCHANGED <<owner, open, stripeId>>
    BY <1>2 DEF Checkout, Goto, stripeVars, dbVars
  <2>2. Payable(u)' \in SUBSET Payable(u)
    BY <1>0, <2>1 DEF Payable, RequestTypeOK
  <2>3. stripeId[u] # NoCustomer => Saving(u)' \in SUBSET Saving(u)
    BY <1>0, <2>1 DEF Saving, RequestTypeOK
  <2> QED BY <1>1, <2>1, <2>2, <2>3
<1>3. ASSUME NEW s \in Slot, NEW v \in User, AskPlan(s, v) PROVE CountInv(u)'
  <2>1. /\ pc' = [pc EXCEPT ![s] = "readPlan"] /\ who' = [who EXCEPT ![s] = v]
        /\ UNCHANGED <<owner, open, stripeId, got>>
    BY <1>3 DEF AskPlan, Goto, stripeVars, dbVars
  <2>2. Payable(u)' \in SUBSET Payable(u) /\ Saving(u)' \in SUBSET Saving(u)
    BY <1>0, <2>1 DEF Payable, Saving, RequestTypeOK
  <2> QED BY <1>1, <2>1, <2>2
<1>4. ASSUME NEW s \in Slot, NEW c \in Customer, CreateCustomer(s, c) PROVE CountInv(u)'
  <2>1. /\ pc[s] = "createCustomer" /\ pc' = [pc EXCEPT ![s] = "saveCustomer"]
        /\ owner[c] = Nobody /\ owner' = [owner EXCEPT ![c] = who[s]]
        /\ got' = [got EXCEPT ![s] = c] /\ UNCHANGED <<open, who, stripeId>>
    BY <1>4 DEF CreateCustomer, Goto, dbVars
  <2>2. c \notin open
    BY <1>0, <2>1, Constants DEF StripeInv
  <2>3. Payable(u)' \in SUBSET Payable(u) /\ Saving(u)' \in SUBSET Saving(u)
    BY <1>0, <2>1, <2>2 DEF Payable, Saving, RequestTypeOK, StripeTypeOK
  <2> QED BY <1>1, <2>1, <2>3
<1>5. ASSUME NEW s \in Slot, OpenSession(s) PROVE CountInv(u)'
  <2>1. /\ pc[s] = "openSession" /\ open' = open \cup {got[s]}
        /\ pc' = [pc EXCEPT ![s] = "idle"] /\ who' = [who EXCEPT ![s] = Nobody]
        /\ got' = [got EXCEPT ![s] = NoCustomer] /\ UNCHANGED <<owner, stripeId>>
        /\ owner[got[s]] = who[s]
    BY <1>5 DEF OpenSession, Finish, Goto, dbVars, Inv, RequestInv
  <2>2. Payable(u)' \in SUBSET Payable(u) /\ Saving(u)' \in SUBSET Saving(u)
    BY <1>0, <2>1 DEF Payable, Saving, RequestTypeOK
  <2> QED BY <1>1, <2>1, <2>2
<1>6. ASSUME NEW s \in Slot,
             (\E e \in Event : Deliver(s, e)) \/ Retrieve(s) \/ (\E v \in User : FindUser(s, v))
             \/ ReadPlan(s)
      PROVE  CountInv(u)'
  <2>1. PICK label \in {"retrieve", "findUser", "sync", "fillCache"} :
            pc' = [pc EXCEPT ![s] = label]
    BY <1>6 DEF Deliver, Retrieve, FindUser, ReadPlan, Goto
  <2>2. /\ UNCHANGED <<owner, open, stripeId>>
        /\ \A t \in Slot \ {s} : who'[t] = who[t] /\ got'[t] = got[t]
    BY <1>0, <1>6 DEF Deliver, Retrieve, FindUser, ReadPlan, stripeVars, dbVars, RequestTypeOK
  <2>3. Payable(u)' \in SUBSET Payable(u) /\ Saving(u)' \in SUBSET Saving(u)
    BY <1>0, <2>1, <2>2 DEF Payable, Saving, RequestTypeOK
  <2> QED BY <1>1, <2>2, <2>3
<1>7. ASSUME NEW s \in Slot, SkipEvent(s) \/ Invalidate(s) \/ FillCache(s) \/ Reject(s)
      PROVE  CountInv(u)'
  <2>1. Finish(s) /\ UNCHANGED <<owner, open, stripeId>>
    BY <1>7 DEF SkipEvent, Invalidate, FillCache, Reject, stripeVars, dbVars
  <2>2. Payable(u)' \in SUBSET Payable(u) /\ Saving(u)' \in SUBSET Saving(u)
    BY <1>0, <2>1 DEF Payable, Saving, Finish, Goto, RequestTypeOK
  <2> QED BY <1>1, <2>1, <2>2
<1>8. CASE Restart
  <2>1. Payable(u)' \in SUBSET Payable(u) /\ Saving(u)' \in SUBSET Saving(u) /\ UNCHANGED stripeId
    BY <1>8 DEF Payable, Saving, Restart, stripeVars, dbVars
  <2> QED BY <1>1, <2>1
<1>9. ASSUME UNCHANGED <<owner, open, dbVars, requestVars>> PROVE CountInv(u)'
  <2>1. Payable(u)' \in SUBSET Payable(u) /\ Saving(u)' \in SUBSET Saving(u) /\ UNCHANGED stripeId
    BY <1>9 DEF Payable, Saving, dbVars, requestVars
  <2> QED BY <1>1, <2>1
<1>10. ASSUME \/ \E v \in User : ExpireCache(v)
              \/ \E c \in Customer, b \in Sub, x \in Snapshot : Pay(c, b, x)
              \/ \E b \in Sub, x \in Snapshot : Change(b, x)
              \/ UNCHANGED vars
       PROVE  CountInv(u)'
  BY <1>9, <1>10 DEF ExpireCache, Pay, Change, vars, stripeVars
<1> QED
  BY <1>2, <1>3, <1>4, <1>5, <1>6, <1>7, <1>8, <1>10, SaveCount, SyncCount DEF Next, RequestStep

\* BillingService.ensureStripeCustomer: overlapping first checkouts leave no
\* more customers of a user that can pay than there are requests in flight.
THEOREM PayingCustomersAreBounded == Spec => []PayingCustomersBounded
<1> DEFINE Counted == \A u \in User : CountInv(u)
<1>1. Init => Counted
  <2> SUFFICES ASSUME Init, NEW u \in User PROVE CountInv(u)
    OBVIOUS
  <2>1. stripeId[u] = NoCustomer /\ open = {} /\ \A s \in Slot : pc[s] = "idle"
    BY DEF Init
  <2>2. Payable(u) = {}
    BY <2>1, Constants DEF Payable
  <2> QED BY <2>1, <2>2 DEF CountInv
<1>2. Inv /\ Counted /\ [Next]_vars => Counted'
  BY NextCount
<1>3. Inv /\ Counted => PayingCustomersBounded
  <2> SUFFICES ASSUME Inv, Counted, NEW u \in User
               PROVE  Cardinality({c \in open : owner[c] = u}) <= Cardinality(Slot)
    BY DEF PayingCustomersBounded
  <2> DEFINE paying == {c \in open : owner[c] = u}
  <2>1. paying \in SUBSET Payable(u)
    BY DEF Payable, Inv, TypeOK
  <2>2. Cardinality(paying) <= Cardinality(Payable(u)) /\ Cardinality(paying) \in Nat
        /\ Cardinality(Payable(u)) \in Nat
    <3>1. Payable(u) \in SUBSET Customer /\ paying \in SUBSET Customer
      BY <2>1, CountTypes
    <3> HIDE DEF paying
    <3> QED BY <2>1, <3>1, SubsetsFinite
  <2>3. Cardinality(Saving(u)) \in Nat /\ Cardinality(Slot) \in Nat
    BY CountTypes, SubsetsFinite
  <2>4. Payable(u) = {} \/ Cardinality(Payable(u)) + Cardinality(Saving(u)) <= Cardinality(Slot)
    BY DEF CountInv
  <2>5. Payable(u) = {} => Cardinality(Payable(u)) = 0
    BY FS_EmptySet
  <2> HIDE DEF paying
  <2>6. Cardinality(paying) <= Cardinality(Slot)
    BY <2>2, <2>3, <2>4, <2>5
  <2> QED BY <2>6 DEF paying
<1> HIDE DEF Counted
<1> QED BY InitInv, NextInv, <1>1, <1>2, <1>3, PTL DEF Spec

=============================================================================

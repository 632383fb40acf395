------------------------- MODULE SubscriptionWallet -------------------------
(***************************************************************************)
(* The subscription pools of kore-api: the handlers of                     *)
(* webhook_router_v2.py over an InMemoryWalletStore.  railway.toml starts  *)
(* two workers, each with a store of its own that ends with the worker;    *)
(* main.py configures no store, billing-v2-deployment.md says how to.      *)
(* Nothing in a handler waits, so a worker handles one event after the     *)
(* other.                                                                  *)
(*                                                                         *)
(* Stripe is external.  It has one subscription per customer at a time and *)
(* writes an event for each change; it delivers an event at least once, to *)
(* any worker and in any order.  Subscriptions of the customers in Named   *)
(* carry the tenant in their metadata; invoices never do.  A price is      *)
(* written as its id or as the object it is, which                         *)
(* _handle_subscription_updated allows for.  checkout.session.completed    *)
(* changes nothing and is left out, as are other types.                    *)
(***************************************************************************)
EXTENDS Naturals, Sequences

CONSTANTS Routers,      \* workers of uvicorn
          Subscribers,  \* Stripe customers
          Owner,        \* the tenant each of them pays for
          Named,        \* those whose subscriptions carry the tenant
          Tiers,        \* TIER_CREDITS
          MaxEvents, MaxDeliveries,  \* bounds: events, deliveries of each
          MaxPlans      \* bound: subscriptions of one customer

Tenants == {Owner[c] : c \in Subscribers}
NoTenant == "no tenant"

ASSUME WalletBounds ==
  /\ DOMAIN Owner = Subscribers /\ Named \subseteq Subscribers
  /\ {MaxEvents, MaxDeliveries, MaxPlans} \subseteq Nat

(* No tenant is None, and the store has room for one subscription of a     *)
(* tenant: no two customers name the same one.                             *)
ASSUME TenantsAreTheirs ==
  /\ NoTenant \notin Tenants
  /\ \A c, d \in Named : Owner[c] = Owner[d] => c = d

VARIABLES plan,       \* Stripe: the subscription of each customer
          events,     \* Stripe: what it has written
          sends,      \* how often each was delivered
          configured, \* configure_store was called
          store       \* of each worker: pools (tier -> full, of each tenant),
                      \* tenantOf (tenants_by_stripe), subs (subscriptions) and
                      \* grace (grace_periods: one runs)

stripeVars == <<plan, events>>
walletVars == <<stripeVars, sends, configured, store>>

NoTier == "no tier"
NoSub == [id |-> <<>>]

NewStore ==
  [pools |-> [t \in Tenants |-> {}], tenantOf |-> [c \in Subscribers |-> NoTenant],
   subs |-> [t \in Tenants |-> NoSub], grace |-> {}]

WalletInit ==
  /\ plan = [c \in Subscribers |-> [number |-> 0, active |-> FALSE, tier |-> NoTier]]
  /\ events = <<>> /\ sends = <<>>
  /\ configured \in BOOLEAN /\ store = [r \in Routers |-> NewStore]

-----------------------------------------------------------------------------
(* Stripe.                                                                 *)

Write(type, c, now, named) ==
  /\ Len(events) < MaxEvents /\ plan' = [plan EXCEPT ![c] = now]
  /\ \E form \in {"id", "object"} :
       events' = Append(events, [type |-> type, customer |-> c, id |-> <<c, now.number>>,
                                 tier |-> now.tier, form |-> form,
                                 tenant |-> IF named THEN Owner[c] ELSE NoTenant])
  /\ sends' = Append(sends, 0) /\ UNCHANGED <<configured, store>>

Subscribe(c, tier) ==
  /\ ~plan[c].active /\ plan[c].number < MaxPlans
  /\ Write("created", c, [number |-> plan[c].number + 1, active |-> TRUE, tier |-> tier],
           c \in Named)
ChangePlan(c, tier) ==
  /\ plan[c].active /\ tier # plan[c].tier
  /\ Write("updated", c, [plan[c] EXCEPT !.tier = tier], c \in Named)
Cancel(c) ==
  /\ plan[c].active
  /\ Write("deleted", c, [plan[c] EXCEPT !.active = FALSE], c \in Named)
(* also of a subscription that has ended                                   *)
Invoice(c, type) == plan[c].number > 0 /\ Write(type, c, plan[c], FALSE)

-----------------------------------------------------------------------------
(* The handlers: the store s after event e.                                *)

(* _tenant_from_event, else the customer mapping                           *)
TenantFromEvent(s, e) == IF e.tenant # NoTenant THEN e.tenant ELSE s.tenantOf[e.customer]
(* an invoice is also looked up by its subscription                        *)
TenantsOfInvoice(s, e) ==
  IF TenantFromEvent(s, e) # NoTenant THEN {TenantFromEvent(s, e)}
  ELSE {t \in Tenants : s.subs[t].id = e.id}

Recording(s, e, t, tier) ==
  [s EXCEPT !.pools[t] = @ \cup {tier},
            !.subs[t] = [id |-> e.id, tier |-> tier, customer |-> e.customer],
            !.tenantOf[e.customer] = t]

\* A mutant of HandleSubscriptionCreated: an unknown price is taken for a tier.
HandleSubscriptionCreatedDefault(s, e) ==
  LET t == TenantFromEvent(s, e) IN
  IF t = NoTenant THEN s
  ELSE Recording(s, e, t, IF e.form = "object" THEN CHOOSE x \in Tiers : TRUE ELSE e.tier)

(* _handle_subscription_created hands the price to _tier_from_price as it  *)
(* is, which knows no tier for an object.                                  *)
HandleSubscriptionCreated(s, e) ==
  LET t == TenantFromEvent(s, e) IN
  IF t = NoTenant \/ e.form = "object" THEN s ELSE Recording(s, e, t, e.tier)

HandleSubscriptionUpdated(s, e) ==
  LET t == TenantFromEvent(s, e) IN
  IF t = NoTenant THEN s ELSE [s EXCEPT !.pools[t] = {e.tier}]

HandleSubscriptionDeleted(s, e) ==
  LET t == TenantFromEvent(s, e) IN
  IF t = NoTenant THEN s ELSE [s EXCEPT !.pools[t] = {}]

(* A subscription is recorded for the tenant its customer pays for, so one *)
(* tenant at most is found.                                                *)
HandleInvoicePaymentSucceeded(s, e) ==
  LET found == {t \in TenantsOfInvoice(s, e) : s.subs[t] # NoSub} IN
  [s EXCEPT !.pools = [t \in Tenants |-> IF t \in found THEN @[t] \cup {s.subs[t].tier}
                                         ELSE @[t]],
            !.grace = @ \ found]

HandleInvoicePaymentFailed(s, e) ==
  LET t == TenantFromEvent(s, e) IN
  IF t = NoTenant THEN s ELSE [s EXCEPT !.grace = @ \cup {t}]

Handled(s, e) ==
  CASE e.type = "created" -> HandleSubscriptionCreated(s, e)
    [] e.type = "updated" -> HandleSubscriptionUpdated(s, e)
    [] e.type = "deleted" -> HandleSubscriptionDeleted(s, e)
    [] e.type = "paid"    -> HandleInvoicePaymentSucceeded(s, e)
    [] e.type = "failed"  -> HandleInvoicePaymentFailed(s, e)

(* Without a store every event is answered 500.                            *)
RouteEvent(r, i) ==
  /\ sends[i] < MaxDeliveries /\ sends' = [sends EXCEPT ![i] = @ + 1]
  /\ store' = IF configured THEN [store EXCEPT ![r] = Handled(@, events[i])] ELSE store
  /\ UNCHANGED <<stripeVars, configured>>

(* restartPolicyType "always", or a deployment                             *)
Restart(r) ==
  /\ store' = [store EXCEPT ![r] = NewStore]
  /\ UNCHANGED <<stripeVars, sends, configured>>

WalletNext ==
  \/ \E c \in Subscribers : \/ \E tier \in Tiers : Subscribe(c, tier) \/ ChangePlan(c, tier)
                          \/ Cancel(c)
                          \/ \E type \in {"paid", "failed"} : Invoice(c, type)
  \/ \E r \in Routers : Restart(r) \/ \E i \in DOMAIN events : RouteEvent(r, i)

WalletSpec == WalletInit /\ [][WalletNext]_walletVars

-----------------------------------------------------------------------------
(* Types of the stores.                                                    *)
Records == {NoSub} \cup
           [id : Subscribers \X (1 .. MaxPlans), tier : Tiers, customer : Subscribers]
WalletTypeOK ==
  store \in [Routers -> [pools : [Tenants -> SUBSET Tiers],
                         tenantOf : [Subscribers -> Tenants \cup {NoTenant}],
                         subs : [Tenants -> Records], grace : SUBSET Tenants]]

RecordedTiers(s, t) == IF s.subs[t] = NoSub THEN {} ELSE {s.subs[t].tier}

(* In whatever order events come, however often and to whichever worker,   *)
(* and whatever workers restart in between, no tenant's pools or record    *)
(* come from another's subscription: what it has are tiers its own         *)
(* customer once subscribed to, though it may hold them longer than that.  *)
PoolsWerePaidFor ==
  \A r \in Routers :
    /\ \A t \in Tenants : \A tier \in store[r].pools[t] \cup RecordedTiers(store[r], t) :
         \E i \in DOMAIN events : Owner[events[i].customer] = t /\ events[i].tier = tier
    /\ \A c \in Subscribers : store[r].tenantOf[c] \in {NoTenant, Owner[c]}
=============================================================================

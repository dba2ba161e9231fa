------------------------- MODULE SubscriptionOrders -------------------------
(***************************************************************************)
(* The subscription of one project: the orders that buy it, the payments   *)
(* that deliver them, the job that expires it and falls back to the free   *)
(* plan, and the superadmin who overrides it.                              *)
(*                                                                         *)
(* A session is one HTTP handler; its steps are the statements it issues,  *)
(* except that the transaction of DeliverOrder and the one of the expiry   *)
(* job are single steps: each writes one subscription row before it        *)
(* inserts the next, so that a second one waits for that row, or for the   *)
(* unique index, until the first has ended.                                *)
(*                                                                         *)
(* A plan is its tier level, and two plans of one tier are one plan here;  *)
(* the free plan is tier 0 and has no price.  Every period has the same    *)
(* length.  A subscription starts when it is created.                      *)
(***************************************************************************)
EXTENDS Integers, Sequences

CONSTANTS
  Session,     \* handler goroutines
  Order,       \* identifiers of subscription orders
  NoOrder,     \* origin of a subscription that no order bought
  Pod,         \* processes that run the expiry job
  Tiers,       \* tier levels of the paid plans
  Currencies,  \* "CNY", "USD"
  Term,        \* length of one period
  MaxTime,     \* bound on the clock
  Budget       \* bound on the superadmin's overrides and on aborts

ASSUME OrderAssumption    == NoOrder \notin Order
ASSUME TiersAssumption    == Tiers \subseteq Nat \ {0}
ASSUME CurrencyAssumption == "" \notin Currencies
ASSUME TermAssumption     == Term \in Nat \ {0} /\ MaxTime \in Nat
ASSUME BudgetAssumption   == Budget \in [{"admin", "abort"} -> Nat]

VARIABLES
  now,         \* the database clock
  freePlan,    \* a free plan is configured and active
  subs,        \* rows of subscriptions, in the order of their insertion
  orders,      \* the row of every order, with what the payment service knows
  pc, loc,     \* where each session is, and its local variables
  sweep,       \* where each pod's expiry job is
  budget       \* what is left of Budget

vars == <<now, freePlan, subs, orders, pc, loc, sweep, budget>>

----------------------------------------------------------------------------
(* State.                                                                  *)

OrderStatus == {"none", "pending", "paying", "delivered", "cancelled", "failed"}
SubStatus   == {"active", "revoked", "expired"}
Label       == {"idle", "paying_check", "insert", "payment", "deliver"}
Free        == 0

\* A free subscription lasts a hundred years.
Forever == MaxTime + Term + 1

NoLocals == [order |-> NoOrder, plan |-> Free, currency |-> "", existing |-> 0]

\* What one iteration of the job has in hand: nothing, the id of an expired
\* subscription, or the finding that there is no free plan.
NoSweep     == [step |-> "idle",    item |-> 0]
NoFallback  == [step |-> "no_free", item |-> 0]
SweepItem(i) == [step |-> "item",   item |-> i]

Sub(plan, currency, expires, origin) ==
  [plan |-> plan, currency |-> currency, expires |-> expires,
   origin |-> origin, status |-> "active"]

NoRow == [status |-> "none", plan |-> Free, currency |-> "", existing |-> 0, paid |-> FALSE]

\* A new project has the free plan, or nothing if AssignFreePlan failed.
Init ==
  /\ now = 0
  /\ freePlan = TRUE
  /\ subs \in {<<>>, <<Sub(Free, "", Forever, NoOrder)>>}
  /\ orders = [o \in Order |-> NoRow]
  /\ pc = [s \in Session |-> "idle"]
  /\ loc = [s \in Session |-> NoLocals]
  /\ sweep = [p \in Pod |-> NoSweep]
  /\ budget = Budget

Active(table) == {i \in 1..Len(table) : table[i].status = "active"}

SetStatus(i, status) == [subs EXCEPT ![i] = [@ EXCEPT !.status = status]]

\* idx_subscriptions_one_active_per_project lets a row become active.
MayActivate(table) == Active(table) = {}

\* What GetActiveSubscription may return.
Current == {i \in Active(subs) : subs[i].expires >= now}

SomeonePaying == \E o \in Order : orders[o].status = "paying"

Goto(s, label) == pc' = [pc EXCEPT ![s] = label]

Return(s) == Goto(s, "idle") /\ loc' = [loc EXCEPT ![s] = NoLocals]

Spend(kind) == budget[kind] > 0 /\ budget' = [budget EXCEPT ![kind] = @ - 1]

SetOrderStatus(o, status) == orders' = [orders EXCEPT ![o] = [@ EXCEPT !.status = status]]

----------------------------------------------------------------------------
(* handleCreateOrder.                                                      *)

\* A renewal or an upgrade, in the currency the subscription is locked to.
MayOrder(i, plan, currency) ==
  /\ plan >= subs[i].plan
  /\ subs[i].currency \in {"", currency}

\* The active subscription is read and the plan and channel checked against
\* it.  The id of the order is chosen by the INSERT below; no other handler
\* chooses the same one.
ReadActive(s, o, plan, currency) ==
  /\ pc[s] = "idle"
  /\ orders[o].status = "none"
  /\ \A t \in Session : loc[t].order # o
  /\ \E i \in Current :
       /\ MayOrder(i, plan, currency)
       /\ loc' = [loc EXCEPT ![s] = [order |-> o, plan |-> plan,
                                     currency |-> currency, existing |-> i]]
  /\ Goto(s, "paying_check")
  /\ UNCHANGED <<now, freePlan, subs, orders, sweep, budget>>

\* HasPayingOrder, one statement of its own.
NoPayingOrder(s) ==
  /\ pc[s] = "paying_check"
  /\ ~SomeonePaying
  /\ Goto(s, "insert")
  /\ UNCHANGED <<now, freePlan, subs, orders, loc, sweep, budget>>

PayingOrderExists(s) ==
  /\ pc[s] = "paying_check"
  /\ SomeonePaying
  /\ Return(s)
  /\ UNCHANGED <<now, freePlan, subs, orders, sweep, budget>>

CreateOrder(s) ==
  /\ pc[s] = "insert"
  /\ orders' = [orders EXCEPT ![loc[s].order] =
                  [status |-> "pending", plan |-> loc[s].plan, currency |-> loc[s].currency,
                   existing |-> loc[s].existing, paid |-> FALSE]]
  /\ Goto(s, "payment")
  /\ UNCHANGED <<now, freePlan, subs, loc, sweep, budget>>

\* CreatePayment answered; UpdateOrderPayment sets the status whatever it is.
PaymentCreated(s) ==
  /\ pc[s] = "payment"
  /\ SetOrderStatus(loc[s].order, "paying")
  /\ Return(s)
  /\ UNCHANGED <<now, freePlan, subs, sweep, budget>>

\* No payment client, or CreatePayment failed.
PaymentFailed(s) ==
  /\ pc[s] = "payment"
  /\ SetOrderStatus(loc[s].order, "failed")
  /\ Return(s)
  /\ UNCHANGED <<now, freePlan, subs, sweep, budget>>

\* One conditional UPDATE; the read before it can only refuse earlier.
CancelOrder(o) ==
  /\ orders[o].status \in {"pending", "paying"}
  /\ SetOrderStatus(o, "cancelled")
  /\ UNCHANGED <<now, freePlan, subs, pc, loc, sweep, budget>>

\* The customer follows the payment URL, which only a paying order has shown;
\* cancelling the order does not close it.
CustomerPays(o) ==
  /\ orders[o].status \in {"paying", "cancelled"}
  /\ \A s \in Session : loc[s].order # o
  /\ ~orders[o].paid
  /\ orders' = [orders EXCEPT ![o] = [@ EXCEPT !.paid = TRUE]]
  /\ UNCHANGED <<now, freePlan, subs, pc, loc, sweep, budget>>

----------------------------------------------------------------------------
(* Delivery.                                                               *)

\* handleDeliveryWebhook has read the order and found it paying.  Any other
\* status is answered without a state change.
DeliveryWebhook(s, o) ==
  /\ pc[s] = "idle"
  /\ orders[o].paid
  /\ orders[o].status = "paying"
  /\ Goto(s, "deliver")
  /\ loc' = [loc EXCEPT ![s] = [@ EXCEPT !.order = o]]
  /\ UNCHANGED <<now, freePlan, subs, orders, sweep, budget>>

\* A renewal extends the old expiry, everything else starts a fresh period.
NewExpiry(o) ==
  LET old == subs[orders[o].existing]
  IN  (IF old.plan = orders[o].plan THEN old.expires ELSE now) + Term

\* Fault: whatever is active by now is revoked.
RevokedTableCurrent(o) ==
  [i \in 1..Len(subs) |->
     IF i \in Active(subs) THEN [subs[i] EXCEPT !.status = "revoked"] ELSE subs[i]]

\* Fault: the new row is inserted before the old one is revoked.
RevokedTableLate(o) == subs

\* The table as the INSERT finds it: the subscription the order was priced
\* against has been revoked.
RevokedTable(o) == SetStatus(orders[o].existing, "revoked")

\* Fault: the status is not read again under the row lock.
DeliverableUnchecked(o) == MayActivate(RevokedTable(o))

\* What the transaction of DeliverOrder requires: the order still paying under
\* its row lock, and no other subscription active at the INSERT.
Deliverable(o) == orders[o].status = "paying" /\ MayActivate(RevokedTable(o))

\* The transaction: revoke, insert, mark delivered, commit.
DeliverOrder(s) ==
  LET o == loc[s].order
  IN  /\ pc[s] = "deliver"
      /\ Deliverable(o)
      /\ subs' = Append(RevokedTable(o), Sub(orders[o].plan, orders[o].currency, NewExpiry(o), o))
      /\ SetOrderStatus(o, "delivered")
      /\ Return(s)
      /\ UNCHANGED <<now, freePlan, sweep, budget>>

\* Delivered by another webhook, cancelled, or refused by the unique index:
\* the transaction rolls back.
DeliverRolledBack(s) ==
  /\ pc[s] = "deliver"
  /\ ~Deliverable(loc[s].order)
  /\ Return(s)
  /\ UNCHANGED <<now, freePlan, subs, orders, sweep, budget>>

----------------------------------------------------------------------------
(* ExpireAndFallbackToFree, every minute in every pod.                     *)

Lapsed(i) == subs[i].plan # Free /\ subs[i].expires < now

\* The job finds a free plan and collects the expired subscription, if any.
SweepSelect(p) ==
  /\ sweep[p] = NoSweep
  /\ freePlan
  /\ \E i \in Active(subs) : Lapsed(i) /\ sweep' = [sweep EXCEPT ![p] = SweepItem(i)]
  /\ UNCHANGED <<now, freePlan, subs, orders, pc, loc, budget>>

\* Fault: the job expires whatever the project has active by now.
ExpiredTableByProject(i) ==
  [j \in 1..Len(subs) |->
     IF j \in Active(subs) THEN [subs[j] EXCEPT !.status = "expired"] ELSE subs[j]]

\* The item's UPDATE, by id and whatever the status is by now.
ExpiredTable(i) == SetStatus(i, "expired")

\* Fault: no transaction, and the process dies after the UPDATE.
SweepReplaceHalf(p) ==
  /\ sweep[p].step = "item"
  /\ subs' = ExpiredTable(sweep[p].item)
  /\ sweep' = [sweep EXCEPT ![p] = NoSweep]
  /\ UNCHANGED <<now, freePlan, orders, pc, loc, budget>>

\* The item's transaction: expire the old subscription, insert the free one.
SweepReplace(p) ==
  LET i == sweep[p].item
  IN  /\ sweep[p].step = "item"
      /\ MayActivate(ExpiredTable(i))
      /\ subs' = Append(ExpiredTable(i), Sub(Free, "", Forever, NoOrder))
      /\ sweep' = [sweep EXCEPT ![p] = NoSweep]
      /\ UNCHANGED <<now, freePlan, orders, pc, loc, budget>>

\* Fault: the job keeps trying the same item instead of collecting anew.
SweepRetriesItem(p) ==
  /\ sweep[p].step = "item"
  /\ ~MayActivate(ExpiredTable(sweep[p].item))
  /\ UNCHANGED vars

\* Another subscription has become active: the INSERT fails, all is undone.
SweepRolledBack(p) ==
  /\ sweep[p].step = "item"
  /\ ~MayActivate(ExpiredTable(sweep[p].item))
  /\ sweep' = [sweep EXCEPT ![p] = NoSweep]
  /\ UNCHANGED <<now, freePlan, subs, orders, pc, loc, budget>>

\* The job finds no free plan ...
SweepNoFree(p) ==
  /\ sweep[p] = NoSweep
  /\ ~freePlan
  /\ \E i \in Active(subs) : Lapsed(i)
  /\ sweep' = [sweep EXCEPT ![p] = NoFallback]
  /\ UNCHANGED <<now, freePlan, subs, orders, pc, loc, budget>>

\* ... and expires what is due in one statement, with nothing to replace it.
SweepExpireAll(p) ==
  /\ sweep[p] = NoFallback
  /\ subs' = [i \in 1..Len(subs) |->
                IF i \in Active(subs) /\ Lapsed(i)
                THEN [subs[i] EXCEPT !.status = "expired"] ELSE subs[i]]
  /\ sweep' = [sweep EXCEPT ![p] = NoSweep]
  /\ UNCHANGED <<now, freePlan, orders, pc, loc, budget>>

----------------------------------------------------------------------------
(* The superadmin.                                                         *)

\* handleCreateSubscription: any plan, any expiry, no currency.
AdminCreate(plan, expires) ==
  /\ Spend("admin")
  /\ MayActivate(subs)
  /\ subs' = Append(subs, Sub(plan, "", expires, NoOrder))
  /\ UNCHANGED <<now, freePlan, orders, pc, loc, sweep>>

\* handleUpdateSubscription: any status, subject to the unique index.
AdminSetStatus(i, status) ==
  /\ Spend("admin")
  /\ status = "active" => MayActivate(SetStatus(i, "revoked"))
  /\ subs' = SetStatus(i, status)
  /\ UNCHANGED <<now, freePlan, orders, pc, loc, sweep>>

\* The free plan is switched on or off.
AdminFreePlan ==
  /\ Spend("admin")
  /\ freePlan' = ~freePlan
  /\ UNCHANGED <<now, subs, orders, pc, loc, sweep>>

Admin ==
  \/ \E plan \in Tiers \cup {Free}, expires \in 0..MaxTime : AdminCreate(plan, expires)
  \/ \E i \in 1..Len(subs), status \in SubStatus : AdminSetStatus(i, status)
  \/ AdminFreePlan

----------------------------------------------------------------------------
Tick ==
  /\ now < MaxTime
  /\ now' = now + 1
  /\ UNCHANGED <<freePlan, subs, orders, pc, loc, sweep, budget>>

\* A handler or a job dies between its steps.
AbortSession(s) ==
  /\ pc[s] # "idle"
  /\ Spend("abort")
  /\ Return(s)
  /\ UNCHANGED <<now, freePlan, subs, orders, sweep>>

AbortSweep(p) ==
  /\ sweep[p] # NoSweep
  /\ Spend("abort")
  /\ sweep' = [sweep EXCEPT ![p] = NoSweep]
  /\ UNCHANGED <<now, freePlan, subs, orders, pc, loc>>

\* Nothing is running: the only state in which the system may stop.
Quiescent ==
  /\ \A s \in Session : pc[s] = "idle"
  /\ \A p \in Pod : sweep[p] = NoSweep
  /\ UNCHANGED vars

\* What a session does once it has begun.
Continue(s) ==
  \/ NoPayingOrder(s) \/ PayingOrderExists(s) \/ CreateOrder(s)
  \/ PaymentCreated(s) \/ PaymentFailed(s)
  \/ DeliverOrder(s) \/ DeliverRolledBack(s)

Sweep(p) ==
  \/ SweepSelect(p) \/ SweepReplace(p) \/ SweepRolledBack(p)
  \/ SweepNoFree(p) \/ SweepExpireAll(p)

Next ==
  \/ \E s \in Session :
       \/ Continue(s)
       \/ AbortSession(s)
       \/ \E o \in Order :
            \/ DeliveryWebhook(s, o)
            \/ \E plan \in Tiers, currency \in Currencies : ReadActive(s, o, plan, currency)
  \/ \E o \in Order : CancelOrder(o) \/ CustomerPays(o)
  \/ \E p \in Pod : Sweep(p) \/ AbortSweep(p)
  \/ Admin
  \/ Tick
  \/ Quiescent

\* A handler that has begun runs on, the ticker of every pod keeps firing, and
\* the payment service repeats the delivery of a paid order.
Fairness ==
  /\ \A s \in Session : WF_vars(Continue(s))
  /\ \A p \in Pod : WF_vars(Sweep(p))
  /\ \A o \in Order : SF_vars(\E s \in Session : DeliveryWebhook(s, o))

Spec     == Init /\ [][Next]_vars
FairSpec == Spec /\ Fairness

----------------------------------------------------------------------------
(* Properties.                                                             *)

SubRow == [plan : Tiers \cup {Free}, currency : Currencies \cup {""}, expires : Nat,
           origin : Order \cup {NoOrder}, status : SubStatus]

OrderRow == [status : OrderStatus, plan : Tiers \cup {Free}, currency : Currencies \cup {""},
             existing : Nat, paid : BOOLEAN]

\* The types of the variables; an order that exists names the subscription it
\* replaces.
TypeOK ==
  /\ now \in 0..MaxTime
  /\ freePlan \in BOOLEAN
  /\ subs \in Seq(SubRow)
  /\ orders \in [Order -> OrderRow]
  /\ \A o \in Order : orders[o].status # "none" => orders[o].existing \in 1..Len(subs)
  /\ pc \in [Session -> Label]
  /\ loc \in [Session -> [order : Order \cup {NoOrder}, plan : Tiers \cup {Free},
                          currency : Currencies \cup {""}, existing : 0..Len(subs)]]
  /\ sweep \in [Pod -> [step : {"idle", "no_free", "item"}, item : 0..Len(subs)]]
  /\ budget \in [{"admin", "abort"} -> Nat]

\* However often and however concurrently the webhook is repeated, a delivered
\* order has bought exactly one subscription and any other order none.
DeliveredOnce ==
  \A o \in Order :
    LET bought == {i \in 1..Len(subs) : subs[i].origin = o}
    IN  IF orders[o].status = "delivered" THEN \E i \in bought : bought = {i} ELSE bought = {}

\* A delivery takes the place of the subscription the order was priced
\* against and of no other: tier and currency lock were checked against that
\* one when the order was created, and nothing that happened since - another
\* delivery, the expiry job, the superadmin - is undone by it.
DeliveryReplaces ==
  [][\A o \in Order :
       orders[o].status # "delivered" /\ orders'[o].status = "delivered" =>
         LET old == subs[orders[o].existing]
             new == subs'[Len(subs')]
         IN  /\ Active(subs) \subseteq {orders[o].existing}
             /\ new.origin = o /\ new.status = "active"
             /\ new.plan >= old.plan
             /\ old.currency # "" => new.currency = old.currency
             /\ new.plan = old.plan => new.expires = old.expires + Term]_vars

\* The expiry job never ends a subscription that has not run out, not even one
\* that was renewed after the job had selected the project.
SweepSparesRenewal ==
  [][\A p \in Pod : Sweep(p) =>
       \A i \in Active(subs) : ~Lapsed(i) => subs'[i].status = "active"]_vars

\* "Every project must have an active subscription (at minimum, free)": once it
\* has one, only the superadmin, or the job without a free plan, leaves it
\* with none.
CoverageKept ==
  [][Active(subs) # {} /\ Active(subs') = {} =>
       Admin \/ \E p \in Pod : SweepExpireAll(p)]_vars

\* Another subscription than the one the order replaces has become active.
Overtaken(o) == \E i \in Active(subs) : i # orders[o].existing

\* A paid order does not wait for ever: it is delivered unless it is cancelled or
\* overtaken.
PaidIsDelivered ==
  \A o \in Order : []<>~(orders[o].paid /\ orders[o].status = "paying" /\ ~Overtaken(o))

\* A subscription that has run out does not stay active.
LapsedIsReplaced == []<>(\A i \in Active(subs) : ~Lapsed(i))

----------------------------------------------------------------------------
(* Why the first three properties hold: the inductive invariant.           *)

\* The row names a subscription that may be replaced at its price.
Priced(row) ==
  /\ row.existing \in 1..Len(subs)
  /\ MayOrder(row.existing, row.plan, row.currency)

\* A handler that creates an order is alone with it until it has a payment:
\* no webhook and no other handler has it in hand.
Creating(s) == pc[s] \in {"paying_check", "insert", "payment"}

Holding(s) ==
  LET o == loc[s].order
  IN  /\ pc[s] = "idle" <=> o = NoOrder
      /\ pc[s] \in {"paying_check", "insert"} => orders[o].status = "none" /\ Priced(loc[s])
      /\ pc[s] = "payment" => orders[o].status \in {"pending", "cancelled"}
      /\ Creating(s) => \A t \in Session \ {s} : loc[t].order # o

\* What the job has in hand had run out when it was collected.
SweepDue(p) == sweep[p].step = "item" => sweep[p].item \in 1..Len(subs) /\ Lapsed(sweep[p].item)

IInv ==
  /\ TypeOK
  /\ \A s \in Session : Holding(s)
  /\ \A o \in Order : orders[o].status # "none" => Priced(orders[o])
  /\ \A p \in Pod : SweepDue(p)
  /\ DeliveredOnce
=============================================================================

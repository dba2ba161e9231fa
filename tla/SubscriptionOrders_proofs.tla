---------------------- MODULE SubscriptionOrders_proofs ----------------------
(***************************************************************************)
(* Theorems about SubscriptionOrders, for any number of sessions, orders   *)
(* and pods, any tiers and any bound on the clock.                         *)
(***************************************************************************)
EXTENDS SubscriptionOrders, TLAPS

----------------------------------------------------------------------------
(* The table of subscriptions: a row is never removed, and only its status *)
(* changes.                                                                *)

\* The table f holds the rows of subs, with whatever status.
SameRows(f) ==
  \A i \in 1..Len(subs) :
    /\ f[i].plan = subs[i].plan /\ f[i].currency = subs[i].currency
    /\ f[i].expires = subs[i].expires /\ f[i].origin = subs[i].origin

\* The new table is the old one, or the old one and one more row.
Kept == subs' \in Seq(SubRow) /\ Len(subs') = Len(subs) /\ SameRows(subs')

Added(row) == /\ subs' \in Seq(SubRow) /\ Len(subs') = Len(subs) + 1
              /\ SameRows(subs') /\ subs'[Len(subs) + 1] = row

\* What a change of one status does, alone and before an INSERT.
LEMMA TableStep ==
  ASSUME TypeOK, NEW i \in 1..Len(subs), NEW st \in SubStatus
  PROVE  /\ SetStatus(i, st) \in Seq(SubRow) /\ Len(SetStatus(i, st)) = Len(subs)
         /\ subs' = SetStatus(i, st) => Kept
         /\ \A row \in SubRow : subs' = Append(SetStatus(i, st), row) => Added(row)
         /\ MayActivate(SetStatus(i, st)) => Active(subs) \subseteq {i}
<1> DEFINE n == Len(subs)
           t == SetStatus(i, st)
<1>0. subs \in Seq(SubRow)
  BY DEF TypeOK
<1>a. n \in Nat /\ subs \in [1..n -> SubRow]
  BY <1>0
<1>b. subs[i] \in SubRow
  BY <1>a
<1>1. [subs[i] EXCEPT !.status = st] \in SubRow
  BY <1>b DEF SubRow
<1>2. t \in [1..n -> SubRow]
  BY <1>a, <1>1 DEF SetStatus
<1>3. t \in Seq(SubRow) /\ Len(t) = n
  BY <1>a, <1>2
<1>4. \A j \in 1..n : j # i => t[j] = subs[j]
  BY <1>a DEF SetStatus
<1>5. t[i] = [subs[i] EXCEPT !.status = st]
  BY <1>a DEF SetStatus
<1>6. SameRows(t)
  <2>1. /\ t[i].plan = subs[i].plan /\ t[i].currency = subs[i].currency
        /\ t[i].expires = subs[i].expires /\ t[i].origin = subs[i].origin
    BY <1>b, <1>5 DEF SubRow
  <2> HIDE DEF t
  <2>2. QED
    BY <1>4, <2>1 DEF SameRows
<1>7. MayActivate(t) => Active(subs) \subseteq {i}
  BY <1>a, <1>3, <1>4 DEF MayActivate, Active
<1> HIDE DEF t
<1>8. ASSUME NEW row \in SubRow, subs' = Append(t, row) PROVE Added(row)
  <2>1. /\ subs' \in Seq(SubRow) /\ Len(subs') = n + 1 /\ subs'[n + 1] = row
        /\ \A j \in 1..n : subs'[j] = t[j]
    BY <1>a, <1>3, <1>8
  <2>2. QED
    BY <1>6, <2>1 DEF Added, SameRows
<1>9. QED
  BY <1>3, <1>6, <1>7, <1>8 DEF Kept, t

\* What such a table keeps true: the prices an order was created at, the
\* subscriptions that have run out, and, if no order bought the new row, the
\* subscriptions each order has bought.
LEMMA RowsCarried ==
  ASSUME TypeOK, Kept \/ \E row \in SubRow : Added(row)
  PROVE  /\ Len(subs) \in Nat /\ Len(subs') \in Nat /\ Len(subs) <= Len(subs')
         /\ \A row : Priced(row) => Priced(row)'
         /\ now' \in Nat /\ now <= now' => \A i \in 1..Len(subs) : Lapsed(i) => Lapsed(i)'
         /\ \A o \in Order :
              subs'[Len(subs')].origin # o \/ Len(subs') = Len(subs) =>
                {i \in 1..Len(subs') : subs'[i].origin = o} = {i \in 1..Len(subs) : subs[i].origin = o}
<1>0. subs \in Seq(SubRow) /\ now \in 0..MaxTime
  BY DEF TypeOK
<1>1. /\ Len(subs) \in Nat /\ Len(subs') \in Nat /\ Len(subs') \in {Len(subs), Len(subs) + 1}
      /\ SameRows(subs')
  BY <1>0 DEF Kept, Added
<1>2. ASSUME NEW row, Priced(row) PROVE Priced(row)'
  <2> DEFINE i == row.existing
  <2>1. i \in 1..Len(subs) /\ row.plan >= subs[i].plan /\ subs[i].currency \in {"", row.currency}
    BY <1>2 DEF Priced, MayOrder
  <2>2. subs'[i].plan = subs[i].plan /\ subs'[i].currency = subs[i].currency
    BY <1>1, <2>1 DEF SameRows
  <2> HIDE DEF i
  <2>a. Len(subs) \in Nat /\ Len(subs') \in Nat /\ Len(subs) <= Len(subs')
    BY <1>1
  <2>b. i \in 1..Len(subs)
    BY <2>1
  <2>3. i \in 1..Len(subs')
    BY <2>a, <2>b
  <2>4. row.plan >= subs'[i].plan /\ subs'[i].currency \in {"", row.currency}
    BY <2>1, <2>2
  <2>5. QED
    BY <2>3, <2>4 DEF i, Priced, MayOrder
<1>3. ASSUME now' \in Nat, now <= now', NEW i \in 1..Len(subs), Lapsed(i) PROVE Lapsed(i)'
  <2>1. subs[i] \in SubRow
    BY <1>0, <1>3
  <2>a. now \in Nat
    BY <1>0, TermAssumption
  <2>2. subs[i].expires \in Nat
    BY <2>1 DEF SubRow
  <2>3. QED
    BY <1>1, <1>3, <2>a, <2>2 DEF Lapsed, SameRows
<1>4. ASSUME NEW o \in Order, subs'[Len(subs')].origin # o \/ Len(subs') = Len(subs)
      PROVE  {i \in 1..Len(subs') : subs'[i].origin = o} = {i \in 1..Len(subs) : subs[i].origin = o}
  BY <1>1, <1>4 DEF SameRows
<1>5. QED
  BY <1>1, <1>2, <1>3, <1>4

----------------------------------------------------------------------------
(* What any step does, in terms of the table it found.                     *)

LocalRow == [order : Order \cup {NoOrder}, plan : Tiers \cup {Free},
             currency : Currencies \cup {""}, existing : 0..Len(subs)]

SweepRow == [step : {"idle", "no_free", "item"}, item : 0..Len(subs)]

Typed ==
  /\ now' \in 0..MaxTime /\ now <= now'
  /\ freePlan' \in BOOLEAN /\ budget' \in [{"admin", "abort"} -> Nat]
  /\ Kept \/ \E row \in SubRow : Added(row)

OrdersOK == /\ orders' \in [Order -> OrderRow]
            /\ \A o \in Order : orders'[o].status # "none" => Priced(orders'[o])

SessionsOK == /\ pc' \in [Session -> Label] /\ loc' \in [Session -> LocalRow]
              /\ \A s \in Session : pc'[s] \in {"paying_check", "insert"} => Priced(loc'[s])

SweepsOK ==
  /\ sweep' \in [Pod -> SweepRow]
  /\ \A p \in Pod : sweep'[p].step = "item" =>
       sweep'[p].item \in 1..Len(subs) /\ Lapsed(sweep'[p].item)

\* Every step keeps the types, moves no price and collects only what has run
\* out.
LEMMA EffectStep ==
  ASSUME IInv, [Next]_vars
  PROVE  Typed /\ OrdersOK /\ SessionsOK /\ SweepsOK
<1>a. /\ now \in 0..MaxTime /\ freePlan \in BOOLEAN /\ budget \in [{"admin", "abort"} -> Nat]
      /\ subs \in Seq(SubRow)
  BY DEF IInv, TypeOK
<1>b. orders \in [Order -> OrderRow] /\ \A o \in Order : orders[o].status # "none" => Priced(orders[o])
  BY DEF IInv, TypeOK
<1>c. pc \in [Session -> Label] /\ loc \in [Session -> LocalRow]
  BY DEF IInv, TypeOK, LocalRow
<1>d. \A s \in Session : Holding(s)
  BY DEF IInv
<1>e. sweep \in [Pod -> SweepRow]
  BY DEF IInv, TypeOK, SweepRow
<1>f. \A p \in Pod : SweepDue(p)
  BY DEF IInv
<1>g. Len(subs) \in Nat /\ now \in Nat
  BY <1>a, TermAssumption
<1>1. ASSUME UNCHANGED <<now, freePlan, budget>>, Kept \/ \E row \in SubRow : Added(row) PROVE Typed
  BY <1>1, <1>a, <1>g DEF Typed
<1>2. subs' = subs => Kept
  BY <1>a DEF Kept, SameRows
<1>3. orders' = orders => OrdersOK
  BY <1>b DEF OrdersOK
<1>4. pc' = pc /\ loc' = loc => SessionsOK
  BY <1>c, <1>d DEF SessionsOK, Holding
<1>5. sweep' = sweep => SweepsOK
  BY <1>e, <1>f DEF SweepsOK, SweepDue
<1>6. ASSUME NEW o \in Order, NEW st \in OrderStatus, orders[o].status # "none", SetOrderStatus(o, st)
      PROVE  OrdersOK
  <2>1. /\ orders' \in [Order -> OrderRow]
        /\ \A q \in Order : /\ orders'[q].plan = orders[q].plan
                            /\ orders'[q].currency = orders[q].currency
                            /\ orders'[q].existing = orders[q].existing
                            /\ q # o => orders'[q].status = orders[q].status
    BY <1>b, <1>6 DEF SetOrderStatus, OrderRow
  <2>2. QED
    BY <1>b, <1>6, <2>1 DEF OrdersOK, Priced, MayOrder
<1>7. ASSUME NEW s \in Session, Return(s) PROVE SessionsOK
  <2>1. NoLocals \in LocalRow
    BY <1>g DEF NoLocals, LocalRow
  <2>2. pc' \in [Session -> Label] /\ loc' \in [Session -> LocalRow]
    BY <1>7, <1>c, <2>1 DEF Return, Goto, Label
  <2>3. pc'[s] = "idle" /\ \A t \in Session \ {s} : pc'[t] = pc[t] /\ loc'[t] = loc[t]
    BY <1>7, <1>c DEF Return, Goto
  <2>4. QED
    BY <1>d, <2>2, <2>3 DEF SessionsOK, Holding
<1>8. ASSUME NEW s \in Session, NEW l \in Label, Goto(s, l), loc' = loc,
             l \in {"paying_check", "insert"} => pc[s] \in {"paying_check", "insert"}
      PROVE  SessionsOK
  <2>1. pc' \in [Session -> Label] /\ pc'[s] = l /\ \A t \in Session \ {s} : pc'[t] = pc[t]
    BY <1>8, <1>c DEF Goto
  <2>2. QED
    BY <1>8, <1>c, <1>d, <2>1 DEF SessionsOK, Holding
<1>9. ASSUME NEW p \in Pod, NEW w \in {NoSweep, NoFallback}, sweep' = [sweep EXCEPT ![p] = w]
      PROVE  SweepsOK
  <2>1. w \in SweepRow /\ w.step # "item"
    BY <1>g DEF NoSweep, NoFallback, SweepRow
  <2>2. sweep' \in [Pod -> SweepRow] /\ sweep'[p] = w /\ \A q \in Pod \ {p} : sweep'[q] = sweep[q]
    BY <1>9, <1>e, <2>1
  <2>3. QED
    BY <1>f, <2>1, <2>2 DEF SweepsOK, SweepDue
<1>10. ASSUME NEW kind \in {"admin", "abort"}, Spend(kind) PROVE budget' \in [{"admin", "abort"} -> Nat]
  <2>1. budget[kind] \in Nat /\ budget[kind] > 0
    BY <1>10, <1>a DEF Spend
  <2>2. budget[kind] - 1 \in Nat
    BY <2>1
  <2>3. QED
    BY <1>10, <1>a, <2>2 DEF Spend
<1>11. ASSUME NEW kind \in {"admin", "abort"}, Spend(kind), UNCHANGED now, freePlan' \in BOOLEAN,
              Kept \/ \E row \in SubRow : Added(row)
       PROVE  Typed
  BY <1>10, <1>11, <1>a, <1>g DEF Typed
<1>12. ASSUME NEW s \in Session, Continue(s) PROVE Typed /\ OrdersOK /\ SessionsOK /\ SweepsOK
  <2> DEFINE o == loc[s].order
  <2>a. loc[s] \in LocalRow /\ pc[s] \in Label
    BY <1>c
  <2>b. pc[s] # "idle" => o \in Order
    BY <1>d, <2>a DEF Holding, LocalRow
  <2>1. CASE NoPayingOrder(s)
    BY <1>1, <1>2, <1>3, <1>5, <1>8, <2>1 DEF NoPayingOrder, Label
  <2>2. CASE PayingOrderExists(s)
    BY <1>1, <1>2, <1>3, <1>5, <1>7, <2>2 DEF PayingOrderExists
  <2>3. CASE CreateOrder(s)
    <3> DEFINE row == [status |-> "pending", plan |-> loc[s].plan, currency |-> loc[s].currency,
                       existing |-> loc[s].existing, paid |-> FALSE]
    <3>0. loc[s].existing \in 0..Len(subs)
      BY <2>a DEF LocalRow
    <3>a. loc[s].existing \in Nat
      BY <1>g, <3>0
    <3>1. row \in OrderRow
      BY <2>a, <3>a DEF OrderRow, OrderStatus, LocalRow
    <3>2. Priced(row)
      BY <1>d, <2>3 DEF CreateOrder, Holding, Priced, MayOrder
    <3> HIDE DEF row
    <3>3. orders' = [orders EXCEPT ![o] = row] /\ o \in Order
      BY <2>b, <2>3 DEF CreateOrder, row
    <3>4. OrdersOK
      BY <1>b, <3>1, <3>2, <3>3 DEF OrdersOK
    <3>5. QED
      BY <1>1, <1>2, <1>5, <1>8, <2>3, <3>4 DEF CreateOrder, Label
  <2>4. CASE PaymentCreated(s) \/ PaymentFailed(s)
    <3>1. o \in Order /\ orders[o].status # "none"
      BY <1>d, <2>b, <2>4 DEF PaymentCreated, PaymentFailed, Holding
    <3>2. OrdersOK
      BY <1>6, <2>4, <3>1 DEF PaymentCreated, PaymentFailed, OrderStatus
    <3>3. QED
      BY <1>1, <1>2, <1>5, <1>7, <2>4, <3>2 DEF PaymentCreated, PaymentFailed
  <2>5. CASE DeliverOrder(s)
    <3> DEFINE row == Sub(orders[o].plan, orders[o].currency, NewExpiry(o), o)
    <3>1. o \in Order /\ orders[o].status # "none" /\ orders[o] \in OrderRow
      BY <1>b, <2>b, <2>5 DEF DeliverOrder, Deliverable
    <3>2. orders[o].existing \in 1..Len(subs)
      BY <1>b, <3>1 DEF Priced
    <3>3. subs[orders[o].existing] \in SubRow
      BY <1>a, <3>2
    <3>4. subs[orders[o].existing].expires \in Nat
      BY <3>3 DEF SubRow
    <3>5. NewExpiry(o) \in Nat
      BY <1>g, <3>4, TermAssumption, SMTT(30) DEF NewExpiry
    <3>6. row \in SubRow
      BY <3>1, <3>5 DEF Sub, SubRow, OrderRow, SubStatus
    <3>7. Added(row)
      BY <2>5, <3>2, <3>6, TableStep DEF DeliverOrder, RevokedTable, IInv, SubStatus
    <3> HIDE DEF row
    <3>8. OrdersOK
      BY <1>6, <2>5, <3>1 DEF DeliverOrder, OrderStatus
    <3>9. QED
      BY <1>1, <1>5, <1>7, <2>5, <3>6, <3>7, <3>8 DEF DeliverOrder
  <2>6. CASE DeliverRolledBack(s)
    BY <1>1, <1>2, <1>3, <1>5, <1>7, <2>6 DEF DeliverRolledBack
  <2>7. QED
    BY <1>12, <2>1, <2>2, <2>3, <2>4, <2>5, <2>6 DEF Continue
<1>13. ASSUME NEW s \in Session, AbortSession(s) PROVE Typed /\ OrdersOK /\ SessionsOK /\ SweepsOK
  BY <1>11, <1>2, <1>3, <1>5, <1>7, <1>13, <1>a DEF AbortSession
<1>14. ASSUME NEW s \in Session, NEW o \in Order, DeliveryWebhook(s, o)
       PROVE  Typed /\ OrdersOK /\ SessionsOK /\ SweepsOK
  <2>1. loc' \in [Session -> LocalRow]
    BY <1>14, <1>c DEF DeliveryWebhook, LocalRow
  <2>2. /\ pc' \in [Session -> Label] /\ pc'[s] = "deliver"
        /\ \A t \in Session \ {s} : pc'[t] = pc[t] /\ loc'[t] = loc[t]
    BY <1>14, <1>c DEF DeliveryWebhook, Goto, Label
  <2>3. SessionsOK
    BY <1>d, <2>1, <2>2 DEF SessionsOK, Holding
  <2>4. QED
    BY <1>1, <1>2, <1>3, <1>5, <1>14, <2>3 DEF DeliveryWebhook
<1>15. ASSUME NEW s \in Session, NEW o \in Order, NEW plan \in Tiers, NEW currency \in Currencies,
              ReadActive(s, o, plan, currency)
       PROVE  Typed /\ OrdersOK /\ SessionsOK /\ SweepsOK
  <2>1. PICK i \in Current :
          /\ MayOrder(i, plan, currency)
          /\ loc' = [loc EXCEPT ![s] = [order |-> o, plan |-> plan,
                                        currency |-> currency, existing |-> i]]
    BY <1>15 DEF ReadActive
  <2> DEFINE row == [order |-> o, plan |-> plan, currency |-> currency, existing |-> i]
  <2>2. i \in 1..Len(subs)
    BY DEF Current, Active
  <2>a. Priced(row)
    BY <2>1, <2>2 DEF Priced
  <2>b. i \in 0..Len(subs)
    BY <1>g, <2>2
  <2>3. row \in LocalRow
    BY <2>b DEF LocalRow
  <2> HIDE DEF row
  <2>4. loc' = [loc EXCEPT ![s] = row]
    BY <2>1 DEF row
  <2>5. /\ loc' \in [Session -> LocalRow] /\ pc' \in [Session -> Label] /\ loc'[s] = row
        /\ \A t \in Session \ {s} : pc'[t] = pc[t] /\ loc'[t] = loc[t]
    BY <1>15, <1>c, <2>3, <2>4 DEF ReadActive, Goto, Label
  <2>6. SessionsOK
    BY <1>d, <2>a, <2>5 DEF SessionsOK, Holding
  <2>7. QED
    BY <1>1, <1>2, <1>3, <1>5, <1>15, <2>6 DEF ReadActive
<1>16. ASSUME NEW o \in Order, CancelOrder(o) \/ CustomerPays(o)
       PROVE  Typed /\ OrdersOK /\ SessionsOK /\ SweepsOK
  <2>1. CASE CancelOrder(o)
    BY <1>1, <1>2, <1>4, <1>5, <1>6, <2>1 DEF CancelOrder, OrderStatus
  <2>2. CASE CustomerPays(o)
    <3>1. /\ orders' \in [Order -> OrderRow]
          /\ \A q \in Order : /\ orders'[q].plan = orders[q].plan
                              /\ orders'[q].currency = orders[q].currency
                              /\ orders'[q].existing = orders[q].existing
                              /\ orders'[q].status = orders[q].status
      BY <1>b, <2>2 DEF CustomerPays, OrderRow
    <3>2. OrdersOK
      BY <1>b, <3>1 DEF OrdersOK, Priced, MayOrder
    <3>3. QED
      BY <1>1, <1>2, <1>4, <1>5, <2>2, <3>2 DEF CustomerPays
  <2>3. QED
    BY <1>16, <2>1, <2>2
<1>17. ASSUME NEW p \in Pod, Sweep(p) \/ AbortSweep(p) PROVE Typed /\ OrdersOK /\ SessionsOK /\ SweepsOK
  <2>a. ASSUME sweep[p].step = "item" PROVE sweep[p].item \in 1..Len(subs)
    BY <1>f, <2>a DEF SweepDue
  <2>1. CASE SweepSelect(p)
    <3>1. PICK i \in Active(subs) : Lapsed(i) /\ sweep' = [sweep EXCEPT ![p] = SweepItem(i)]
      BY <2>1 DEF SweepSelect
    <3>2. i \in 1..Len(subs)
      BY DEF Active
    <3>3. SweepItem(i) \in SweepRow /\ SweepItem(i).item = i
      BY <1>g, <3>2 DEF SweepItem, SweepRow
    <3>4. /\ sweep' \in [Pod -> SweepRow] /\ sweep'[p] = SweepItem(i)
          /\ \A q \in Pod \ {p} : sweep'[q] = sweep[q]
      BY <1>e, <3>1, <3>3
    <3>5. SweepsOK
      BY <1>f, <3>1, <3>2, <3>3, <3>4 DEF SweepsOK, SweepDue
    <3>6. QED
      BY <1>1, <1>2, <1>3, <1>4, <2>1, <3>5 DEF SweepSelect
  <2>2. CASE SweepReplace(p)
    <3> DEFINE row == Sub(Free, "", Forever, NoOrder)
    <3>1. row \in SubRow
      BY TermAssumption DEF Sub, SubRow, SubStatus, Forever
    <3>2. Added(row)
      BY <2>2, <2>a, <3>1, TableStep DEF SweepReplace, ExpiredTable, IInv, SubStatus
    <3> HIDE DEF row
    <3>3. QED
      BY <1>1, <1>3, <1>4, <1>9, <2>2, <3>1, <3>2 DEF SweepReplace
  <2>3. CASE SweepRolledBack(p)
    BY <1>1, <1>2, <1>3, <1>4, <1>9, <2>3 DEF SweepRolledBack
  <2>4. CASE SweepNoFree(p)
    BY <1>1, <1>2, <1>3, <1>4, <1>9, <2>4 DEF SweepNoFree
  <2>5. CASE SweepExpireAll(p)
    <3> DEFINE row(i) == IF i \in Active(subs) /\ Lapsed(i)
                         THEN [subs[i] EXCEPT !.status = "expired"] ELSE subs[i]
    <3>1. subs' = [i \in 1..Len(subs) |-> row(i)]
      BY <2>5 DEF SweepExpireAll
    <3>2. ASSUME NEW i \in 1..Len(subs)
          PROVE  /\ row(i) \in SubRow
                 /\ row(i).plan = subs[i].plan /\ row(i).currency = subs[i].currency
                 /\ row(i).expires = subs[i].expires /\ row(i).origin = subs[i].origin
      <4>1. subs[i] \in SubRow
        BY <1>a
      <4>2. QED
        BY <4>1 DEF SubRow, SubStatus
    <3> HIDE DEF row
    <3>3. subs' \in [1..Len(subs) -> SubRow]
      BY <3>1, <3>2
    <3>4. subs' \in Seq(SubRow) /\ Len(subs') = Len(subs)
      BY <1>g, <3>3
    <3>5. Kept
      BY <3>1, <3>2, <3>4 DEF Kept, SameRows
    <3>6. QED
      BY <1>1, <1>3, <1>4, <1>9, <2>5, <3>5 DEF SweepExpireAll
  <2>6. CASE AbortSweep(p)
    BY <1>11, <1>2, <1>3, <1>4, <1>9, <2>6, <1>a DEF AbortSweep
  <2>7. QED
    BY <1>17, <2>1, <2>2, <2>3, <2>4, <2>5, <2>6 DEF Sweep
<1>18. ASSUME Admin PROVE Typed /\ OrdersOK /\ SessionsOK /\ SweepsOK
  <2>1. CASE \E plan \in Tiers \cup {Free}, expires \in 0..MaxTime : AdminCreate(plan, expires)
    <3>1. PICK plan \in Tiers \cup {Free}, expires \in 0..MaxTime : AdminCreate(plan, expires)
      BY <2>1
    <3> DEFINE row == Sub(plan, "", expires, NoOrder)
    <3>2. row \in SubRow
      BY DEF Sub, SubRow, SubStatus
    <3>3. subs' = Append(subs, row)
      BY <3>1 DEF AdminCreate
    <3> HIDE DEF row
    <3>4. /\ subs' \in Seq(SubRow) /\ Len(subs') = Len(subs) + 1 /\ subs'[Len(subs) + 1] = row
          /\ \A i \in 1..Len(subs) : subs'[i] = subs[i]
      BY <1>a, <3>2, <3>3
    <3>5. Added(row)
      BY <3>4 DEF Added, SameRows
    <3>6. QED
      BY <1>11, <1>3, <1>4, <1>5, <1>a, <3>1, <3>2, <3>5 DEF AdminCreate
  <2>2. CASE \E i \in 1..Len(subs), status \in SubStatus : AdminSetStatus(i, status)
    <3>1. PICK i \in 1..Len(subs), status \in SubStatus : AdminSetStatus(i, status)
      BY <2>2
    <3>2. Kept
      BY <3>1, TableStep DEF AdminSetStatus, IInv
    <3>3. QED
      BY <1>11, <1>3, <1>4, <1>5, <1>a, <3>1, <3>2 DEF AdminSetStatus
  <2>3. CASE AdminFreePlan
    BY <1>11, <1>2, <1>3, <1>4, <1>5, <1>a, <2>3 DEF AdminFreePlan
  <2>4. QED
    BY <1>18, <2>1, <2>2, <2>3 DEF Admin
<1>19. CASE Tick
  <2>1. Typed
    BY <1>19, <1>2, <1>a, <1>g, TermAssumption DEF Tick, Typed
  <2>2. QED
    BY <1>3, <1>4, <1>5, <1>19, <2>1 DEF Tick
<1>20. CASE UNCHANGED vars
  BY <1>1, <1>2, <1>3, <1>4, <1>5, <1>20 DEF vars
<1>21. QED
  BY <1>12, <1>13, <1>14, <1>15, <1>16, <1>17, <1>18, <1>19, <1>20 DEF Next, Quiescent

----------------------------------------------------------------------------
(* The inductive invariant.                                                *)

\* What Holding says of the orders, and not of prices.
Alone(s) ==
  LET o == loc[s].order
  IN  /\ pc[s] = "idle" <=> o = NoOrder
      /\ pc[s] \in {"paying_check", "insert"} => orders[o].status = "none"
      /\ pc[s] = "payment" => orders[o].status \in {"pending", "cancelled"}
      /\ Creating(s) => \A t \in Session \ {s} : loc[t].order # o

\* An order has bought a subscription only by being delivered.
DeliveredKept == \A o \in Order : orders'[o].status = "delivered" <=> orders[o].status = "delivered"
Unbought == Len(subs') = Len(subs) \/ subs'[Len(subs')].origin = NoOrder

\* A handler that is creating an order stays alone with it, and no step but a
\* delivery buys a subscription.
LEMMA OnceStep ==
  ASSUME IInv, [Next]_vars, Typed
  PROVE  (\A s \in Session : Alone(s)') /\ DeliveredOnce'
<1>a. subs \in Seq(SubRow) /\ orders \in [Order -> OrderRow]
  BY DEF IInv, TypeOK
<1>b. pc \in [Session -> Label] /\ loc \in [Session -> LocalRow]
  BY DEF IInv, TypeOK, LocalRow
<1>c. \A s \in Session : Alone(s)
  BY DEF IInv, Holding, Alone
<1>d. DeliveredOnce
  BY DEF IInv
<1>e. \A s \in Session : pc[s] # "idle" => loc[s].order \in Order
  BY <1>b, <1>c DEF Alone, LocalRow
<1>f. \A o \in Order : subs'[Len(subs')].origin # o \/ Len(subs') = Len(subs) =>
        {i \in 1..Len(subs') : subs'[i].origin = o} = {i \in 1..Len(subs) : subs[i].origin = o}
  BY RowsCarried DEF IInv, Typed
<1>1. ASSUME DeliveredKept, Unbought PROVE DeliveredOnce'
  BY <1>1, <1>d, <1>f, OrderAssumption DEF DeliveredKept, Unbought, DeliveredOnce
<1>2. ASSUME UNCHANGED <<pc, loc>>,
             \A o \in Order : \/ orders'[o].status = orders[o].status
                              \/ orders[o].status \in {"pending", "paying"} /\ orders'[o].status = "cancelled"
      PROVE  (\A s \in Session : Alone(s)') /\ DeliveredKept
  BY <1>2, <1>c, <1>e DEF Alone, Creating, DeliveredKept
<1>3. ASSUME NEW s \in Session, Return(s),
             \A t \in Session \ {s} : Creating(t) =>
               orders'[loc[t].order].status = orders[loc[t].order].status
      PROVE  \A t \in Session : Alone(t)'
  <2>1. /\ pc'[s] = "idle" /\ loc'[s].order = NoOrder
        /\ \A t \in Session \ {s} : pc'[t] = pc[t] /\ loc'[t] = loc[t]
    BY <1>3, <1>b DEF Return, Goto, NoLocals
  <2>2. QED
    BY <1>3, <1>c, <2>1 DEF Alone, Creating
<1>4. ASSUME NEW s \in Session, NEW l \in Label, Goto(s, l), loc' = loc,
             l # "idle", pc[s] # "idle", l \in {"paying_check", "insert", "payment"} => Creating(s),
             l \in {"paying_check", "insert"} => orders'[loc[s].order].status = "none",
             l = "payment" => orders'[loc[s].order].status \in {"pending", "cancelled"},
             \A t \in Session \ {s} : Creating(t) =>
               orders'[loc[t].order].status = orders[loc[t].order].status
      PROVE  \A t \in Session : Alone(t)'
  <2>1. pc'[s] = l /\ \A t \in Session \ {s} : pc'[t] = pc[t]
    BY <1>4, <1>b DEF Goto
  <2>2. QED
    BY <1>4, <1>c, <2>1 DEF Alone, Creating
<1>5. orders' = orders => DeliveredKept
  BY DEF DeliveredKept
<1>6. subs' = subs => Unbought
  BY DEF Unbought
<1>7. ASSUME NEW o \in Order, NEW st, SetOrderStatus(o, st)
      PROVE  orders'[o].status = st /\ \A q \in Order \ {o} : orders'[q] = orders[q]
  <2>1. orders[o] \in OrderRow
    BY <1>a
  <2>2. orders'[o] = [orders[o] EXCEPT !.status = st] /\ \A q \in Order \ {o} : orders'[q] = orders[q]
    BY <1>a, <1>7 DEF SetOrderStatus
  <2>3. QED
    BY <2>1, <2>2 DEF OrderRow
<1>8. ASSUME NEW s \in Session, Continue(s) PROVE (\A t \in Session : Alone(t)') /\ DeliveredOnce'
  <2> DEFINE o == loc[s].order
  <2>1. CASE NoPayingOrder(s)
    BY <1>1, <1>4, <1>5, <1>6, <1>c, <2>1 DEF NoPayingOrder, Label, Alone, Creating
  <2>2. CASE PayingOrderExists(s) \/ DeliverRolledBack(s)
    BY <1>1, <1>3, <1>5, <1>6, <2>2 DEF PayingOrderExists, DeliverRolledBack
  <2>3. CASE CreateOrder(s)
    <3>1. o \in Order /\ orders[o].status = "none"
      BY <1>c, <1>e, <2>3 DEF CreateOrder, Alone
    <3>2. orders'[o].status = "pending" /\ \A q \in Order \ {o} : orders'[q] = orders[q]
      BY <1>a, <2>3, <3>1 DEF CreateOrder
    <3>3. \A t \in Session \ {s} : Creating(t) => loc[t].order \in Order /\ loc[t].order # o
      BY <1>c, <1>e, <2>3 DEF CreateOrder, Alone, Creating
    <3>4. DeliveredKept
      BY <3>1, <3>2 DEF DeliveredKept
    <3>5. \A t \in Session : Alone(t)'
      BY <1>4, <2>3, <3>2, <3>3 DEF CreateOrder, Label, Creating
    <3>6. QED
      BY <1>1, <1>6, <2>3, <3>4, <3>5 DEF CreateOrder
  <2>4. CASE PaymentCreated(s) \/ PaymentFailed(s)
    <3>1. o \in Order /\ orders[o].status \in {"pending", "cancelled"}
      BY <1>c, <1>e, <2>4 DEF PaymentCreated, PaymentFailed, Alone
    <3>2. orders'[o].status \in {"paying", "failed"} /\ \A q \in Order \ {o} : orders'[q] = orders[q]
      BY <1>7, <2>4, <3>1 DEF PaymentCreated, PaymentFailed
    <3>3. \A t \in Session \ {s} : Creating(t) => loc[t].order \in Order /\ loc[t].order # o
      BY <1>c, <1>e, <2>4 DEF PaymentCreated, PaymentFailed, Alone, Creating
    <3>4. DeliveredKept
      BY <3>1, <3>2 DEF DeliveredKept
    <3>5. \A t \in Session : Alone(t)'
      BY <1>3, <2>4, <3>2, <3>3 DEF PaymentCreated, PaymentFailed
    <3>6. QED
      BY <1>1, <1>6, <2>4, <3>4, <3>5 DEF PaymentCreated, PaymentFailed
  <2>5. CASE DeliverOrder(s)
    <3>1. o \in Order /\ orders[o].status = "paying"
      BY <1>e, <2>5 DEF DeliverOrder, Deliverable
    <3>2. orders'[o].status = "delivered" /\ \A q \in Order \ {o} : orders'[q] = orders[q]
      BY <1>7, <2>5, <3>1 DEF DeliverOrder
    <3>3. \A t \in Session \ {s} : Creating(t) => loc[t].order \in Order /\ loc[t].order # o
      BY <1>c, <1>e, <3>1 DEF Alone, Creating
    <3>4. \A t \in Session : Alone(t)'
      BY <1>3, <2>5, <3>2, <3>3 DEF DeliverOrder
    <3>5. Len(subs') = Len(subs) + 1 /\ subs'[Len(subs')].origin = o
      <4>1. orders[o].existing \in 1..Len(subs)
        BY <3>1 DEF IInv, Priced
      <4> DEFINE t == SetStatus(orders[o].existing, "revoked")
                 row == Sub(orders[o].plan, orders[o].currency, NewExpiry(o), o)
      <4>2. t \in Seq(SubRow) /\ Len(t) = Len(subs)
        BY <4>1, TableStep DEF IInv, SubStatus
      <4>3. subs' = Append(t, row) /\ row.origin = o
        BY <2>5 DEF DeliverOrder, RevokedTable, Sub
      <4> HIDE DEF t, row
      <4>4. Len(subs') = Len(subs) + 1 /\ subs'[Len(subs) + 1] = row
        BY <1>a, <4>2, <4>3
      <4>5. QED
        BY <1>a, <4>3, <4>4
    <3>6. DeliveredOnce'
      <4>1. SameRows(subs')
        BY DEF Typed, Kept, Added
      <4>2. Len(subs) \in Nat
        BY <1>a
      <4>3. {i \in 1..Len(subs') : subs'[i].origin = o} = {Len(subs')}
        <5>1. {i \in 1..Len(subs) : subs[i].origin = o} = {}
          BY <1>d, <3>1 DEF DeliveredOnce
        <5>2. QED
          BY <3>5, <4>1, <4>2, <5>1 DEF SameRows
      <4>4. ASSUME NEW q \in Order \ {o}
            PROVE  /\ {i \in 1..Len(subs') : subs'[i].origin = q} = {i \in 1..Len(subs) : subs[i].origin = q}
                   /\ orders'[q].status = orders[q].status
        BY <1>f, <3>2, <3>5
      <4>5. QED
        BY <1>d, <3>2, <3>5, <4>2, <4>3, <4>4 DEF DeliveredOnce
    <3>7. QED
      BY <3>4, <3>6
  <2>6. QED
    BY <1>8, <2>1, <2>2, <2>3, <2>4, <2>5 DEF Continue
<1>9. ASSUME NEW s \in Session, AbortSession(s) PROVE (\A t \in Session : Alone(t)') /\ DeliveredOnce'
  BY <1>1, <1>3, <1>5, <1>6, <1>9 DEF AbortSession
<1>10. ASSUME NEW s \in Session, NEW o \in Order, DeliveryWebhook(s, o)
       PROVE  (\A t \in Session : Alone(t)') /\ DeliveredOnce'
  <2>1. /\ pc'[s] = "deliver" /\ loc'[s].order = o
        /\ \A t \in Session \ {s} : pc'[t] = pc[t] /\ loc'[t] = loc[t]
    <3>1. loc[s] \in LocalRow
      BY <1>b
    <3>2. loc'[s] = [loc[s] EXCEPT !.order = o] /\ \A t \in Session \ {s} : loc'[t] = loc[t]
      BY <1>10, <1>b DEF DeliveryWebhook
    <3>3. QED
      BY <1>10, <1>b, <3>1, <3>2 DEF DeliveryWebhook, Goto, LocalRow
  <2>2. orders' = orders /\ orders[o].status = "paying"
    BY <1>10 DEF DeliveryWebhook
  <2>3. \A t \in Session \ {s} : Creating(t) => loc[t].order # o
    BY <1>c, <2>2 DEF Alone, Creating
  <2>4. \A t \in Session : Alone(t)'
    BY <1>c, <2>1, <2>2, <2>3, OrderAssumption DEF Alone, Creating
  <2>5. QED
    BY <1>1, <1>5, <1>6, <1>10, <2>4 DEF DeliveryWebhook
<1>11. ASSUME NEW s \in Session, NEW o \in Order, NEW plan \in Tiers, NEW currency \in Currencies,
              ReadActive(s, o, plan, currency)
       PROVE  (\A t \in Session : Alone(t)') /\ DeliveredOnce'
  <2>1. /\ pc'[s] = "paying_check" /\ loc'[s].order = o
        /\ \A t \in Session \ {s} : pc'[t] = pc[t] /\ loc'[t] = loc[t]
    BY <1>11, <1>b DEF ReadActive, Goto
  <2>2. orders' = orders /\ orders[o].status = "none" /\ \A t \in Session : loc[t].order # o
    BY <1>11 DEF ReadActive
  <2>3. \A t \in Session : Alone(t)'
    BY <1>c, <2>1, <2>2, OrderAssumption DEF Alone, Creating
  <2>4. QED
    BY <1>1, <1>5, <1>6, <1>11, <2>3 DEF ReadActive
<1>12. ASSUME NEW o \in Order, CancelOrder(o) \/ CustomerPays(o)
       PROVE  (\A t \in Session : Alone(t)') /\ DeliveredOnce'
  <2>1. CASE CancelOrder(o)
    BY <1>1, <1>2, <1>6, <1>7, <2>1 DEF CancelOrder
  <2>2. CASE CustomerPays(o)
    <3>1. \A q \in Order : orders'[q].status = orders[q].status
      BY <1>a, <2>2 DEF CustomerPays, OrderRow
    <3>2. QED
      BY <1>1, <1>2, <1>6, <2>2, <3>1 DEF CustomerPays
  <2>3. QED
    BY <1>12, <2>1, <2>2
\* What the job, the superadmin and the clock do to no order.
<1>13. ASSUME UNCHANGED <<pc, loc, orders>>, Unbought
       PROVE  (\A t \in Session : Alone(t)') /\ DeliveredOnce'
  BY <1>1, <1>2, <1>13
<1>14. ASSUME NEW row, Added(row), row.origin = NoOrder PROVE Unbought
  BY <1>a, <1>14 DEF Added, Unbought
<1>15. ASSUME NEW p \in Pod, Sweep(p) \/ AbortSweep(p)
       PROVE  (\A t \in Session : Alone(t)') /\ DeliveredOnce'
  <2>1. CASE SweepReplace(p)
    <3> DEFINE row == Sub(Free, "", Forever, NoOrder)
    <3>1. row \in SubRow /\ row.origin = NoOrder
      BY TermAssumption DEF Sub, SubRow, SubStatus, Forever
    <3>2. Added(row)
      BY <2>1, <3>1, TableStep DEF SweepReplace, ExpiredTable, IInv, SweepDue, SubStatus
    <3> HIDE DEF row
    <3>3. QED
      BY <1>13, <1>14, <2>1, <3>1, <3>2 DEF SweepReplace
  <2>2. CASE SweepExpireAll(p)
    <3>1. Len(subs') = Len(subs)
      BY <1>a, <2>2 DEF SweepExpireAll
    <3>2. QED
      BY <1>13, <2>2, <3>1 DEF SweepExpireAll, Unbought
  <2>3. CASE SweepSelect(p) \/ SweepRolledBack(p) \/ SweepNoFree(p) \/ AbortSweep(p)
    BY <1>6, <1>13, <2>3 DEF SweepSelect, SweepRolledBack, SweepNoFree, AbortSweep
  <2>4. QED
    BY <1>15, <2>1, <2>2, <2>3 DEF Sweep
<1>16. ASSUME Admin PROVE (\A t \in Session : Alone(t)') /\ DeliveredOnce'
  <2>1. CASE \E plan \in Tiers \cup {Free}, expires \in 0..MaxTime : AdminCreate(plan, expires)
    <3>1. PICK plan \in Tiers \cup {Free}, expires \in 0..MaxTime : AdminCreate(plan, expires)
      BY <2>1
    <3> DEFINE row == Sub(plan, "", expires, NoOrder)
    <3>2. row \in SubRow /\ row.origin = NoOrder
      BY DEF Sub, SubRow, SubStatus
    <3>3. subs' = Append(subs, row)
      BY <3>1 DEF AdminCreate
    <3> HIDE DEF row
    <3>4. subs'[Len(subs')] = row
      BY <1>a, <3>2, <3>3
    <3>5. QED
      BY <1>13, <3>1, <3>2, <3>4 DEF AdminCreate, Unbought
  <2>2. CASE \E i \in 1..Len(subs), status \in SubStatus : AdminSetStatus(i, status)
    <3>1. PICK i \in 1..Len(subs), status \in SubStatus : AdminSetStatus(i, status)
      BY <2>2
    <3>2. Unbought
      BY <3>1, TableStep DEF AdminSetStatus, IInv, Kept, Unbought
    <3>3. QED
      BY <1>13, <3>1, <3>2 DEF AdminSetStatus
  <2>3. CASE AdminFreePlan
    BY <1>6, <1>13, <2>3 DEF AdminFreePlan
  <2>4. QED
    BY <1>16, <2>1, <2>2, <2>3 DEF Admin
<1>17. CASE Tick \/ UNCHANGED vars
  BY <1>6, <1>13, <1>17 DEF Tick, vars
<1>18. QED
  BY <1>8, <1>9, <1>10, <1>11, <1>12, <1>15, <1>16, <1>17 DEF Next, Quiescent

\* The invariant holds of every reachable state.
LEMMA Inductive == Spec => []IInv
<1>1. Init => IInv
  <2> SUFFICES ASSUME Init PROVE IInv
    OBVIOUS
  <2>1. Sub(Free, "", Forever, NoOrder) \in SubRow /\ Sub(Free, "", Forever, NoOrder).origin = NoOrder
    BY TermAssumption DEF Sub, SubRow, SubStatus, Forever
  <2>2. subs \in Seq(SubRow) /\ \A i \in 1..Len(subs) : subs[i].origin = NoOrder
    <3> DEFINE row == Sub(Free, "", Forever, NoOrder)
    <3>1. subs = <<>> \/ subs = <<row>>
      BY DEF Init
    <3> HIDE DEF row
    <3>2. row \in SubRow /\ row.origin = NoOrder
      BY <2>1 DEF row
    <3>3. CASE subs = <<>>
      BY <3>3
    <3>4. CASE subs = <<row>>
      <4>1. subs \in Seq(SubRow) /\ Len(subs) = 1 /\ subs[1] = row
        BY <3>2, <3>4
      <4>2. QED
        BY <3>2, <4>1
    <3>5. QED
      BY <3>1, <3>3, <3>4
  <2>3. Len(subs) \in Nat
    BY <2>2
  <2>4. NoRow \in OrderRow /\ NoRow.status = "none"
    BY DEF NoRow, OrderRow, OrderStatus
  <2>5. NoLocals \in LocalRow /\ NoLocals.order = NoOrder
    BY <2>3 DEF NoLocals, LocalRow
  <2>6. NoSweep \in SweepRow /\ NoSweep.step = "idle"
    BY <2>3 DEF NoSweep, SweepRow
  <2>7. TypeOK
    <3>a. now = 0 /\ freePlan \in BOOLEAN /\ budget = Budget
      BY DEF Init
    <3>1. now \in 0..MaxTime /\ freePlan \in BOOLEAN /\ budget \in [{"admin", "abort"} -> Nat]
      BY <3>a, BudgetAssumption, TermAssumption
    <3>2. orders \in [Order -> OrderRow] /\ \A o \in Order : orders[o].status = "none"
      BY <2>4 DEF Init
    <3>3. pc \in [Session -> Label] /\ loc \in [Session -> LocalRow]
      BY <2>5 DEF Init, Label
    <3>4. sweep \in [Pod -> SweepRow]
      BY <2>6 DEF Init
    <3>5. QED
      BY <2>2, <3>1, <3>2, <3>3, <3>4 DEF TypeOK, LocalRow, SweepRow
  <2>8. DeliveredOnce
    BY <2>2, <2>4, OrderAssumption DEF Init, DeliveredOnce
  <2>9. QED
    BY <2>4, <2>5, <2>6, <2>7, <2>8 DEF Init, IInv, Holding, Creating, SweepDue
<1>2. IInv /\ [Next]_vars => IInv'
  <2> SUFFICES ASSUME IInv, [Next]_vars PROVE IInv'
    OBVIOUS
  <2>1. Typed /\ OrdersOK /\ SessionsOK /\ SweepsOK
    BY EffectStep
  <2>2. (\A s \in Session : Alone(s)') /\ DeliveredOnce'
    BY <2>1, OnceStep
  <2>3. /\ Len(subs) \in Nat /\ Len(subs') \in Nat /\ Len(subs) <= Len(subs')
        /\ \A row : Priced(row) => Priced(row)'
        /\ now' \in Nat /\ now <= now' => \A i \in 1..Len(subs) : Lapsed(i) => Lapsed(i)'
    BY <2>1, RowsCarried DEF IInv, Typed
  <2>4. now' \in Nat /\ now <= now'
    BY <2>1, TermAssumption DEF Typed
  <2>5. \A o \in Order : orders'[o].status # "none" => Priced(orders[o])'
    BY <2>1, <2>3 DEF OrdersOK, Priced
  <2>6. \A s \in Session : pc'[s] \in {"paying_check", "insert"} => Priced(loc[s])'
    BY <2>1, <2>3 DEF SessionsOK, Priced
  <2>7. \A s \in Session : Holding(s)'
    BY <2>2, <2>6 DEF Holding, Alone
  <2>8. \A p \in Pod : SweepDue(p)'
    BY <2>1, <2>3, <2>4 DEF SweepsOK, SweepDue, Lapsed
  <2>9. TypeOK'
    <3>1. subs' \in Seq(SubRow)
      BY <2>1 DEF Typed, Kept, Added
    <3>2. \A o \in Order : orders'[o].status # "none" => orders'[o].existing \in 1..Len(subs')
      BY <2>5 DEF Priced
    <3>3. 0..Len(subs) \subseteq 0..Len(subs')
      BY <2>3
    <3>4. LocalRow \subseteq (LocalRow)'
      BY <3>3 DEF LocalRow
    <3>5. SweepRow \subseteq (SweepRow)'
      BY <3>3 DEF SweepRow
    <3>6. loc' \in [Session -> (LocalRow)'] /\ sweep' \in [Pod -> (SweepRow)']
      BY <2>1, <3>4, <3>5 DEF SessionsOK, SweepsOK
    <3>7. QED
      BY <2>1, <3>1, <3>2, <3>6 DEF TypeOK, Typed, OrdersOK, SessionsOK, LocalRow, SweepRow
  <2>10. QED
    BY <2>2, <2>5, <2>7, <2>8, <2>9 DEF IInv
<1>3. QED
  BY <1>1, <1>2, PTL DEF Spec

----------------------------------------------------------------------------
(* The properties.                                                         *)

\* Type correctness of every reachable state: the rows of orders and
\* subscriptions have their types, and an order, a session and a sweep refer to
\* a subscription there is.
THEOREM TypeCorrect == Spec => []TypeOK
<1>1. IInv => TypeOK
  BY DEF IInv
<1>2. QED
  BY <1>1, Inductive, PTL

\* However often and however concurrently the webhook of an order is repeated,
\* DeliverOrder buys one subscription for it, and none for any other order.
THEOREM BoughtOnce == Spec => []DeliveredOnce
<1>1. IInv => DeliveredOnce
  BY DEF IInv
<1>2. QED
  BY <1>1, Inductive, PTL

\* DeliverOrder replaces the subscription the order was priced against and no
\* other, at no lower tier, in its currency, and extends what is left of it.
THEOREM DeliveryInPlace == Spec => DeliveryReplaces
<1> DEFINE Replaced(o) ==
      LET old == subs[orders[o].existing]
          new == subs'[Len(subs')]
      IN  /\ Active(subs) \subseteq {orders[o].existing}
          /\ new.origin = o /\ new.status = "active"
          /\ new.plan >= old.plan
          /\ old.currency # "" => new.currency = old.currency
          /\ new.plan = old.plan => new.expires = old.expires + Term
<1>1. ASSUME IInv, [Next]_vars, NEW o \in Order,
             orders[o].status # "delivered", orders'[o].status = "delivered"
      PROVE  Replaced(o)
  <2>1. orders \in [Order -> OrderRow] /\ subs \in Seq(SubRow)
    BY <1>1 DEF IInv, TypeOK
  <2>2. PICK s \in Session : DeliverOrder(s) /\ loc[s].order = o
    <3>1. ASSUME NEW q, NEW st, SetOrderStatus(q, st) PROVE q = o /\ st = "delivered"
      <4>1. orders'[o] = IF q = o THEN [orders[o] EXCEPT !.status = st] ELSE orders[o]
        BY <2>1, <3>1 DEF SetOrderStatus
      <4>2. orders[o] \in OrderRow
        BY <2>1
      <4>3. QED
        BY <1>1, <4>1, <4>2 DEF OrderRow
    <3>2. orders' # orders
      BY <1>1
    <3>3. ASSUME NEW s \in Session, CreateOrder(s) PROVE FALSE
      BY <1>1, <2>1, <3>3 DEF CreateOrder
    <3>4. ASSUME NEW q \in Order, CustomerPays(q) PROVE FALSE
      <4>1. orders[o] \in OrderRow /\ orders'[o].status = orders[o].status
        BY <2>1, <3>4 DEF CustomerPays, OrderRow
      <4>2. QED
        BY <1>1, <4>1
    <3>5. ASSUME NEW s \in Session, Continue(s) PROVE DeliverOrder(s)
      BY <3>1, <3>2, <3>3, <3>5
         DEF Continue, NoPayingOrder, PayingOrderExists, PaymentCreated, PaymentFailed, DeliverRolledBack
    <3>6. \A p \in Pod : ~Sweep(p) /\ ~AbortSweep(p)
      BY <3>2 DEF Sweep, SweepSelect, SweepReplace, SweepRolledBack, SweepNoFree, SweepExpireAll, AbortSweep
    <3>7. ~Admin /\ ~Tick /\ ~Quiescent /\ ~UNCHANGED vars
      BY <3>2 DEF Admin, AdminCreate, AdminSetStatus, AdminFreePlan, Tick, Quiescent, vars
    <3>8. \A q \in Order : ~CancelOrder(q)
      BY <3>1 DEF CancelOrder
    <3>9. PICK s \in Session : DeliverOrder(s)
      BY <1>1, <3>2, <3>4, <3>5, <3>6, <3>7, <3>8 DEF Next, AbortSession, DeliveryWebhook, ReadActive
    <3>10. QED
      BY <3>1, <3>9 DEF DeliverOrder
  <2> DEFINE i == orders[o].existing
             row == Sub(orders[o].plan, orders[o].currency, NewExpiry(o), o)
  <2>3. i \in 1..Len(subs) /\ MayOrder(i, orders[o].plan, orders[o].currency)
    BY <1>1, <2>2 DEF DeliverOrder, Deliverable, IInv, Priced
  <2>4. /\ SetStatus(i, "revoked") \in Seq(SubRow) /\ Len(SetStatus(i, "revoked")) = Len(subs)
        /\ MayActivate(SetStatus(i, "revoked"))
        /\ subs' = Append(SetStatus(i, "revoked"), row)
    BY <1>1, <2>2, <2>3, TableStep DEF DeliverOrder, Deliverable, RevokedTable, IInv, SubStatus
  <2>5. Active(subs) \subseteq {i}
    BY <1>1, <2>3, <2>4, TableStep DEF IInv, SubStatus
  <2>6. subs'[Len(subs')] = row
    <3> DEFINE t == SetStatus(i, "revoked")
    <3> HIDE DEF t, row
    <3>1. QED
      BY <2>4 DEF t
  <2>7. row.plan = orders[o].plan /\ row.currency = orders[o].currency
        /\ row.origin = o /\ row.status = "active" /\ row.expires = NewExpiry(o)
    BY DEF Sub
  <2> HIDE DEF row
  <2>8. QED
    BY <2>3, <2>5, <2>6, <2>7 DEF MayOrder, NewExpiry
<1>2. ASSUME IInv, [Next]_vars
      PROVE  \A o \in Order : orders[o].status # "delivered" /\ orders'[o].status = "delivered" => Replaced(o)
  BY <1>1, <1>2
<1>3. QED
  BY <1>2, Inductive, PTL DEF Spec, DeliveryReplaces

\* ExpireAndFallbackToFree ends no subscription that has not run out, however
\* long ago the job collected the project.
THEOREM RenewalSpared == Spec => SweepSparesRenewal
<1>1. ASSUME IInv, [Next]_vars, NEW p \in Pod, Sweep(p), NEW i \in Active(subs), ~Lapsed(i)
      PROVE  subs'[i].status = "active"
  <2>1. subs \in Seq(SubRow) /\ i \in 1..Len(subs) /\ subs[i].status = "active"
    BY <1>1 DEF IInv, TypeOK, Active
  <2>2. CASE SweepReplace(p)
    <3>1. sweep[p].item \in 1..Len(subs) /\ Lapsed(sweep[p].item)
      BY <1>1, <2>2 DEF SweepReplace, IInv, SweepDue
    <3>2. Active(subs) \subseteq {sweep[p].item}
      BY <1>1, <2>2, <3>1, TableStep DEF SweepReplace, ExpiredTable, IInv, SubStatus
    <3>3. QED
      BY <1>1, <3>1, <3>2
  <2>3. CASE SweepExpireAll(p)
    BY <1>1, <2>1, <2>3 DEF SweepExpireAll
  <2>4. QED
    BY <1>1, <2>1, <2>2, <2>3 DEF Sweep, SweepSelect, SweepRolledBack, SweepNoFree
<1>2. ASSUME IInv, [Next]_vars
      PROVE  \A p \in Pod : Sweep(p) => \A i \in Active(subs) : ~Lapsed(i) => subs'[i].status = "active"
  BY <1>1, <1>2
<1>3. QED
  BY <1>2, Inductive, PTL DEF Spec, SweepSparesRenewal

\* Neither a delivery nor the job's replacement leaves a project without an
\* active subscription.
THEOREM Covered == Spec => CoverageKept
<1>1. ASSUME IInv, [Next]_vars, Active(subs) # {}, Active(subs') = {}
      PROVE  Admin \/ \E p \in Pod : SweepExpireAll(p)
  <2>1. ASSUME NEW i \in 1..Len(subs), NEW st \in SubStatus, NEW row,
               subs' = Append(SetStatus(i, st), row), row.status = "active"
        PROVE  FALSE
    <3>1. SetStatus(i, st) \in Seq(SubRow)
      BY <1>1, TableStep DEF IInv
    <3>2. Len(subs') \in 1..Len(subs') /\ subs'[Len(subs')] = row
      BY <2>1, <3>1
    <3>3. QED
      BY <1>1, <2>1, <3>2 DEF Active
  <2>2. ASSUME NEW s \in Session, DeliverOrder(s) PROVE FALSE
    <3>1. loc[s].order \in Order /\ orders[loc[s].order].status # "none"
      BY <1>1, <2>2 DEF DeliverOrder, Deliverable, IInv, TypeOK, Holding
    <3>2. orders[loc[s].order].existing \in 1..Len(subs)
      BY <1>1, <3>1 DEF IInv, Priced
    <3> DEFINE o == loc[s].order
               row == Sub(orders[o].plan, orders[o].currency, NewExpiry(o), o)
    <3>3. row.status = "active" /\ subs' = Append(SetStatus(orders[o].existing, "revoked"), row)
      BY <2>2 DEF DeliverOrder, RevokedTable, Sub
    <3> HIDE DEF row
    <3>4. QED
      BY <2>1, <3>2, <3>3 DEF SubStatus
  <2>3. ASSUME NEW p \in Pod, SweepReplace(p) PROVE FALSE
    <3>1. sweep[p].item \in 1..Len(subs)
      BY <1>1, <2>3 DEF SweepReplace, IInv, SweepDue
    <3> DEFINE row == Sub(Free, "", Forever, NoOrder)
    <3>2. row.status = "active" /\ subs' = Append(SetStatus(sweep[p].item, "expired"), row)
      BY <2>3 DEF SweepReplace, ExpiredTable, Sub
    <3> HIDE DEF row
    <3>3. QED
      BY <2>1, <3>1, <3>2 DEF SubStatus
  <2>4. subs' # subs
    BY <1>1
  <2>5. QED
    BY <1>1, <2>2, <2>3, <2>4
       DEF Next, Continue, NoPayingOrder, PayingOrderExists, CreateOrder, PaymentCreated,
           PaymentFailed, DeliverRolledBack, AbortSession, DeliveryWebhook, ReadActive, CancelOrder,
           CustomerPays, Sweep, SweepSelect, SweepRolledBack, SweepNoFree, AbortSweep,
           Tick, Quiescent, vars
<1>2. ASSUME IInv, [Next]_vars
      PROVE  Active(subs) # {} /\ Active(subs') = {} => Admin \/ \E p \in Pod : SweepExpireAll(p)
  BY <1>1, <1>2
<1>3. QED
  BY <1>2, Inductive, PTL DEF Spec, CoverageKept
=============================================================================

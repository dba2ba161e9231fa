----------------------- MODULE ExtraUsageWallet_proofs -----------------------
(***************************************************************************)
(* Theorems about ExtraUsageWallet, for any number of sessions and orders. *)
(***************************************************************************)
EXTENDS ExtraUsageWallet, FiniteSetTheorems, WellFoundedInduction, TLAPS

----------------------------------------------------------------------------
(* What the pieces the actions are built from do.                          *)

\* A step of session s that ends at label: nobody else moves.
Step(s, label) ==
  /\ pc' \in [Session -> Label]
  /\ loc' \in [Session -> Local]
  /\ pc'[s] = label
  /\ \A t \in Session \ {s} : pc'[t] = pc[t] /\ loc'[t] = loc[t]

\* A handler that has returned carries nothing.
LEMMA NoLocalsType == NoLocals \in Local /\ NoLocals.order = NoOrder
  BY DEF NoLocals, Local

\* Replacing the locals of one session.
LEMMA LocStep ==
  ASSUME TypeOK, NEW s \in Session, NEW l \in Label, NEW r \in Local,
         Goto(s, l), loc' = [loc EXCEPT ![s] = r]
  PROVE  Step(s, l) /\ loc'[s] = r
<1>1. pc \in [Session -> Label] /\ loc \in [Session -> Local]
  BY DEF TypeOK
<1>2. QED
  BY <1>1 DEF Goto, Step

\* Keeping them.
LEMMA StayStep ==
  ASSUME TypeOK, NEW s \in Session, NEW l \in Label, Goto(s, l), UNCHANGED loc
  PROVE  Step(s, l) /\ loc'[s] = loc[s]
  BY DEF TypeOK, Goto, Step

\* Returning, or the end of a process.
LEMMA ReturnStep ==
  ASSUME TypeOK, NEW s \in Session, Return(s)
  PROVE  Step(s, "idle") /\ loc'[s] = NoLocals /\ loc'[s].order = NoOrder
  BY NoLocalsType, LocStep DEF Return, Label

\* Replacing one field of the locals.
LEMMA SetField ==
  ASSUME NEW x \in Local
  PROVE  /\ \A o \in Order \cup {NoOrder} :
              /\ [x EXCEPT !.order = o] \in Local
              /\ [x EXCEPT !.order = o].order = o
         /\ \A a \in Int :
              /\ [x EXCEPT !.amount = a] \in Local
              /\ [x EXCEPT !.amount = a].amount = a
              /\ [x EXCEPT !.amount = a].order = x.order
         /\ \A a \in Int :
              /\ [x EXCEPT !.after = a] \in Local
              /\ [x EXCEPT !.after = a].after = a
              /\ [x EXCEPT !.after = a].amount = x.amount
              /\ [x EXCEPT !.after = a].order = x.order
         /\ \A n \in Nat :
              /\ [x EXCEPT !.seen = n] \in Local
              /\ [x EXCEPT !.seen = n].order = x.order
              /\ [x EXCEPT !.seen = n].amount = x.amount
         /\ \A e \in BOOLEAN :
              /\ [x EXCEPT !.enabled = e] \in Local
              /\ [x EXCEPT !.enabled = e].order = x.order
         /\ \A n \in Nat :
              /\ [x EXCEPT !.limit = n] \in Local
              /\ [x EXCEPT !.limit = n].order = x.order
  BY DEF Local

\* Being granted the row lock.
LEMMA LockStep ==
  ASSUME TypeOK, NEW s \in Session, NEW l \in Label, NEW a \in Int,
         LockAndAdd(s, a), Goto(s, l)
  PROVE  /\ Step(s, l)
         /\ holder = NoSession /\ holder' = s
         /\ loc'[s].amount = a
         /\ loc'[s].after = settings.balance + a
         /\ loc'[s].order = loc[s].order
<1>1. settings.balance \in Int /\ loc[s] \in Local
  BY DEF TypeOK, Settings
<1> DEFINE q == [loc[s] EXCEPT !.amount = a]
           r == [q EXCEPT !.after = settings.balance + a]
<1>2. /\ r \in Local
      /\ r.amount = a /\ r.after = settings.balance + a /\ r.order = loc[s].order
  <2>1. q \in Local /\ q.amount = a /\ q.order = loc[s].order
    BY <1>1, SetField
  <2> HIDE DEF q
  <2>2. QED
    BY <1>1, <2>1, SetField
<1>3. loc' = [loc EXCEPT ![s] = r]
  BY DEF LockAndAdd
<1>4. QED
  BY <1>2, <1>3, LocStep DEF LockAndAdd

\* Committing a ledger row with the new balance.
LEMMA CommitStep ==
  ASSUME TypeOK, NEW s \in Session,
         NEW kind \in {"topup", "deduction", "refund"}, CommitRow(s, kind)
  PROVE  /\ settings' \in Settings
         /\ settings'.balance = loc[s].after
         /\ settings'.enabled = settings.enabled
         /\ settings'.bypass = settings.bypass
         /\ holder' = NoSession
         /\ ledger' \in Seq(Row)
         /\ Len(ledger) \in Nat
         /\ Len(ledger') = Len(ledger) + 1
         /\ \A i \in 1..Len(ledger) : ledger'[i] = ledger[i]
         /\ ledger'[Len(ledger) + 1] = [kind |-> kind, amount |-> loc[s].amount,
                                        after |-> loc[s].after, order |-> loc[s].order]
<1> DEFINE r == [kind |-> kind, amount |-> loc[s].amount,
                 after |-> loc[s].after, order |-> loc[s].order]
<1>1. ledger \in Seq(Row) /\ loc[s] \in Local /\ settings \in Settings
  BY DEF TypeOK
<1>2. r \in Row
  BY <1>1 DEF Local, Row
<1>3. /\ ledger' = Append(ledger, r)
      /\ settings' = [settings EXCEPT !.balance = loc[s].after]
      /\ holder' = NoSession
  BY DEF CommitRow
<1>4. /\ settings' \in Settings
      /\ settings'.balance = loc[s].after
      /\ settings'.enabled = settings.enabled
      /\ settings'.bypass = settings.bypass
  BY <1>1, <1>3 DEF Settings, Local
<1> HIDE DEF r
<1>5. /\ ledger' \in Seq(Row)
      /\ Len(ledger) \in Nat
      /\ Len(ledger') = Len(ledger) + 1
      /\ \A i \in 1..Len(ledger) : ledger'[i] = ledger[i]
      /\ ledger'[Len(ledger) + 1] = r
  BY <1>1, <1>2, <1>3
<1>6. QED
  BY <1>3, <1>4, <1>5 DEF r

\* Spending from the bound on the environment's inputs.
LEMMA BudgetStep ==
  ASSUME TypeOK, NEW kind \in {"request", "grant", "edit", "abort"}, Spend(kind)
  PROVE  budget' \in [{"request", "grant", "edit", "abort"} -> Nat]
  BY DEF TypeOK, Spend

\* Setting the status, or the payment, of an order.
LEMMA StatusStep ==
  ASSUME TypeOK, NEW o \in Order, NEW v \in OrderStatus, status' = [status EXCEPT ![o] = v]
  PROVE  /\ status' \in [Order -> OrderStatus]
         /\ status'[o] = v
         /\ \A p \in Order \ {o} : status'[p] = status[p]
  BY DEF TypeOK

\* What the payment service knows keeps its type.
LEMMA PaymentStep ==
  ASSUME TypeOK, NEW o \in Order, NEW v \in Payment, payment' = [payment EXCEPT ![o] = v]
  PROVE  /\ payment' \in [Order -> Payment]
         /\ payment'[o] = v
         /\ \A p \in Order \ {o} : payment'[p] = payment[p]
  BY DEF TypeOK

----------------------------------------------------------------------------
(* Type correctness, together with which handlers carry an order: a status *)
(* update has its type because the handler that makes it has an order.     *)

Typed == TypeOK /\ OrderLocals

\* The types, and which handlers carry an order, at first.
LEMMA TypeInit == Init => Typed
  BY SessionAssumption, OrderAssumption, CreditsAssumption, BudgetAssumption
     DEF Init, Typed, TypeOK, OrderLocals, Settings, Row, OrderStatus, Payment,
         Label, Locked, Local, NoLocals

\* No step of a session, an administrator or the customer leaves them.
LEMMA TypeStep == Typed /\ [Next]_vars => Typed'
<1> SUFFICES ASSUME Typed, [Next]_vars PROVE Typed'
  OBVIOUS
<1>a. /\ TypeOK /\ OrderLocals
      /\ \A s \in Session : loc[s] \in Local /\ loc[s].amount \in Int
                            /\ loc[s].order \in Order \cup {NoOrder}
                            /\ loc[s].enabled \in BOOLEAN /\ loc[s].limit \in Nat
      /\ settings.balance \in Int
      /\ \A i \in 1..Len(ledger) : ledger[i].amount \in Int
  <2>1. /\ TypeOK /\ OrderLocals
        /\ \A s \in Session : loc[s] \in Local
        /\ settings \in Settings /\ ledger \in Seq(Row)
    BY DEF Typed, TypeOK
  <2>2. \A i \in 1..Len(ledger) : ledger[i] \in Row
    BY <2>1
  <2>3. \A i \in 1..Len(ledger) : ledger[i].amount \in Int
    BY <2>2 DEF Row
  <2>4. settings.balance \in Int
    BY <2>1 DEF Settings
  <2>5. QED
    BY <2>1, <2>3, <2>4 DEF Local
<1>1. CASE UNCHANGED vars
  BY <1>1, <1>a DEF vars, Typed, TypeOK, OrderLocals
\* A step of s, with what it leaves alone or types, keeps both.
<1>b. ASSUME NEW s \in Session, NEW l \in Label, Step(s, l),
             settings' \in Settings, ledger' \in Seq(Row),
             holder' \in Session \cup {NoSession},
             status' \in [Order -> OrderStatus],
             payment' \in [Order -> Payment],
             budget' \in [{"request", "grant", "edit", "abort"} -> Nat],
             l \in {"idle", "serving", "deduct_wait", "deduct_ins", "edit_wait"}
               => loc'[s].order = NoOrder,
             l \in {"topup_check", "mark_delivered", "refund_wait", "refund_ins",
                    "mark_refunded", "insert", "payment"}
               => loc'[s].order \in Order
      PROVE  Typed'
  BY <1>a, <1>b DEF Typed, TypeOK, OrderLocals, Step
<1>c. /\ settings \in Settings /\ ledger \in Seq(Row)
      /\ holder \in Session \cup {NoSession}
      /\ status \in [Order -> OrderStatus]
      /\ payment \in [Order -> Payment]
      /\ budget \in [{"request", "grant", "edit", "abort"} -> Nat]
  BY <1>a DEF TypeOK
<1>d. \A s \in Session :
        /\ pc[s] \in {"idle", "serving", "deduct_wait", "deduct_ins", "edit_wait"}
             => loc[s].order = NoOrder
        /\ pc[s] \in {"topup_check", "mark_delivered", "refund_wait", "refund_ins",
                      "mark_refunded", "insert", "payment"}
             => loc[s].order \in Order
  BY <1>a DEF OrderLocals
<1>2. ASSUME NEW s \in Session, Continue(s) PROVE Typed'
  <2> USE <1>a, <1>b, <1>c, <1>d DEF Label, Locked
  <2>1. CASE SettleNothing(s)
    BY <2>1, ReturnStep DEF SettleNothing
  <2>2. ASSUME NEW c \in Costs, SettleBegin(s, c) PROVE Typed'
    <3>1. CASE Eligible(c, Len(ledger))
      <4> DEFINE q == [loc[s] EXCEPT !.amount = -c]
                 r == [q EXCEPT !.seen = Len(ledger)]
      <4>1. q \in Local /\ q.order = loc[s].order
        <5>1. -c \in Int
          BY AmountAssumption
        <5>2. loc[s] \in Local
          OBVIOUS
        <5>3. QED
          BY ONLY <5>1, <5>2, SetField
      <4>2. r \in Local /\ r.order = loc[s].order
        <5> HIDE DEF q
        <5>1. Len(ledger) \in Nat
          BY <1>c
        <5>2. QED
          BY <4>1, <5>1, SetField
      <4>3. loc' = [loc EXCEPT ![s] = r]
        BY <2>2, <3>1 DEF SettleBegin
      <4> HIDE DEF r
      <4>4. Step(s, "deduct_wait") /\ loc'[s] = r
        BY <2>2, <3>1, <4>2, <4>3, LocStep DEF SettleBegin
      <4>5. QED
        BY <2>2, <4>2, <4>4 DEF SettleBegin
    <3>2. CASE ~Eligible(c, Len(ledger))
      BY <2>2, <3>2, ReturnStep DEF SettleBegin
    <3>3. QED
      BY <3>1, <3>2
  <2>3. CASE DeductLock(s)
    BY <2>3, LockStep DEF DeductLock
  <2>4. CASE DeductRejected(s)
    BY <2>4, ReturnStep DEF DeductRejected
  <2>5. CASE DeductCommit(s)
    BY <2>5, ReturnStep, CommitStep DEF DeductCommit
  <2>6. CASE CreateOrder(s)
    <3>1. status' \in [Order -> OrderStatus]
      BY <2>6, StatusStep DEF CreateOrder, OrderStatus
    <3>2. QED
      BY <2>6, <3>1, StayStep DEF CreateOrder
  <2>7. CASE PaymentCreated(s)
    <3>1. status' \in [Order -> OrderStatus] /\ payment' \in [Order -> Payment]
      BY <2>7, StatusStep, PaymentStep DEF PaymentCreated, OrderStatus, Payment
    <3>2. QED
      BY <2>7, <3>1, ReturnStep DEF PaymentCreated
  <2>8. CASE PaymentFailed(s)
    <3>1. status' \in [Order -> OrderStatus]
      BY <2>8, StatusStep DEF PaymentFailed, OrderStatus
    <3>2. QED
      BY <2>8, <3>1, ReturnStep DEF PaymentFailed
  <2>9. CASE TopupCheck(s)
    BY <2>9, StayStep DEF TopupCheck
  <2>10. CASE TopupLock(s)
    BY <2>10, LockStep DEF TopupLock
  <2>11. CASE TopupCommit(s)
    <3>1. CASE loc[s].order = NoOrder
      BY <2>11, <3>1, ReturnStep, CommitStep DEF TopupCommit
    <3>2. CASE loc[s].order # NoOrder
      BY <2>11, <3>2, StayStep, CommitStep DEF TopupCommit
    <3>3. QED
      BY <3>1, <3>2
  <2>12. CASE TopupConflict(s)
    BY <2>12, ReturnStep DEF TopupConflict
  <2>13. CASE MarkDelivered(s)
    <3>1. status' \in [Order -> OrderStatus]
      BY <2>13, StatusStep DEF MarkDelivered, OrderStatus
    <3>2. QED
      BY <2>13, <3>1, ReturnStep DEF MarkDelivered
  <2>14. CASE RefundLock(s)
    <3>1. PICK i \in 1..Len(ledger) : LockAndAdd(s, -ledger[i].amount)
      BY <2>14 DEF RefundLock
    <3>2. -ledger[i].amount \in Int
      OBVIOUS
    <3>3. QED
      BY <2>14, <3>1, <3>2, LockStep, ZenonT(30) DEF RefundLock
  <2>15. CASE RefundCommit(s)
    <3>1. /\ settings' \in Settings /\ ledger' \in Seq(Row)
          /\ holder' \in Session \cup {NoSession}
      BY <2>15, CommitStep DEF RefundCommit
    <3>2. QED
      BY <2>15, <3>1, StayStep DEF RefundCommit
  <2>16. CASE RefundConflict(s)
    BY <2>16, StayStep DEF RefundConflict
  <2>17. CASE MarkRefunded(s)
    <3>1. status' \in [Order -> OrderStatus]
      BY <2>17, StatusStep DEF MarkRefunded, OrderStatus
    <3>2. QED
      BY <2>17, <3>1, ReturnStep DEF MarkRefunded
  <2>18. CASE EditWrite(s)
    <3>1. settings' \in Settings
      BY <2>18 DEF EditWrite, Settings
    <3>2. QED
      BY <2>18, <3>1, ReturnStep DEF EditWrite
  <2>19. QED
    BY <1>2, <2>1, <2>2, <2>3, <2>4, <2>5, <2>6, <2>7, <2>8, <2>9, <2>10, <2>11,
       <2>12, <2>13, <2>14, <2>15, <2>16, <2>17, <2>18 DEF Continue
<1>3. ASSUME NEW s \in Session, Arrive(s) PROVE Typed'
  <2> USE <1>a, <1>b, <1>c, <1>d DEF Label, Locked
  <2>1. CASE GuardAdmits(s)
    BY <2>1, StayStep, BudgetStep DEF GuardAdmits
  <2>2. ASSUME NEW o \in Order, TopupWithinCap(s, o) PROVE Typed'
    <3> DEFINE r == [loc[s] EXCEPT !.order = o]
    <3>1. r \in Local /\ r.order = o
      BY SetField
    <3>2. Goto(s, "insert") /\ loc' = [loc EXCEPT ![s] = r]
      BY <2>2 DEF TopupWithinCap
    <3> HIDE DEF r
    <3>3. QED
      BY <2>2, <3>1, <3>2, LocStep DEF TopupWithinCap
  <2>3. ASSUME NEW o \in Order, DeliveryWebhook(s, o) PROVE Typed'
    <3> DEFINE q == [loc[s] EXCEPT !.order = o]
               r == [q EXCEPT !.amount = Credits[o]]
    <3>1. q \in Local /\ q.order = o
      BY SetField
    <3>2. r \in Local /\ r.order = o
      <4> HIDE DEF q
      <4>1. QED
        BY <3>1, CreditsAssumption, SetField
    <3>3. Goto(s, "topup_check") /\ loc' = [loc EXCEPT ![s] = r]
      BY <2>3 DEF DeliveryWebhook
    <3> HIDE DEF r
    <3>4. QED
      BY <2>3, <3>2, <3>3, LocStep DEF DeliveryWebhook
  <2>4. ASSUME NEW o \in Order, RefundWebhook(s, o) PROVE Typed'
    <3> DEFINE r == [loc[s] EXCEPT !.order = o]
    <3>1. r \in Local /\ r.order = o
      BY SetField
    <3>2. Goto(s, "refund_wait") /\ loc' = [loc EXCEPT ![s] = r]
      BY <2>4 DEF RefundWebhook
    <3> HIDE DEF r
    <3>3. QED
      BY <2>4, <3>1, <3>2, LocStep DEF RefundWebhook
  <2>5. ASSUME NEW a \in Grants, DirectTopup(s, a) PROVE Typed'
    <3> DEFINE r == [loc[s] EXCEPT !.amount = a]
    <3>1. r \in Local
      BY AmountAssumption, SetField
    <3>2. Goto(s, "topup_wait") /\ loc' = [loc EXCEPT ![s] = r]
      BY <2>5 DEF DirectTopup
    <3> HIDE DEF r
    <3>3. QED
      BY <2>5, <3>1, <3>2, LocStep, BudgetStep DEF DirectTopup
  <2>6. ASSUME NEW e \in BOOLEAN, NEW n \in Limits, EditRead(s, e, n) PROVE Typed'
    <3> DEFINE q == [loc[s] EXCEPT !.enabled = e]
               r == [q EXCEPT !.limit = n]
    <3>1. q \in Local /\ q.order = loc[s].order
      BY SetField
    <3>2. r \in Local /\ r.order = loc[s].order
      <4> HIDE DEF q
      <4>1. QED
        BY <3>1, AmountAssumption, SetField
    <3>3. Goto(s, "edit_wait") /\ loc' = [loc EXCEPT ![s] = r]
      BY <2>6 DEF EditRead
    <3> HIDE DEF r
    <3>4. QED
      BY <2>6, <3>2, <3>3, LocStep, BudgetStep DEF EditRead
  <2>7. QED
    BY <1>3, <2>1, <2>2, <2>3, <2>4, <2>5, <2>6 DEF Arrive
<1>4. ASSUME NEW s \in Session, Abort(s) PROVE Typed'
  BY <1>4, <1>a, <1>b, <1>c, ReturnStep, BudgetStep DEF Abort, Label
<1>5. ASSUME NEW o \in Order, CancelOrder(o) PROVE Typed'
  BY <1>5, <1>a, <1>c, StatusStep DEF CancelOrder, OrderStatus, Typed, TypeOK, OrderLocals
<1>6. ASSUME NEW o \in Order, NEW a \in {"short", "full"}, CustomerPays(o, a) PROVE Typed'
  BY <1>6, <1>a, <1>c, PaymentStep DEF CustomerPays, Payment, Typed, TypeOK, OrderLocals
<1>7. ASSUME NEW b \in BOOLEAN, SetBypass(b) PROVE Typed'
  <2>1. settings' \in Settings
    BY <1>7, <1>c DEF SetBypass, Settings
  <2>2. QED
    BY <1>7, <2>1, <1>a, <1>c, BudgetStep DEF SetBypass, Typed, TypeOK, OrderLocals
<1>8. QED
  BY <1>1, <1>2, <1>3, <1>4, <1>5, <1>6, <1>7 DEF Next, Quiescent

\* Type correctness of every reachable state, for every number of sessions and
\* orders.
THEOREM TypeCorrect == Spec => []TypeOK
<1>1. Typed => TypeOK
  BY DEF Typed
<1>2. QED
  BY <1>1, TypeInit, TypeStep, PTL DEF Spec

----------------------------------------------------------------------------
(* The ledger explains the balance.  The strengthening is LockDiscipline:  *)
(* the balance a transaction is about to write was computed from the one   *)
(* that is still committed, because nobody else can be inside.             *)

Accounted == Typed /\ LockDiscipline /\ LedgerExplainsBalance

\* A step that neither takes nor frees the lock and leaves balance and ledger
\* alone.
LEMMA OutsideStep ==
  ASSUME Accounted, NEW s \in Session, NEW l \in Label \ Locked, Step(s, l),
         pc[s] \notin Locked, holder' = holder, ledger' = ledger,
         settings'.balance = settings.balance
  PROVE  LockDiscipline' /\ LedgerExplainsBalance'
<1>1. LockDiscipline'
  BY DEF Accounted, LockDiscipline, Step
<1>2. LedgerExplainsBalance'
  BY DEF Accounted, LedgerExplainsBalance
<1>3. QED
  BY <1>1, <1>2

\* Entering the critical section.
LEMMA EnterStep ==
  ASSUME Accounted, NEW s \in Session, NEW l \in Locked, NEW a \in Int,
         LockAndAdd(s, a), Goto(s, l), UNCHANGED <<settings, ledger>>
  PROVE  LockDiscipline' /\ LedgerExplainsBalance'
<1>1. /\ Step(s, l) /\ holder = NoSession /\ holder' = s
      /\ loc'[s].after = settings.balance + loc'[s].amount
  BY LockStep DEF Accounted, Typed, Label
<1>2. LockDiscipline'
  BY <1>1, SessionAssumption DEF Accounted, LockDiscipline, Step
<1>3. LedgerExplainsBalance'
  BY DEF Accounted, LedgerExplainsBalance
<1>4. QED
  BY <1>2, <1>3

\* Leaving it without a commit.
LEMMA RollbackStep ==
  ASSUME Accounted, NEW s \in Session, NEW l \in Label \ Locked, Step(s, l),
         pc[s] \in Locked, holder' = NoSession, UNCHANGED <<settings, ledger>>
  PROVE  LockDiscipline' /\ LedgerExplainsBalance'
<1>1. LockDiscipline'
  BY SessionAssumption DEF Accounted, LockDiscipline, Step
<1>2. LedgerExplainsBalance'
  BY DEF Accounted, LedgerExplainsBalance
<1>3. QED
  BY <1>1, <1>2

\* Leaving it with a commit: the new row continues the chain, and nobody else
\* had computed a balance from the old one.
LEMMA LeaveStep ==
  ASSUME Accounted, NEW s \in Session, NEW l \in Label \ Locked, Step(s, l),
         NEW kind \in {"topup", "deduction", "refund"},
         pc[s] \in Locked, CommitRow(s, kind)
  PROVE  LockDiscipline' /\ LedgerExplainsBalance'
<1> DEFINE n == Len(ledger)
<1>1. TypeOK /\ LockDiscipline /\ LedgerExplainsBalance
  BY DEF Accounted, Typed
<1>2. /\ settings'.balance = loc[s].after
      /\ holder' = NoSession
      /\ n \in Nat
      /\ Len(ledger') = n + 1
      /\ \A i \in 1..n : ledger'[i] = ledger[i]
      /\ ledger'[n + 1].after = loc[s].after
      /\ ledger'[n + 1].amount = loc[s].amount
  <2>1. /\ settings'.balance = loc[s].after
        /\ holder' = NoSession
        /\ n \in Nat
        /\ Len(ledger') = n + 1
        /\ \A i \in 1..n : ledger'[i] = ledger[i]
        /\ ledger'[n + 1] = [kind |-> kind, amount |-> loc[s].amount,
                             after |-> loc[s].after, order |-> loc[s].order]
    BY <1>1, CommitStep
  <2>2. QED
    BY <2>1
<1>3. LockDiscipline'
  BY <1>1, <1>2, SessionAssumption DEF LockDiscipline, Step
<1>4. loc[s].after = (IF n = 0 THEN 0 ELSE ledger[n].after) + loc[s].amount
  BY <1>1 DEF LockDiscipline, LedgerExplainsBalance
<1> HIDE DEF n
<1>5. ASSUME NEW i \in 1..(n + 1)
      PROVE  ledger'[i].after = (IF i = 1 THEN 0 ELSE ledger'[i-1].after) + ledger'[i].amount
  <2>1. CASE i = n + 1
    <3>1. CASE n = 0
      BY <1>2, <1>4, <2>1, <3>1
    <3>2. CASE n # 0
      <4>1. ledger'[n] = ledger[n] /\ i - 1 = n /\ i # 1
        BY <1>2, <2>1, <3>2
      <4>2. QED
        BY <1>2, <1>4, <2>1, <3>2, <4>1
    <3>3. QED
      BY <3>1, <3>2
  <2>2. CASE i # n + 1
    <3>1. i \in 1..n /\ ledger'[i] = ledger[i]
      BY <1>2, <2>2
    <3>2. i # 1 => ledger'[i-1] = ledger[i-1]
      BY <1>2, <3>1
    <3>3. ledger[i].after = (IF i = 1 THEN 0 ELSE ledger[i-1].after) + ledger[i].amount
      BY <1>1, <3>1 DEF LedgerExplainsBalance, n
    <3>4. QED
      BY <3>1, <3>2, <3>3
  <2>3. QED
    BY <2>1, <2>2
<1>6. settings'.balance = IF Len(ledger') = 0 THEN 0 ELSE ledger'[Len(ledger')].after
  BY <1>2
<1>7. QED
  BY <1>2, <1>3, <1>5, <1>6 DEF LedgerExplainsBalance

\* An empty ledger explains an empty balance.
LEMMA AccountedInit == Init => Accounted
<1> SUFFICES ASSUME Init PROVE Accounted
  OBVIOUS
<1>1. LockDiscipline /\ LedgerExplainsBalance
  BY SessionAssumption DEF Init, LockDiscipline, LedgerExplainsBalance, Locked
<1>2. QED
  BY <1>1, TypeInit DEF Accounted

\* No step takes the lock from its holder or a row from the account.
LEMMA AccountedStep == Accounted /\ [Next]_vars => Accounted'
<1> SUFFICES ASSUME Accounted, [Next]_vars PROVE LockDiscipline' /\ LedgerExplainsBalance'
  BY TypeStep DEF Accounted
<1>a. /\ TypeOK /\ OrderLocals /\ LockDiscipline /\ LedgerExplainsBalance
      /\ settings \in Settings
      /\ \A s \in Session : loc[s].amount \in Int
  <2>1. /\ TypeOK /\ OrderLocals /\ LockDiscipline /\ LedgerExplainsBalance
        /\ settings \in Settings
        /\ \A s \in Session : loc[s] \in Local
    BY DEF Accounted, Typed, TypeOK
  <2>2. QED
    BY <2>1 DEF Local
<1>1. CASE UNCHANGED vars
  BY <1>1, <1>a DEF vars, LockDiscipline, LedgerExplainsBalance
<1>2. ASSUME NEW s \in Session, Continue(s)
      PROVE  LockDiscipline' /\ LedgerExplainsBalance'
  <2> USE <1>a DEF Label, Locked
  <2>1. CASE SettleNothing(s)
    BY <2>1, ReturnStep, OutsideStep DEF SettleNothing
  <2>2. ASSUME NEW c \in Costs, SettleBegin(s, c)
        PROVE  LockDiscipline' /\ LedgerExplainsBalance'
    <3>1. \E l \in {"deduct_wait", "idle"} : Goto(s, l)
      BY <2>2 DEF SettleBegin, Return
    <3>2. Typed'
      BY TypeStep DEF Accounted
    <3>3. PICK l \in {"deduct_wait", "idle"} : Step(s, l)
      <4>1. \A t \in Session \ {s} : loc'[t] = loc[t]
        BY <2>2 DEF SettleBegin, Return, TypeOK
      <4>2. QED
        BY <3>1, <3>2, <4>1 DEF Step, Goto, Typed, TypeOK
    <3>4. QED
      BY <2>2, <3>3, OutsideStep DEF SettleBegin
  <2>3. CASE DeductLock(s)
    BY <2>3, EnterStep DEF DeductLock
  <2>4. CASE DeductRejected(s)
    BY <2>4, ReturnStep, OutsideStep DEF DeductRejected
  <2>5. CASE DeductCommit(s)
    BY <2>5, ReturnStep, LeaveStep DEF DeductCommit
  <2>6. CASE CreateOrder(s)
    BY <2>6, StayStep, OutsideStep DEF CreateOrder
  <2>7. CASE PaymentCreated(s)
    BY <2>7, ReturnStep, OutsideStep DEF PaymentCreated
  <2>8. CASE PaymentFailed(s)
    BY <2>8, ReturnStep, OutsideStep DEF PaymentFailed
  <2>9. CASE TopupCheck(s)
    BY <2>9, StayStep, OutsideStep DEF TopupCheck
  <2>10. CASE TopupLock(s)
    BY <2>10, EnterStep DEF TopupLock
  <2>11. CASE TopupCommit(s)
    <3>1. CASE loc[s].order = NoOrder
      BY <2>11, <3>1, ReturnStep, LeaveStep DEF TopupCommit
    <3>2. CASE loc[s].order # NoOrder
      BY <2>11, <3>2, StayStep, LeaveStep DEF TopupCommit
    <3>3. QED
      BY <3>1, <3>2
  <2>12. CASE TopupConflict(s)
    BY <2>12, ReturnStep, RollbackStep DEF TopupConflict
  <2>13. CASE MarkDelivered(s)
    BY <2>13, ReturnStep, OutsideStep DEF MarkDelivered
  <2>14. CASE RefundLock(s)
    <3>1. PICK i \in 1..Len(ledger) : LockAndAdd(s, -ledger[i].amount)
      BY <2>14 DEF RefundLock
    <3>2. -ledger[i].amount \in Int
      <4>1. ledger[i] \in Row
        BY DEF TypeOK
      <4>2. QED
        BY <4>1 DEF Row
    <3>3. QED
      BY <2>14, <3>1, <3>2, EnterStep DEF RefundLock
  <2>15. CASE RefundCommit(s)
    BY <2>15, StayStep, LeaveStep DEF RefundCommit
  <2>16. CASE RefundConflict(s)
    BY <2>16, StayStep, RollbackStep DEF RefundConflict
  <2>17. CASE MarkRefunded(s)
    BY <2>17, ReturnStep, OutsideStep DEF MarkRefunded
  <2>18. CASE EditWrite(s)
    <3>1. settings'.balance = settings.balance
      BY <2>18 DEF EditWrite, Settings
    <3>2. QED
      BY <2>18, <3>1, ReturnStep, OutsideStep DEF EditWrite
  <2>19. QED
    BY <1>2, <2>1, <2>2, <2>3, <2>4, <2>5, <2>6, <2>7, <2>8, <2>9, <2>10, <2>11,
       <2>12, <2>13, <2>14, <2>15, <2>16, <2>17, <2>18 DEF Continue
<1>3. ASSUME NEW s \in Session, Arrive(s)
      PROVE  LockDiscipline' /\ LedgerExplainsBalance'
  <2>1. /\ pc[s] = "idle"
        /\ UNCHANGED <<settings, ledger, holder>>
        /\ \E l \in {"serving", "insert", "topup_check", "refund_wait", "topup_wait",
                     "edit_wait"} : Goto(s, l)
        /\ \A t \in Session \ {s} : loc'[t] = loc[t]
    BY <1>3, <1>a DEF Arrive, GuardAdmits, TopupWithinCap, DeliveryWebhook, RefundWebhook,
                      DirectTopup, EditRead, TypeOK
  <2>2. Typed'
    BY TypeStep DEF Accounted
  <2>3. PICK l \in Label \ Locked : Step(s, l)
    BY <2>1, <2>2, <1>a DEF Step, Goto, Typed, TypeOK, Label, Locked
  <2>4. QED
    BY <2>1, <2>3, OutsideStep DEF Locked
<1>4. ASSUME NEW s \in Session, Abort(s)
      PROVE  LockDiscipline' /\ LedgerExplainsBalance'
  <2>1. Step(s, "idle")
    BY <1>4, <1>a, ReturnStep DEF Abort
  <2>2. CASE pc[s] \in Locked
    <3>1. holder = s
      BY <2>2, <1>a DEF LockDiscipline
    <3>2. QED
      BY <1>4, <2>1, <2>2, <3>1, RollbackStep DEF Abort, Label, Locked
  <2>3. CASE pc[s] \notin Locked
    <3>1. holder # s
      BY <2>3, <1>a DEF LockDiscipline
    <3>2. QED
      BY <1>4, <2>1, <2>3, <3>1, OutsideStep DEF Abort, Label, Locked
  <2>4. QED
    BY <2>2, <2>3
<1>5. ASSUME NEW o \in Order,
             CancelOrder(o) \/ \E a \in {"short", "full"} : CustomerPays(o, a)
      PROVE  LockDiscipline' /\ LedgerExplainsBalance'
  BY <1>5, <1>a DEF CancelOrder, CustomerPays, LockDiscipline, LedgerExplainsBalance
<1>6. ASSUME NEW b \in BOOLEAN, SetBypass(b)
      PROVE  LockDiscipline' /\ LedgerExplainsBalance'
  <2>1. settings'.balance = settings.balance
    BY <1>6, <1>a DEF SetBypass, Settings
  <2>2. QED
    BY <1>6, <2>1, <1>a DEF SetBypass, LockDiscipline, LedgerExplainsBalance
<1>7. QED
  BY <1>1, <1>2, <1>3, <1>4, <1>5, <1>6 DEF Next, Quiescent

\* No interleaving of debits, top-ups, refunds, edits and crashes ever loses an
\* update of the balance: the ledger accounts for all of it.
THEOREM LedgerCorrect == Spec => []LedgerExplainsBalance
<1>1. Accounted => LedgerExplainsBalance
  BY DEF Accounted
<1>2. QED
  BY <1>1, AccountedInit, AccountedStep, PTL DEF Spec
----------------------------------------------------------------------------
(* Money and status agree.  What every session relies on is stated over    *)
(* the sets of orders the ledger has credited and reversed, which only     *)
(* grow, and over statuses that are final once they are delivered.         *)

Final == {"delivered", "refunded"}

\* What one session relies on.
Relies(s) ==
  /\ pc[s] = "insert" => status[loc[s].order] = "none"
  /\ pc[s] = "payment" => /\ payment[loc[s].order] = "none"
                          /\ status[loc[s].order] \in {"pending", "cancelled"}
  /\ pc[s] \in {"topup_check", "topup_wait", "topup_ins", "mark_delivered"}
       /\ loc[s].order # NoOrder
       => payment[loc[s].order] = "full"
  /\ pc[s] \in {"mark_delivered", "refund_wait", "refund_ins", "mark_refunded"}
       => loc[s].order \in Credited
  /\ pc[s] \in {"refund_wait", "refund_ins", "mark_refunded"}
       => status[loc[s].order] \in Final
  /\ pc[s] \in {"deduct_wait", "deduct_ins"} => -loc[s].amount \in Costs
  /\ pc[s] = "deduct_ins"
       => settings.bypass \/ (settings.enabled /\ settings.balance >= -loc[s].amount)
  /\ pc[s] \in {"topup_check", "topup_wait", "topup_ins"}
       => IF loc[s].order = NoOrder THEN loc[s].amount \in Grants
                                    ELSE loc[s].amount = Credits[loc[s].order]
  /\ pc[s] = "refund_ins" => loc[s].amount = -Credits[loc[s].order]

\* Two sessions never create the same order.
OneCreator ==
  \A s, t \in Session :
    /\ pc[s] \in {"insert", "payment"} /\ pc[t] \in {"insert", "payment"}
    /\ loc[s].order = loc[t].order
    => s = t

\* What holds of every order.
Backed ==
  \A o \in Order : /\ status[o] = "none" => payment[o] = "none"
                   /\ o \in Credited => payment[o] = "full"
                   /\ status[o] \in Final => o \in Credited
                   /\ o \in Reversed => status[o] \in Final

\* What holds of the rows of the ledger.
RowAmounts ==
  \A i \in 1..Len(ledger) :
    ledger[i].kind = "topup" /\ ledger[i].order # NoOrder
      => ledger[i].amount = Credits[ledger[i].order]

Relying == \A s \in Session : Relies(s)

Agreed == Backed /\ OneCreator /\ Relying

\* Without a new row the sets stay.
LEMMA RowsKept ==
  ASSUME UNCHANGED ledger
  PROVE  Credited' = Credited /\ Reversed' = Reversed
  BY DEF Credited, Reversed, HasRow

\* A commit adds the order of its row to the set of its kind.
LEMMA RowAdded ==
  ASSUME TypeOK, NEW s \in Session, NEW kind \in {"topup", "deduction", "refund"},
         CommitRow(s, kind)
  PROVE  /\ \A o \in Order : o \in Credited' <=> o \in Credited \/ (kind = "topup" /\ o = loc[s].order)
         /\ \A o \in Order : o \in Reversed' <=> o \in Reversed \/ (kind = "refund" /\ o = loc[s].order)
<1> DEFINE n == Len(ledger)
<1>1. /\ n \in Nat /\ Len(ledger') = n + 1
      /\ \A i \in 1..n : ledger'[i] = ledger[i]
      /\ ledger'[n + 1].kind = kind /\ ledger'[n + 1].order = loc[s].order
  <2>1. /\ n \in Nat
        /\ Len(ledger') = n + 1
        /\ \A i \in 1..n : ledger'[i] = ledger[i]
        /\ ledger'[n + 1] = [kind |-> kind, amount |-> loc[s].amount,
                             after |-> loc[s].after, order |-> loc[s].order]
    BY CommitStep
  <2>2. QED
    BY <2>1
<1>2. \A o \in Order : o \in Credited <=> \E i \in 1..n : ledger[i].kind = "topup" /\ ledger[i].order = o
  BY DEF Credited, HasRow
<1>3. \A o \in Order : o \in Reversed <=> \E i \in 1..n : ledger[i].kind = "refund" /\ ledger[i].order = o
  BY DEF Reversed, HasRow
<1>4. \A o \in Order : o \in Credited' <=>
        \E i \in 1..Len(ledger') : ledger'[i].kind = "topup" /\ ledger'[i].order = o
  BY DEF Credited, HasRow
<1>5. \A o \in Order : o \in Reversed' <=>
        \E i \in 1..Len(ledger') : ledger'[i].kind = "refund" /\ ledger'[i].order = o
  BY DEF Reversed, HasRow
<1> HIDE DEF n
<1>6. \A i \in 1..Len(ledger') : i \in 1..n \/ i = n + 1
  BY <1>1
<1>7. 1..n \subseteq 1..Len(ledger') /\ n + 1 \in 1..Len(ledger')
  BY <1>1
<1>8. QED
  BY <1>1, <1>2, <1>3, <1>4, <1>5, <1>6, <1>7

\* The named parts are those of IInv.
LEMMA Parts ==
  IInv <=> Accounted /\ Agreed /\ RowAmounts /\ AtMostOncePerOrder /\ Snapshots
<1>1. \A k \in {"topup", "refund"}, o \in Order :
        HasRow(k, o) <=> o \in (IF k = "topup" THEN Credited ELSE Reversed)
  BY DEF Credited, Reversed
<1>2. StatusBacked <=>
        \A o \in Order : /\ o \in Credited => payment[o] = "full"
                         /\ status[o] \in Final => o \in Credited
                         /\ o \in Reversed => status[o] \in Final
  BY DEF StatusBacked, Final, Credited, Reversed
<1>3. Creating /\ InProgress /\ Amounts /\ StatusBacked <=> Agreed /\ RowAmounts
  BY <1>2 DEF Creating, InProgress, Amounts, Agreed, Relying, Relies, OneCreator, Backed,
              RowAmounts, Final
<1>4. QED
  BY <1>3 DEF IInv, Accounted, Typed

\* A step of s keeps the agreement: s establishes what it relies on next, and
\* no order moves in a way another session does not expect.
LEMMA AgreedSession ==
  ASSUME Accounted, Agreed, NEW s \in Session, NEW l \in Label, Step(s, l),
         Relies(s)', Backed',
         settings' = settings \/ holder \in {NoSession, s},
         l \in {"insert", "payment"} =>
           \A t \in Session \ {s} : ~(pc[t] \in {"insert", "payment"}
                                        /\ loc[t].order = loc'[s].order),
         \A o \in Credited : o \in Credited',
         \A o \in Order : /\ payment[o] = "full" => payment'[o] = "full"
                          /\ status[o] \in Final => status'[o] \in Final,
         \A t \in Session \ {s} :
           pc[t] \in {"insert", "payment"} => /\ payment'[loc[t].order] = payment[loc[t].order]
                                              /\ status'[loc[t].order] = status[loc[t].order]
  PROVE  Agreed'
<1>1. OneCreator'
  BY DEF Agreed, OneCreator, Step
<1>2. ASSUME NEW t \in Session \ {s} PROVE Relies(t)'
  <2>1. /\ Relies(t) /\ pc'[t] = pc[t] /\ loc'[t] = loc[t]
        /\ loc[t].order \in Order \cup {NoOrder}
    BY DEF Agreed, Relying, Step, Accounted, Typed, TypeOK, Local
  <2>2. /\ pc[t] \in {"topup_check", "mark_delivered", "refund_wait", "refund_ins",
                      "mark_refunded", "insert", "payment"} => loc[t].order \in Order
        /\ pc[t] = "deduct_ins" => settings' = settings
    BY SessionAssumption DEF Accounted, Typed, OrderLocals, LockDiscipline, Locked
  <2>3. QED
    BY <2>1, <2>2 DEF Relies, Label
<1>3. Relying'
  BY <1>2 DEF Relying
<1>4. QED
  BY <1>1, <1>3 DEF Agreed

\* No step of any session, crash, cancellation or payment breaks the agreement.
LEMMA AgreedStep == IInv /\ [Next]_vars => Agreed'
<1> SUFFICES ASSUME IInv, [Next]_vars PROVE Agreed'
  OBVIOUS
<1>a. Accounted /\ Agreed /\ RowAmounts /\ TypeOK
  BY Parts DEF Accounted, Typed
<1>b. /\ Backed /\ OneCreator
      /\ \A s \in Session : Relies(s) /\ loc[s] \in Local /\ pc[s] \in Label
                            /\ loc[s].order \in Order \cup {NoOrder} /\ loc[s].amount \in Int
      /\ \A s \in Session :
           pc[s] \in {"topup_check", "mark_delivered", "refund_wait", "refund_ins",
                      "mark_refunded", "insert", "payment"} => loc[s].order \in Order
      /\ \A o \in Order : o \in Credited => Credits[o] \in Nat
  <2>1. \A s \in Session : loc[s] \in Local
    BY <1>a DEF TypeOK
  <2>2. QED
    BY <1>a, <2>1, CreditsAssumption
       DEF Agreed, Relying, Accounted, Typed, OrderLocals, TypeOK, Local
<1>1. CASE UNCHANGED vars
  BY <1>1, <1>a, RowsKept DEF vars, Agreed, Backed, OneCreator, Relying, Relies
\* A step that touches neither the ledger nor an order.
<1>c. ASSUME NEW s \in Session, NEW l \in Label, Step(s, l),
             UNCHANGED <<ledger, status, payment>>,
             settings' = settings \/ holder \in {NoSession, s},
             Relies(s)', l \notin {"insert", "payment"}
      PROVE  Agreed'
  <2>1. Credited' = Credited /\ Reversed' = Reversed
    BY <1>c, RowsKept
  <2>2. Backed'
    BY <1>b, <1>c, <2>1 DEF Backed
  <2>3. QED
    BY <1>a, <1>c, <2>1, <2>2, AgreedSession
\* The idle session relies on nothing.
<1>d. ASSUME NEW s \in Session, Step(s, "idle") PROVE Relies(s)'
  BY <1>d DEF Step, Relies
<1>2. ASSUME NEW s \in Session, Continue(s) PROVE Agreed'
  <2>1. CASE SettleNothing(s)
    BY <1>a, <1>c, <1>d, <2>1, ReturnStep DEF SettleNothing, Label
  <2>2. ASSUME NEW c \in Costs, SettleBegin(s, c) PROVE Agreed'
    <3>1. CASE Eligible(c, Len(ledger))
      <4> DEFINE q == [loc[s] EXCEPT !.amount = -c]
                 r == [q EXCEPT !.seen = Len(ledger)]
      <4>1. q \in Local /\ q.order = loc[s].order /\ q.amount = -c
        <5>1. -c \in Int
          BY AmountAssumption
        <5>2. loc[s] \in Local
          BY <1>b
        <5>3. QED
          BY ONLY <5>1, <5>2, SetField
      <4>2. r \in Local /\ r.order = loc[s].order /\ r.amount = -c
        <5> HIDE DEF q
        <5>1. Len(ledger) \in Nat
          BY <1>a DEF TypeOK
        <5>2. QED
          BY <4>1, <5>1, SetField
      <4>3. loc' = [loc EXCEPT ![s] = r]
        BY <2>2, <3>1 DEF SettleBegin
      <4> HIDE DEF r
      <4>4. Step(s, "deduct_wait") /\ loc'[s] = r
        BY <1>a, <2>2, <3>1, <4>2, <4>3, LocStep DEF SettleBegin, Label
      <4>5. Relies(s)'
        BY <4>2, <4>4, AmountAssumption DEF Relies, Step
      <4>6. QED
        BY <1>c, <2>2, <4>4, <4>5 DEF SettleBegin, Label
    <3>2. CASE ~Eligible(c, Len(ledger))
      BY <1>a, <1>c, <1>d, <2>2, <3>2, ReturnStep DEF SettleBegin, Label
    <3>3. QED
      BY <3>1, <3>2
  <2>3. CASE DeductLock(s)
    <3>1. /\ Step(s, "deduct_ins") /\ loc'[s].amount = loc[s].amount
          /\ holder = NoSession
      BY <1>a, <1>b, <2>3, LockStep DEF DeductLock, Label, Locked
    <3>2. Relies(s)'
      BY <1>b, <2>3, <3>1 DEF DeductLock, Eligible, Relies, Step
    <3>3. QED
      BY <1>c, <2>3, <3>1, <3>2 DEF DeductLock, Label, Locked
  <2>4. CASE DeductRejected(s)
    BY <1>a, <1>c, <1>d, <2>4, ReturnStep DEF DeductRejected, Label
  <2>5. CASE DeductCommit(s)
    <3>1. Step(s, "idle") /\ Relies(s)'
      BY <1>a, <1>d, <2>5, ReturnStep DEF DeductCommit
    <3>2. \A o \in Order : /\ o \in Credited' <=> o \in Credited
                           /\ o \in Reversed' <=> o \in Reversed
      BY <1>a, <2>5, RowAdded DEF DeductCommit
    <3>3. Backed'
      BY <1>b, <2>5, <3>2 DEF DeductCommit, Backed
    <3>4. holder = s
      BY <1>a, <2>5 DEF DeductCommit, Accounted, LockDiscipline, Locked
    <3>5. QED
      BY <1>a, <1>b, <2>5, <3>1, <3>2, <3>3, <3>4, AgreedSession
         DEF DeductCommit, Label, Credited
  <2>6. CASE CreateOrder(s)
    <3> DEFINE o == loc[s].order
    <3>1. /\ o \in Order /\ Step(s, "payment") /\ loc'[s] = loc[s]
          /\ status[o] = "none" /\ payment[o] = "none"
          /\ Credited' = Credited /\ Reversed' = Reversed
      BY <1>a, <1>b, <2>6, StayStep, RowsKept DEF CreateOrder, Label, Relies, Backed
    <3>2. /\ status'[o] = "pending" /\ payment' = payment
          /\ \A p \in Order \ {o} : status'[p] = status[p]
      BY <1>a, <2>6, <3>1, StatusStep DEF CreateOrder, OrderStatus
    <3>3. Relies(s)' /\ Backed'
      BY <1>b, <3>1, <3>2 DEF Relies, Step, Backed, Final
    <3>4. \A t \in Session \ {s} : pc[t] \in {"insert", "payment"} => loc[t].order \in Order \ {o}
      BY <1>b, <2>6 DEF OneCreator, CreateOrder
    <3> HIDE DEF o
    <3>5. QED
      BY <1>a, <2>6, <3>1, <3>2, <3>3, <3>4, AgreedSession DEF CreateOrder, Label, Final, o
  <2>7. CASE PaymentCreated(s)
    <3> DEFINE o == loc[s].order
    <3>1. /\ o \in Order /\ Step(s, "idle")
          /\ status[o] \in {"pending", "cancelled"} /\ payment[o] = "none"
          /\ Credited' = Credited /\ Reversed' = Reversed
      BY <1>a, <1>b, <2>7, ReturnStep, RowsKept DEF PaymentCreated, Label, Relies, Backed
    <3>2. /\ status'[o] = "paying" /\ payment'[o] = "open"
          /\ \A p \in Order \ {o} : status'[p] = status[p] /\ payment'[p] = payment[p]
      <4>1. status'[o] = "paying" /\ \A p \in Order \ {o} : status'[p] = status[p]
        BY <1>a, <2>7, <3>1, StatusStep DEF PaymentCreated, OrderStatus
      <4>2. payment'[o] = "open" /\ \A p \in Order \ {o} : payment'[p] = payment[p]
        BY <1>a, <2>7, <3>1, PaymentStep DEF PaymentCreated, Payment
      <4>3. QED
        BY <4>1, <4>2
    <3>3. Relies(s)' /\ Backed'
      BY <1>b, <1>d, <3>1, <3>2 DEF Backed, Final
    <3>4. \A t \in Session \ {s} : pc[t] \in {"insert", "payment"} => loc[t].order \in Order \ {o}
      BY <1>b, <2>7 DEF OneCreator, PaymentCreated
    <3> HIDE DEF o
    <3>5. QED
      BY <1>a, <2>7, <3>1, <3>2, <3>3, <3>4, AgreedSession DEF PaymentCreated, Label, Final
  <2>8. CASE PaymentFailed(s)
    <3> DEFINE o == loc[s].order
    <3>1. /\ o \in Order /\ Step(s, "idle")
          /\ status[o] \in {"pending", "cancelled"} /\ payment[o] = "none"
          /\ Credited' = Credited /\ Reversed' = Reversed
      BY <1>a, <1>b, <2>8, ReturnStep, RowsKept DEF PaymentFailed, Label, Relies, Backed
    <3>2. /\ status'[o] = "failed" /\ payment' = payment
          /\ \A p \in Order \ {o} : status'[p] = status[p]
      BY <1>a, <2>8, <3>1, StatusStep DEF PaymentFailed, OrderStatus
    <3>3. Relies(s)' /\ Backed'
      BY <1>b, <1>d, <3>1, <3>2 DEF Backed, Final
    <3>4. \A t \in Session \ {s} : pc[t] \in {"insert", "payment"} => loc[t].order \in Order \ {o}
      BY <1>b, <2>8 DEF OneCreator, PaymentFailed
    <3> HIDE DEF o
    <3>5. QED
      BY <1>a, <2>8, <3>1, <3>2, <3>3, <3>4, AgreedSession DEF PaymentFailed, Label, Final
  <2>9. CASE TopupCheck(s)
    <3>1. /\ loc[s].order \in Order
          /\ \E l \in {"mark_delivered", "topup_wait"} :
               /\ Step(s, l) /\ loc'[s] = loc[s]
               /\ l = "mark_delivered" => loc[s].order \in Credited
      BY <1>a, <1>b, <2>9, StayStep DEF TopupCheck, Label, Credited
    <3>2. PICK l \in {"mark_delivered", "topup_wait"} :
               /\ Step(s, l) /\ loc'[s] = loc[s]
               /\ l = "mark_delivered" => loc[s].order \in Credited
      BY <3>1
    <3>3. Credited' = Credited /\ UNCHANGED <<status, payment, settings>>
      BY <2>9, RowsKept DEF TopupCheck
    <3>4. Relies(s)'
      BY <1>b, <2>9, <3>1, <3>2, <3>3 DEF TopupCheck, Relies, Step
    <3>5. QED
      BY <1>c, <2>9, <3>2, <3>4 DEF TopupCheck, Label
  <2>10. CASE TopupLock(s)
    <3>1. /\ Step(s, "topup_ins") /\ loc'[s].amount = loc[s].amount
          /\ loc'[s].order = loc[s].order
      BY <1>a, <1>b, <2>10, LockStep DEF TopupLock, Label, Locked
    <3>2. Relies(s)'
      BY <1>b, <2>10, <3>1 DEF TopupLock, Relies, Step
    <3>3. QED
      BY <1>c, <2>10, <3>1, <3>2 DEF TopupLock, Label, Locked
  <2>11. CASE TopupCommit(s)
    <3>1. /\ \A o \in Order : o \in Credited' <=> o \in Credited \/ o = loc[s].order
          /\ \A o \in Order : o \in Reversed' <=> o \in Reversed
      BY <1>a, <2>11, RowAdded DEF TopupCommit
    <3>2. holder = s
      BY <1>a, <2>11 DEF TopupCommit, Accounted, LockDiscipline, Locked
    <3>3. UNCHANGED <<status, payment>>
      BY <2>11 DEF TopupCommit
    <3>4. Backed'
      BY <1>b, <2>11, <3>1, <3>3, OrderAssumption DEF TopupCommit, Backed, Relies
    <3>5. \E l \in {"idle", "mark_delivered"} : Step(s, l) /\ Relies(s)'
      <4>1. CASE loc[s].order = NoOrder
        BY <1>a, <1>d, <2>11, <4>1, ReturnStep DEF TopupCommit
      <4>2. CASE loc[s].order # NoOrder
        <5>1. Step(s, "mark_delivered") /\ loc'[s] = loc[s] /\ loc[s].order \in Order
          BY <1>a, <1>b, <2>11, <4>2, StayStep DEF TopupCommit, Label
        <5>2. Relies(s)'
          BY <1>b, <2>11, <3>1, <3>3, <4>2, <5>1 DEF TopupCommit, Relies, Step
        <5>3. QED
          BY <5>1, <5>2
      <4>3. QED
        BY <4>1, <4>2
    <3>6. QED
      BY <1>a, <1>b, <3>1, <3>2, <3>3, <3>4, <3>5, AgreedSession DEF Label, Credited
  <2>12. CASE TopupConflict(s)
    BY <1>a, <1>c, <1>d, <2>12, ReturnStep DEF TopupConflict, Label
  <2>13. CASE MarkDelivered(s)
    <3> DEFINE o == loc[s].order
    <3>1. /\ o \in Order /\ Step(s, "idle") /\ o \in Credited
          /\ payment[o] = "full" /\ status[o] # "none"
          /\ Credited' = Credited /\ Reversed' = Reversed
      BY <1>a, <1>b, <2>13, ReturnStep, RowsKept DEF MarkDelivered, Label, Relies, Backed
    <3>2. /\ status'[o] = "delivered" /\ payment' = payment
          /\ \A p \in Order \ {o} : status'[p] = status[p]
      BY <1>a, <2>13, <3>1, StatusStep DEF MarkDelivered, OrderStatus
    <3>3. Relies(s)' /\ Backed'
      BY <1>b, <1>d, <3>1, <3>2 DEF Backed, Final
    <3>4. \A t \in Session \ {s} : pc[t] \in {"insert", "payment"} => loc[t].order \in Order \ {o}
      BY <1>b, <3>1 DEF Relies
    <3> HIDE DEF o
    <3>5. QED
      BY <1>a, <2>13, <3>1, <3>2, <3>3, <3>4, AgreedSession DEF MarkDelivered, Label, Final
  <2>14. CASE RefundLock(s)
    <3>1. PICK i \in 1..Len(ledger) : /\ ledger[i].kind = "topup"
                                      /\ ledger[i].order = loc[s].order
                                      /\ LockAndAdd(s, -ledger[i].amount)
      BY <2>14 DEF RefundLock
    <3>2. /\ loc[s].order \in Order
          /\ ledger[i].amount = Credits[loc[s].order] /\ ledger[i].amount \in Int
      BY <1>a, <1>b, <2>14, <3>1, OrderAssumption, CreditsAssumption DEF RefundLock, RowAmounts
    <3>3. /\ Step(s, "refund_ins") /\ loc'[s].order = loc[s].order
          /\ loc'[s].amount = -Credits[loc[s].order]
      BY <1>a, <2>14, <3>1, <3>2, LockStep DEF RefundLock, Label, Locked
    <3>4. Credited' = Credited /\ UNCHANGED status
      BY <2>14, RowsKept DEF RefundLock
    <3>5. Relies(s)'
      BY <1>b, <2>14, <3>3, <3>4 DEF RefundLock, Relies, Step
    <3>6. QED
      BY <1>c, <2>14, <3>3, <3>5 DEF RefundLock, Label, Locked
  <2>15. CASE RefundCommit(s)
    <3>1. /\ \A o \in Order : o \in Credited' <=> o \in Credited
          /\ \A o \in Order : o \in Reversed' <=> o \in Reversed \/ o = loc[s].order
      BY <1>a, <2>15, RowAdded DEF RefundCommit
    <3>2. holder = s
      BY <1>a, <2>15 DEF RefundCommit, Accounted, LockDiscipline, Locked
    <3>3. /\ UNCHANGED <<status, payment>>
          /\ Step(s, "mark_refunded") /\ loc'[s] = loc[s] /\ loc[s].order \in Order
      BY <1>a, <1>b, <2>15, StayStep DEF RefundCommit, Label
    <3>4. Backed' /\ Relies(s)'
      BY <1>b, <2>15, <3>1, <3>3 DEF RefundCommit, Backed, Relies, Step
    <3>5. QED
      BY <1>a, <1>b, <3>1, <3>2, <3>3, <3>4, AgreedSession DEF Label, Credited
  <2>16. CASE RefundConflict(s)
    <3>1. Step(s, "mark_refunded") /\ loc'[s] = loc[s] /\ loc[s].order \in Order
      BY <1>a, <1>b, <2>16, StayStep DEF RefundConflict, Label
    <3>2. Credited' = Credited /\ UNCHANGED status
      BY <2>16, RowsKept DEF RefundConflict
    <3>3. Relies(s)'
      BY <1>b, <2>16, <3>1, <3>2 DEF RefundConflict, Relies, Step
    <3>4. QED
      BY <1>c, <2>16, <3>1, <3>3 DEF RefundConflict, Label
  <2>17. CASE MarkRefunded(s)
    <3> DEFINE o == loc[s].order
    <3>1. /\ o \in Order /\ Step(s, "idle") /\ o \in Credited
          /\ payment[o] = "full" /\ status[o] \in Final
          /\ Credited' = Credited /\ Reversed' = Reversed
      BY <1>a, <1>b, <2>17, ReturnStep, RowsKept DEF MarkRefunded, Label, Relies, Backed
    <3>2. /\ status'[o] = "refunded" /\ payment' = payment
          /\ \A p \in Order \ {o} : status'[p] = status[p]
      BY <1>a, <2>17, <3>1, StatusStep DEF MarkRefunded, OrderStatus
    <3>3. Relies(s)' /\ Backed'
      BY <1>b, <1>d, <3>1, <3>2 DEF Backed, Final
    <3>4. \A t \in Session \ {s} : pc[t] \in {"insert", "payment"} => loc[t].order \in Order \ {o}
      BY <1>b, <3>1 DEF Relies, Final
    <3> HIDE DEF o
    <3>5. QED
      BY <1>a, <2>17, <3>1, <3>2, <3>3, <3>4, AgreedSession DEF MarkRefunded, Label, Final
  <2>18. CASE EditWrite(s)
    BY <1>a, <1>c, <1>d, <2>18, ReturnStep DEF EditWrite, Label
  <2>19. QED
    BY <1>2, <2>1, <2>2, <2>3, <2>4, <2>5, <2>6, <2>7, <2>8, <2>9, <2>10, <2>11,
       <2>12, <2>13, <2>14, <2>15, <2>16, <2>17, <2>18 DEF Continue
<1>3. ASSUME NEW s \in Session, Arrive(s) PROVE Agreed'
  <2>1. CASE GuardAdmits(s)
    <3>1. Step(s, "serving")
      BY <1>a, <2>1, StayStep DEF GuardAdmits, Label
    <3>2. QED
      BY <1>c, <2>1, <3>1 DEF GuardAdmits, Label, Relies, Step
  <2>2. ASSUME NEW o \in Order, TopupWithinCap(s, o) PROVE Agreed'
    <3> DEFINE r == [loc[s] EXCEPT !.order = o]
    <3>1. r \in Local /\ r.order = o
      BY <1>b, SetField
    <3>2. Goto(s, "insert") /\ loc' = [loc EXCEPT ![s] = r]
      BY <2>2 DEF TopupWithinCap
    <3> HIDE DEF r
    <3>3. Step(s, "insert") /\ loc'[s].order = o
      BY <1>a, <3>1, <3>2, LocStep DEF Label
    <3>4. /\ Credited' = Credited /\ Reversed' = Reversed
          /\ UNCHANGED <<status, payment, settings>> /\ status[o] = "none"
      BY <2>2, RowsKept DEF TopupWithinCap
    <3>5. Backed' /\ Relies(s)'
      BY <1>b, <3>3, <3>4 DEF Backed, Relies, Step
    <3>6. \A t \in Session \ {s} : ~(pc[t] \in {"insert", "payment"} /\ loc[t].order = o)
      BY <1>b, <2>2 DEF TopupWithinCap, Relies
    <3>7. QED
      BY <1>a, <3>3, <3>4, <3>5, <3>6, AgreedSession DEF Label
  <2>3. ASSUME NEW o \in Order, DeliveryWebhook(s, o) PROVE Agreed'
    <3> DEFINE q == [loc[s] EXCEPT !.order = o]
               r == [q EXCEPT !.amount = Credits[o]]
    <3>1. q \in Local /\ q.order = o
      BY <1>b, SetField
    <3>2. r \in Local /\ r.order = o /\ r.amount = Credits[o]
      <4> HIDE DEF q
      <4>1. QED
        BY <3>1, CreditsAssumption, SetField
    <3>3. Goto(s, "topup_check") /\ loc' = [loc EXCEPT ![s] = r]
      BY <2>3 DEF DeliveryWebhook
    <3> HIDE DEF r
    <3>4. Step(s, "topup_check") /\ loc'[s].order = o /\ loc'[s].amount = Credits[o]
      BY <1>a, <3>2, <3>3, LocStep DEF Label
    <3>5. Relies(s)'
      BY <2>3, <3>4, OrderAssumption DEF DeliveryWebhook, Relies, Step
    <3>6. QED
      BY <1>c, <2>3, <3>4, <3>5 DEF DeliveryWebhook, Label
  <2>4. ASSUME NEW o \in Order, RefundWebhook(s, o) PROVE Agreed'
    <3> DEFINE r == [loc[s] EXCEPT !.order = o]
    <3>1. r \in Local /\ r.order = o
      BY <1>b, SetField
    <3>2. Goto(s, "refund_wait") /\ loc' = [loc EXCEPT ![s] = r]
      BY <2>4 DEF RefundWebhook
    <3> HIDE DEF r
    <3>3. Step(s, "refund_wait") /\ loc'[s].order = o
      BY <1>a, <3>1, <3>2, LocStep DEF Label
    <3>4. Credited' = Credited /\ UNCHANGED status /\ status[o] \in Final /\ o \in Credited
      BY <1>b, <2>4, RowsKept DEF RefundWebhook, Final, Backed
    <3>5. Relies(s)'
      BY <3>3, <3>4 DEF Relies, Step
    <3>6. QED
      BY <1>c, <2>4, <3>3, <3>5 DEF RefundWebhook, Label
  <2>5. ASSUME NEW a \in Grants, DirectTopup(s, a) PROVE Agreed'
    <3> DEFINE r == [loc[s] EXCEPT !.amount = a]
    <3>1. r \in Local /\ r.amount = a /\ r.order = NoOrder
      <4>1. loc[s] \in Local /\ loc[s].order = NoOrder /\ a \in Int
        BY <1>a, <1>b, <2>5, AmountAssumption DEF DirectTopup, Accounted, Typed, OrderLocals
      <4>2. QED
        BY ONLY <4>1, SetField
    <3>2. Goto(s, "topup_wait") /\ loc' = [loc EXCEPT ![s] = r]
      BY <2>5 DEF DirectTopup
    <3> HIDE DEF r
    <3>3. Step(s, "topup_wait") /\ loc'[s].order = NoOrder /\ loc'[s].amount = a
      BY <1>a, <3>1, <3>2, LocStep DEF Label
    <3>4. QED
      BY <1>c, <2>5, <3>3 DEF DirectTopup, Label, Relies, Step
  <2>6. ASSUME NEW e \in BOOLEAN, NEW n \in Limits, EditRead(s, e, n) PROVE Agreed'
    <3> DEFINE q == [loc[s] EXCEPT !.enabled = e]
               r == [q EXCEPT !.limit = n]
    <3>1. q \in Local
      BY <1>b, SetField
    <3>2. r \in Local
      <4> HIDE DEF q
      <4>1. QED
        BY <3>1, AmountAssumption, SetField
    <3>3. Goto(s, "edit_wait") /\ loc' = [loc EXCEPT ![s] = r]
      BY <2>6 DEF EditRead
    <3> HIDE DEF r
    <3>4. Step(s, "edit_wait")
      BY <1>a, <3>2, <3>3, LocStep DEF Label
    <3>5. QED
      BY <1>c, <2>6, <3>4 DEF EditRead, Label, Relies, Step
  <2>7. QED
    BY <1>3, <2>1, <2>2, <2>3, <2>4, <2>5, <2>6 DEF Arrive
<1>4. ASSUME NEW s \in Session, Abort(s) PROVE Agreed'
  BY <1>4, <1>a, <1>c, <1>d, ReturnStep DEF Abort, Label
\* A step of no session.
<1>e. ASSUME UNCHANGED <<ledger, pc, loc>>,
             settings' = settings \/ holder = NoSession,
             NEW o \in Order,
             \A p \in Order \ {o} : status'[p] = status[p] /\ payment'[p] = payment[p],
             payment[o] = "full" => payment'[o] = "full",
             status[o] \in Final => status'[o] \in Final,
             status'[o] = "none" => payment'[o] = "none",
             status'[o] \in Final => status[o] \in Final,
             \A s \in Session : pc[s] \in {"insert", "payment"} /\ loc[s].order = o =>
               /\ payment'[o] = payment[o]
               /\ status'[o] = status[o] \/ (pc[s] = "payment" /\ status'[o] = "cancelled")
      PROVE  Agreed'
  <2>1. Credited' = Credited /\ Reversed' = Reversed
    BY <1>e, RowsKept
  <2>2. Backed'
    BY <1>b, <1>e, <2>1 DEF Backed
  <2>3. OneCreator'
    BY <1>b, <1>e DEF OneCreator
  <2>4. ASSUME NEW s \in Session PROVE Relies(s)'
    <3>1. pc[s] = "deduct_ins" => settings' = settings
      BY <1>a, <1>e, SessionAssumption DEF Accounted, LockDiscipline, Locked
    <3>2. QED
      BY <1>b, <1>e, <2>1, <3>1 DEF Relies
  <2>5. QED
    BY <2>2, <2>3, <2>4 DEF Agreed, Relying
<1>5. ASSUME NEW o \in Order, CancelOrder(o) PROVE Agreed'
  <2>1. /\ status'[o] = "cancelled" /\ payment' = payment
        /\ \A p \in Order \ {o} : status'[p] = status[p]
    BY <1>a, <1>5, StatusStep DEF CancelOrder, OrderStatus
  <2>2. QED
    BY <1>b, <1>e, <1>5, <2>1 DEF CancelOrder, Final, Relies
<1>6. ASSUME NEW o \in Order, NEW a \in {"short", "full"}, CustomerPays(o, a) PROVE Agreed'
  <2>1. /\ payment'[o] = a /\ status' = status
        /\ \A p \in Order \ {o} : payment'[p] = payment[p]
    BY <1>a, <1>6, PaymentStep DEF CustomerPays, Payment
  <2>2. QED
    BY <1>b, <1>e, <1>6, <2>1 DEF CustomerPays, Final, Relies, Backed
<1>7. ASSUME NEW b \in BOOLEAN, SetBypass(b) PROVE Agreed'
  <2>1. Credited' = Credited /\ Reversed' = Reversed
    BY <1>7, RowsKept DEF SetBypass
  <2>2. \A s \in Session : pc[s] # "deduct_ins"
    BY <1>a, <1>7, SessionAssumption DEF SetBypass, Accounted, LockDiscipline, Locked
  <2>3. QED
    BY <1>b, <1>7, <2>1, <2>2 DEF SetBypass, Agreed, Relying, Relies, Backed, OneCreator
<1>8. QED
  BY <1>1, <1>2, <1>3, <1>4, <1>5, <1>6, <1>7 DEF Next, Quiescent

----------------------------------------------------------------------------
(* The ledger holds at most one row of a kind for an order, and a refund   *)
(* row takes back what the top-up row before it gave.                      *)

\* The row a commit appends keeps the ledger so, when the unique indexes let it
\* pass and its amount is the order's.
LEMMA CommitOnce ==
  ASSUME TypeOK, AtMostOncePerOrder, RowAmounts, NEW s \in Session,
         NEW kind \in {"topup", "deduction", "refund"}, CommitRow(s, kind),
         loc[s].order # NoOrder => ~HasRow(kind, loc[s].order),
         loc[s].order # NoOrder /\ kind = "topup" => loc[s].amount = Credits[loc[s].order],
         kind = "refund" => /\ loc[s].order \in Credited
                            /\ loc[s].amount = -Credits[loc[s].order]
  PROVE  AtMostOncePerOrder' /\ RowAmounts'
<1> DEFINE n == Len(ledger)
           once(f, i, j) == (f[j].order = f[i].order /\ f[j].kind = f[i].kind) => i = j
           backed(f, i) == f[i].kind = "refund" =>
                             \E k \in 1..(i-1) : /\ f[k].kind = "topup"
                                                 /\ f[k].order = f[i].order
                                                 /\ f[k].amount = -f[i].amount
<1>1. /\ n \in Nat /\ Len(ledger') = n + 1
      /\ \A i \in 1..n : ledger'[i] = ledger[i]
      /\ ledger'[n + 1].kind = kind /\ ledger'[n + 1].order = loc[s].order
      /\ ledger'[n + 1].amount = loc[s].amount
  <2>1. /\ n \in Nat
        /\ Len(ledger') = n + 1
        /\ \A i \in 1..n : ledger'[i] = ledger[i]
        /\ ledger'[n + 1] = [kind |-> kind, amount |-> loc[s].amount,
                             after |-> loc[s].after, order |-> loc[s].order]
    BY CommitStep
  <2>2. QED
    BY <2>1
<1>2. /\ \A i, j \in 1..n : ledger[i].order # NoOrder => once(ledger, i, j)
      /\ \A i \in 1..n : ledger[i].order # NoOrder => backed(ledger, i)
  BY DEF AtMostOncePerOrder
<1>3. loc[s].order # NoOrder =>
        \A i \in 1..n : ~(ledger[i].kind = kind /\ ledger[i].order = loc[s].order)
  BY DEF HasRow
<1>4. loc[s].order # NoOrder /\ kind = "refund" =>
        \E k \in 1..n : /\ ledger[k].kind = "topup" /\ ledger[k].order = loc[s].order
                        /\ ledger[k].amount = -loc[s].amount
  <2> SUFFICES ASSUME loc[s].order # NoOrder, kind = "refund"
               PROVE  \E k \in 1..n : /\ ledger[k].kind = "topup"
                                      /\ ledger[k].order = loc[s].order
                                      /\ ledger[k].amount = -loc[s].amount
    OBVIOUS
  <2>1. PICK k \in 1..n : ledger[k].kind = "topup" /\ ledger[k].order = loc[s].order
    BY DEF Credited, HasRow
  <2>2. ledger[k].amount = Credits[loc[s].order]
    BY <2>1 DEF RowAmounts
  <2>3. Credits[loc[s].order] \in Int
    BY CreditsAssumption DEF Credited
  <2>4. QED
    BY <2>1, <2>2, <2>3
<1>5. /\ \A i \in 1..Len(ledger') : i \in 1..n \/ i = n + 1
      /\ \A i \in 1..n : \A k \in 1..(i-1) : k \in 1..n
      /\ 1..((n + 1) - 1) = 1..n
  BY <1>1
<1>6. RowAmounts'
  BY <1>1, <1>5 DEF RowAmounts
<1> HIDE DEF n
<1>7. ASSUME NEW i \in 1..Len(ledger'), NEW j \in 1..Len(ledger'), ledger'[i].order # NoOrder
      PROVE  once(ledger', i, j)
  BY <1>1, <1>2, <1>3, <1>5, <1>7
<1>8. ASSUME NEW i \in 1..Len(ledger'), ledger'[i].order # NoOrder
      PROVE  backed(ledger', i)
  <2>1. CASE i \in 1..n
    <3>1. backed(ledger, i) /\ ledger'[i] = ledger[i]
      BY <1>1, <1>2, <1>8, <2>1
    <3>2. \A k \in 1..(i-1) : ledger'[k] = ledger[k]
      BY <1>1, <1>5, <2>1
    <3>3. QED
      BY <3>1, <3>2
  <2>2. CASE i = n + 1
    <3>1. \A k \in 1..n : ledger'[k] = ledger[k]
      BY <1>1
    <3>2. QED
      BY <1>1, <1>4, <1>5, <1>8, <2>2, <3>1
  <2>3. QED
    BY <1>5, <2>1, <2>2
<1>9. QED
  BY <1>6, <1>7, <1>8 DEF AtMostOncePerOrder

\* Only the three commits touch the ledger, and each meets CommitOnce.
LEMMA OnceStep == IInv /\ [Next]_vars => AtMostOncePerOrder' /\ RowAmounts'
<1> SUFFICES ASSUME IInv, [Next]_vars PROVE AtMostOncePerOrder' /\ RowAmounts'
  OBVIOUS
<1>a. /\ TypeOK /\ OrderLocals /\ AtMostOncePerOrder /\ RowAmounts
      /\ \A s \in Session : Relies(s)
  BY Parts DEF Accounted, Typed, Agreed, Relying
<1>1. CASE UNCHANGED ledger
  BY <1>1, <1>a DEF AtMostOncePerOrder, RowAmounts
<1>2. ASSUME NEW s \in Session, DeductCommit(s) PROVE AtMostOncePerOrder' /\ RowAmounts'
  BY <1>2, <1>a, CommitOnce DEF DeductCommit, OrderLocals
<1>3. ASSUME NEW s \in Session, TopupCommit(s) PROVE AtMostOncePerOrder' /\ RowAmounts'
  BY <1>3, <1>a, CommitOnce DEF TopupCommit, TopupUnique, Relies
<1>4. ASSUME NEW s \in Session, RefundCommit(s) PROVE AtMostOncePerOrder' /\ RowAmounts'
  BY <1>4, <1>a, CommitOnce DEF RefundCommit, Relies
<1>5. QED
  BY <1>1, <1>2, <1>3, <1>4
     DEF Next, vars, Quiescent, Continue, Arrive, Abort, SettleNothing, SettleBegin, DeductLock,
         DeductRejected, CreateOrder, PaymentCreated, PaymentFailed, TopupCheck, TopupLock,
         TopupConflict, MarkDelivered, RefundLock, RefundConflict, MarkRefunded, EditWrite,
         GuardAdmits, TopupWithinCap, DeliveryWebhook, RefundWebhook, DirectTopup, EditRead,
         CancelOrder, CustomerPays, SetBypass

----------------------------------------------------------------------------
(* Sums: how many units there are in all, so that what is known of finite  *)
(* sets tells how a sum changes.                                           *)

\* As many things as the values of f over S add up to.
Units(f, S) == UNION {{x} \X (1..f[x]) : x \in S}

\* The units of an element and of the others.
LEMMA UnitsOf ==
  ASSUME NEW f, NEW S, IsFiniteSet(S), \A x \in S : f[x] \in Nat
  PROVE  /\ IsFiniteSet(Units(f, S)) /\ Cardinality(Units(f, S)) \in Nat
         /\ Units(f, {}) = {}
         /\ \A x \in S : Cardinality(Units(f, S)) = f[x] + Cardinality(Units(f, S \ {x}))
<1>1. ASSUME NEW x \in S
      PROVE  IsFiniteSet({x} \X (1..f[x])) /\ Cardinality({x} \X (1..f[x])) = f[x]
  <2>1. IsFiniteSet(1..f[x]) /\ Cardinality(1..f[x]) = f[x]
    BY FS_Interval
  <2>2. IsFiniteSet({x}) /\ Cardinality({x}) = 1
    BY FS_Singleton
  <2>3. /\ IsFiniteSet({x} \X (1..f[x]))
        /\ Cardinality({x} \X (1..f[x])) = Cardinality({x}) * Cardinality(1..f[x])
    BY <2>1, <2>2, FS_Product, Zenon
  <2>4. QED
    BY <2>1, <2>2, <2>3
<1>2. ASSUME NEW T \in SUBSET S PROVE IsFiniteSet(Units(f, T))
  <2> DEFINE C == {{x} \X (1..f[x]) : x \in T}
             g == [x \in T |-> {x} \X (1..f[x])]
  <2>1. g \in Surjection(T, C)
    BY DEF Surjection
  <2>2. IsFiniteSet(T)
    BY FS_Subset
  <2>3. IsFiniteSet(C)
    BY <2>1, <2>2, FS_Surjection
  <2>4. \A c \in C : IsFiniteSet(c)
    BY <1>1
  <2>5. QED
    BY <2>3, <2>4, FS_UNION DEF Units
<1>3. ASSUME NEW x \in S
      PROVE  Cardinality(Units(f, S)) = f[x] + Cardinality(Units(f, S \ {x}))
  <2> DEFINE A == {x} \X (1..f[x])
             B == Units(f, S \ {x})
  <2>1. Units(f, S) = A \cup B
    BY DEF Units
  <2>2. A \cap B = {}
    BY DEF Units
  <2>3. IsFiniteSet(A) /\ IsFiniteSet(B) /\ Cardinality(A) = f[x]
    BY <1>1, <1>2
  <2> HIDE DEF A, B
  <2>4. Cardinality(B) \in Nat
    BY <2>3, FS_CardinalityType
  <2>5. Cardinality(A \cup B) = Cardinality(A) + Cardinality(B) - Cardinality(A \cap B)
    BY <2>3, FS_Union
  <2>6. Cardinality(A \cap B) = 0
    BY <2>2, FS_EmptySet
  <2>7. QED
    BY <2>1, <2>3, <2>4, <2>5, <2>6 DEF B
<1>4. IsFiniteSet(Units(f, S)) /\ Cardinality(Units(f, S)) \in Nat
  BY <1>2, FS_CardinalityType
<1>5. QED
  BY <1>3, <1>4 DEF Units

\* A sum is the number of its units: the recursion that defines it is that of
\* the number of units, and only one function can satisfy it.
LEMMA SumIsCount ==
  ASSUME NEW f, NEW S, IsFiniteSet(S), \A x \in S : f[x] \in Nat
  PROVE  SumFunctionOnSet(f, S) = Cardinality(Units(f, S))
<1> DEFINE Pick(s) == CHOOSE x \in s : TRUE
           Sums(iter) == iter = [s \in SUBSET S |-> IF s = {} THEN 0 ELSE f[Pick(s)] + iter[s \ {Pick(s)}]]
           count == [s \in SUBSET S |-> Cardinality(Units(f, s))]
<1>1. SumFunctionOnSet(f, S) = (CHOOSE iter : Sums(iter))[S]
  BY DEF SumFunctionOnSet, FoldFunctionOnSet, MapThenFoldSet
<1>2. ASSUME NEW s \in SUBSET S
      PROVE  count[s] = IF s = {} THEN 0 ELSE f[Pick(s)] + count[s \ {Pick(s)}]
  <2>1. IsFiniteSet(s) /\ \A x \in s : f[x] \in Nat
    BY FS_Subset
  <2>2. CASE s = {}
    BY <2>1, <2>2, UnitsOf, FS_EmptySet
  <2>3. CASE s # {}
    <3>1. Pick(s) \in s
      BY <2>3
    <3> HIDE DEF Pick
    <3>2. QED
      BY <2>1, <2>3, <3>1, UnitsOf
  <2>4. QED
    BY <2>2, <2>3
<1>3. Sums(count)
  <2> DEFINE rhs == [s \in SUBSET S |-> IF s = {} THEN 0 ELSE f[Pick(s)] + count[s \ {Pick(s)}]]
  <2>1. \A s \in SUBSET S : count[s] = rhs[s]
    <3> HIDE DEF count, Pick
    <3>1. QED
      BY <1>2
  <2>2. count = rhs
    BY <2>1, Zenon
  <2>3. QED
    BY <2>2
<1>4. PICK iter : Sums(iter) /\ SumFunctionOnSet(f, S) = iter[S]
  <2> HIDE DEF Sums
  <2>1. QED
    BY <1>1, <1>3
<1>5. ASSUME NEW s \in SUBSET S
      PROVE  iter[s] = IF s = {} THEN 0 ELSE f[Pick(s)] + iter[s \ {Pick(s)}]
  <2> HIDE DEF Pick
  <2>1. QED
    BY <1>4
<1> HIDE DEF Sums
<1> DEFINE Wrong == {s \in FiniteSubsetsOf(S) : iter[s] # count[s]}
<1>6. Wrong = {}
  <2> SUFFICES ASSUME Wrong # {} PROVE FALSE
    OBVIOUS
  <2>1. PICK U \in Wrong : \A V \in Wrong : <<V, U>> \notin StrictSubsetOrdering(S)
    <3>1. Wrong \subseteq FiniteSubsetsOf(S)
      OBVIOUS
    <3>2. IsWellFoundedOn(StrictSubsetOrdering(S), FiniteSubsetsOf(S))
      BY FS_StrictSubsetOrderingWellFounded
    <3> HIDE DEF Wrong
    <3>3. QED
      BY <3>1, <3>2, WFMin
  <2>2. U \in SUBSET S /\ IsFiniteSet(U) /\ iter[U] # count[U]
    BY <2>1 DEF FiniteSubsetsOf
  <2>3. U # {}
    BY <1>2, <1>5, <2>2
  <2> DEFINE V == U \ {Pick(U)}
  <2>4. Pick(U) \in U
    BY <2>3
  <2>5. V \in SUBSET S /\ IsFiniteSet(V) /\ V \subseteq U /\ V # U
    <3> HIDE DEF Pick
    <3>1. QED
      BY <2>2, <2>4, FS_RemoveElement
  <2>6. iter[V] = count[V]
    <3> HIDE DEF V
    <3>1. <<V, U>> \in (SUBSET S) \X (SUBSET S) /\ <<V, U>>[1] = V /\ <<V, U>>[2] = U
      BY <2>2, <2>5
    <3>2. <<V, U>> \in StrictSubsetOrdering(S)
      BY <2>5, <3>1, Zenon DEF StrictSubsetOrdering
    <3>3. V \in FiniteSubsetsOf(S)
      BY <2>5 DEF FiniteSubsetsOf
    <3>4. QED
      BY <2>1, <3>2, <3>3
  <2>7. iter[U] = f[Pick(U)] + iter[V] /\ count[U] = f[Pick(U)] + count[V]
    <3> HIDE DEF count, Pick
    <3>1. QED
      BY <1>2, <1>5, <2>2, <2>3
  <2>8. QED
    BY <2>2, <2>6, <2>7
<1>7. S \in FiniteSubsetsOf(S)
  BY DEF FiniteSubsetsOf
<1>8. QED
  BY <1>4, <1>6, <1>7

\* The sum over nothing, and what an element adds.
LEMMA SumAdd ==
  ASSUME NEW f, NEW S, IsFiniteSet(S), \A x \in S : f[x] \in Nat
  PROVE  /\ SumFunctionOnSet(f, S) \in Nat
         /\ S = {} => SumFunctionOnSet(f, S) = 0
         /\ \A x \in S : SumFunctionOnSet(f, S) = f[x] + SumFunctionOnSet(f, S \ {x})
<1>1. \A x \in S : IsFiniteSet(S \ {x}) /\ \A y \in S \ {x} : f[y] \in Nat
  BY FS_RemoveElement
<1>2. QED
  BY <1>1, SumIsCount, UnitsOf, FS_EmptySet

\* Two functions that agree have the same sum.
LEMMA SumSame ==
  ASSUME NEW f, NEW g, NEW S, IsFiniteSet(S), \A x \in S : f[x] \in Nat /\ g[x] = f[x]
  PROVE  SumFunctionOnSet(g, S) = SumFunctionOnSet(f, S)
<1>1. Units(g, S) = Units(f, S)
  BY DEF Units
<1>2. QED
  BY <1>1, SumIsCount

----------------------------------------------------------------------------
(* The limit: what a debit has seen of the month still stands when it is   *)
(* written, but for the debits that came between.                          *)

\* What the first n rows of a ledger debit.
Debits(rows, n)  == {i \in 1..n : rows[i].kind = "deduction"}
Debited(rows, n) == SumFunctionOnSet([i \in Debits(rows, n) |-> -rows[i].amount], Debits(rows, n))

\* Every debit is of some credits, and so is their sum.
LEMMA DebitedType ==
  ASSUME NEW rows, NEW n \in Nat,
         \A i \in 1..n : rows[i].kind = "deduction" => -rows[i].amount \in Nat
  PROVE  /\ \A m \in 0..n : Debited(rows, m) \in Nat
         /\ IsFiniteSet(Debits(rows, n))
<1>1. ASSUME NEW m \in 0..n PROVE Debited(rows, m) \in Nat /\ IsFiniteSet(Debits(rows, m))
  <2> DEFINE f == [i \in Debits(rows, m) |-> -rows[i].amount]
  <2>1. IsFiniteSet(1..m)
    BY FS_Interval
  <2>2. IsFiniteSet(Debits(rows, m))
    BY <2>1, FS_Subset DEF Debits
  <2>3. \A i \in Debits(rows, m) : f[i] \in Nat
    BY DEF Debits
  <2>4. Debited(rows, m) = SumFunctionOnSet(f, Debits(rows, m))
    BY DEF Debited
  <2> HIDE DEF f
  <2>5. QED
    BY <2>2, <2>3, <2>4, SumAdd
<1>2. QED
  BY <1>1

\* What is debited depends on the rows up to there, not on rows that are no
\* debits, and grows by a debit's amount.
LEMMA DebitedBy ==
  ASSUME NEW rows, NEW n \in Nat,
         \A i \in 1..n + 1 : rows[i].kind = "deduction" => -rows[i].amount \in Nat
  PROVE  /\ Debited(rows, n) \in Nat
         /\ \A old : (\A i \in 1..n : old[i] = rows[i]) => Debited(old, n) = Debited(rows, n)
         /\ \A m \in 0..n : (\A i \in m + 1..n : rows[i].kind # "deduction")
                              => Debited(rows, m) = Debited(rows, n)
         /\ Debited(rows, n + 1) = Debited(rows, n) + (IF rows[n + 1].kind = "deduction"
                                                       THEN -rows[n + 1].amount ELSE 0)
<1> DEFINE f(m) == [i \in Debits(rows, m) |-> -rows[i].amount]
<1>1. /\ \A m \in {n, n + 1} : Debited(rows, m) \in Nat
      /\ IsFiniteSet(Debits(rows, n + 1)) /\ IsFiniteSet(Debits(rows, n))
      /\ \A m \in {n, n + 1} : \A i \in Debits(rows, m) : f(m)[i] \in Nat
      /\ \A m \in {n, n + 1} : Debited(rows, m) = SumFunctionOnSet(f(m), Debits(rows, m))
  <2>1. /\ \A m \in 0..n + 1 : Debited(rows, m) \in Nat
        /\ IsFiniteSet(Debits(rows, n + 1))
    BY DebitedType
  <2>2. Debits(rows, n) \subseteq Debits(rows, n + 1)
    BY DEF Debits
  <2>3. QED
    BY <2>1, <2>2, FS_Subset DEF Debits, Debited
<1>2. ASSUME NEW old, \A i \in 1..n : old[i] = rows[i]
      PROVE  Debited(old, n) = Debited(rows, n)
  <2>1. Debits(old, n) = Debits(rows, n)
    BY <1>2 DEF Debits
  <2>2. \A i \in Debits(rows, n) : -old[i].amount = -rows[i].amount
    BY <1>2 DEF Debits
  <2>3. [i \in Debits(rows, n) |-> -old[i].amount] = [i \in Debits(rows, n) |-> -rows[i].amount]
    BY <2>2, Zenon
  <2>4. QED
    BY <2>1, <2>3 DEF Debited
<1>3. ASSUME NEW m \in 0..n, \A i \in m + 1..n : rows[i].kind # "deduction"
      PROVE  Debited(rows, m) = Debited(rows, n)
  <2>1. Debits(rows, m) = Debits(rows, n)
    BY <1>3 DEF Debits
  <2>2. QED
    BY <2>1 DEF Debited
<1>4. Debited(rows, n) \in Nat
  BY <1>1
<1>5. ASSUME rows[n + 1].kind # "deduction"
      PROVE  Debited(rows, n + 1) = Debited(rows, n)
  <2>1. Debits(rows, n + 1) = Debits(rows, n)
    BY <1>5 DEF Debits
  <2>2. QED
    BY <2>1 DEF Debited
<1>6. ASSUME rows[n + 1].kind = "deduction"
      PROVE  Debited(rows, n + 1) = Debited(rows, n) + -rows[n + 1].amount
  <2>1. Debits(rows, n) = Debits(rows, n + 1) \ {n + 1} /\ n + 1 \in Debits(rows, n + 1)
    BY <1>6 DEF Debits
  <2>2. \A i \in Debits(rows, n) : f(n)[i] = f(n + 1)[i]
    BY <2>1
  <2>3. f(n + 1)[n + 1] = -rows[n + 1].amount
    BY <2>1
  <2> HIDE DEF f
  <2>4. Debited(rows, n + 1) = -rows[n + 1].amount + SumFunctionOnSet(f(n + 1), Debits(rows, n))
    BY <1>1, <2>1, <2>3, SumAdd
  <2>5. SumFunctionOnSet(f(n + 1), Debits(rows, n)) = SumFunctionOnSet(f(n), Debits(rows, n))
    BY <1>1, <2>2, SumSame
  <2>6. -rows[n + 1].amount \in Nat
    BY <1>6
  <2>7. QED
    BY <1>4, <1>1, <2>4, <2>5, <2>6
<1>7. Debited(rows, n + 1) = Debited(rows, n) + (IF rows[n + 1].kind = "deduction"
                                                 THEN -rows[n + 1].amount ELSE 0)
  BY <1>4, <1>5, <1>6
<1>8. QED
  BY <1>2, <1>3, <1>4, <1>7, Zenon

\* What a session has seen of the ledger.
Fits(s) ==
  /\ loc[s].seen <= Len(ledger)
  /\ pc[s] = "deduct_ins" =>
       settings.limit = 0 \/ Debited(ledger, loc[s].seen) - loc[s].amount <= settings.limit

\* The rows of a ledger that debit, debit what a request costs.
DebitRows(rows) == \A i \in 1..Len(rows) : rows[i].kind = "deduction" => -rows[i].amount \in Costs

\* Snapshots and what of the invariant it is used with, taken apart.
LEMMA SnapshotsParts ==
  /\ Snapshots <=> DebitRows(ledger) /\ \A s \in Session : Fits(s)
  /\ Snapshots' <=> DebitRows(ledger') /\ \A s \in Session : Fits(s)'
BY DEF Snapshots, DebitRows, Fits, MonthSpend, Debited, Debits

\* A ledger that is as it was or has a row more.
Grown == /\ Len(ledger) \in Nat /\ Len(ledger') \in {Len(ledger), Len(ledger) + 1}
         /\ \A i \in 1..Len(ledger) : ledger'[i] = ledger[i]

\* What has been debited up to a row does not change as the ledger grows.
LEMMA DebitedKept ==
  ASSUME DebitRows(ledger), Grown, NEW n \in 0..Len(ledger)
  PROVE  Debited(ledger', n) = Debited(ledger, n)
<1>1. Debits(ledger', n) = Debits(ledger, n)
  BY DEF Debits, Grown
<1>2. \A i \in Debits(ledger, n) : -ledger'[i].amount = -ledger[i].amount
  BY DEF Debits, Grown
<1>3. [i \in Debits(ledger, n) |-> -ledger'[i].amount] = [i \in Debits(ledger, n) |-> -ledger[i].amount]
  BY <1>2, Zenon
<1>4. QED
  BY <1>1, <1>3 DEF Debited

\* A step of s: its snapshot is the old one, a new one, or forgotten, and the
\* settings are not edited while somebody holds the lock.
LEMMA FitsStep ==
  ASSUME IInv, Grown, NEW s \in Session,
         \A t \in Session \ {s} : pc'[t] = pc[t] /\ loc'[t] = loc[t],
         settings'.limit = settings.limit \/ holder = NoSession,
         loc'[s].seen \in {0, loc[s].seen, Len(ledger)},
         pc'[s] = "deduct_ins" =>
           settings.limit = 0 \/ Debited(ledger, loc'[s].seen) - loc'[s].amount <= settings.limit,
         pc'[s] = "deduct_ins" => settings'.limit = settings.limit
  PROVE  \A t \in Session : Fits(t)'
<1>1. /\ \A t \in Session : Fits(t) /\ DebitRows(ledger) /\ LockDiscipline
      /\ \A t \in Session : loc[t].seen \in Nat
  BY SnapshotsParts DEF IInv, TypeOK, Local
<1>2. Len(ledger) \in Nat /\ Len(ledger') \in Nat /\ Len(ledger) <= Len(ledger')
  BY DEF Grown
<1>3. \A t \in Session : loc'[t].seen \in 0..Len(ledger)
  BY <1>1, <1>2 DEF Fits
<1>4. ASSUME NEW t \in Session PROVE Fits(t)'
  <2>1. Debited(ledger', loc'[t].seen) = Debited(ledger, loc'[t].seen)
    BY <1>1, <1>3, DebitedKept
  <2>2. CASE t = s
    BY <1>2, <1>3, <2>1, <2>2 DEF Fits
  <2>3. CASE t # s
    <3>1. pc'[t] = pc[t] /\ loc'[t] = loc[t] /\ Fits(t)
      BY <1>1, <2>3
    <3>2. pc[t] = "deduct_ins" => settings'.limit = settings.limit
      BY <1>1, SessionAssumption DEF LockDiscipline, Locked
    <3>3. QED
      BY <1>2, <1>3, <2>1, <3>1, <3>2 DEF Fits
  <2>4. QED
    BY <2>2, <2>3
<1>5. QED
  BY <1>4

\* A commit adds its row to the ledger and leaves the limit alone.
LEMMA CommitGrows ==
  ASSUME TypeOK, NEW s \in Session, NEW kind \in {"topup", "deduction", "refund"},
         CommitRow(s, kind), DebitRows(ledger), kind = "deduction" => -loc[s].amount \in Costs
  PROVE  /\ Grown /\ DebitRows(ledger') /\ settings'.limit = settings.limit
         /\ Len(ledger') = Len(ledger) + 1
         /\ ledger'[Len(ledger) + 1].kind = kind
         /\ ledger'[Len(ledger) + 1].amount = loc[s].amount
<1> DEFINE n == Len(ledger)
<1>1. /\ n \in Nat /\ Len(ledger') = n + 1 /\ \A i \in 1..n : ledger'[i] = ledger[i]
      /\ ledger'[n + 1].kind = kind /\ ledger'[n + 1].amount = loc[s].amount
  <2>1. /\ n \in Nat /\ Len(ledger') = n + 1 /\ \A i \in 1..n : ledger'[i] = ledger[i]
        /\ ledger'[n + 1] = [kind |-> kind, amount |-> loc[s].amount,
                             after |-> loc[s].after, order |-> loc[s].order]
    BY CommitStep
  <2>2. QED
    BY <2>1
<1>2. settings'.limit = settings.limit
  BY DEF CommitRow, TypeOK, Settings
<1>3. Grown
  BY <1>1 DEF Grown
<1> HIDE DEF n
<1>4. DebitRows(ledger')
  <2>1. \A i \in 1..Len(ledger') : i \in 1..n \/ i = n + 1
    BY <1>1
  <2>2. QED
    BY <1>1, <2>1 DEF DebitRows, n
<1>5. QED
  BY <1>1, <1>2, <1>3, <1>4 DEF n

\* No step of any session makes a debit that is permitted exceed the limit.
LEMMA SnapshotsStep == IInv /\ [Next]_vars => Snapshots'
<1> SUFFICES ASSUME IInv, [Next]_vars PROVE Snapshots'
  OBVIOUS
<1>a. /\ TypeOK /\ LockDiscipline /\ DebitRows(ledger) /\ \A s \in Session : Fits(s)
      /\ loc \in [Session -> Local] /\ pc \in [Session -> Label] /\ settings \in Settings
      /\ Len(ledger) \in Nat
      /\ \A s \in Session : pc[s] = "deduct_ins" => -loc[s].amount \in Costs
  <2>1. TypeOK /\ LockDiscipline /\ Amounts
    BY DEF IInv
  <2>2. ledger \in Seq(Row) => Len(ledger) \in Nat
    OBVIOUS
  <2>3. QED
    BY <2>1, <2>2, SnapshotsParts DEF IInv, TypeOK, Amounts
<1>1. CASE UNCHANGED <<pc, loc, ledger>> /\ settings'.limit = settings.limit
  <2>1. DebitRows(ledger') /\ \A t \in Session : Fits(t)'
    BY <1>1, <1>a DEF Fits
  <2>2. QED
    BY <2>1, SnapshotsParts
\* A step of s that leaves the ledger alone.
<1>b. ASSUME NEW s \in Session, UNCHANGED ledger, NEW l \in Label, Goto(s, l),
             NEW x, loc' = [loc EXCEPT ![s] = x],
             settings'.limit = settings.limit \/ (holder = NoSession /\ l # "deduct_ins"),
             x.seen \in {0, loc[s].seen, Len(ledger)},
             l = "deduct_ins" =>
               settings.limit = 0 \/ Debited(ledger, x.seen) - x.amount <= settings.limit
      PROVE  Snapshots'
  <2>1. Grown /\ DebitRows(ledger')
    BY <1>a, <1>b DEF Grown
  <2>2. /\ \A t \in Session \ {s} : pc'[t] = pc[t] /\ loc'[t] = loc[t]
        /\ pc'[s] = l /\ loc'[s] = x
    BY <1>a, <1>b DEF Goto
  <2>3. \A t \in Session : Fits(t)'
    BY <1>b, <2>1, <2>2, FitsStep
  <2>4. QED
    BY <2>1, <2>3, SnapshotsParts
\* A commit of s, which then goes on without its snapshot or without a debit.
<1>c. ASSUME NEW s \in Session, NEW kind \in {"topup", "deduction", "refund"}, CommitRow(s, kind),
             kind = "deduction" => -loc[s].amount \in Costs,
             NEW l \in Label \ {"deduct_ins"}, Goto(s, l),
             NEW x, loc' = [loc EXCEPT ![s] = x], x.seen \in {0, loc[s].seen}
      PROVE  Snapshots'
  <2>1. Grown /\ DebitRows(ledger') /\ settings'.limit = settings.limit
    BY <1>a, <1>c, CommitGrows
  <2>2. /\ \A t \in Session \ {s} : pc'[t] = pc[t] /\ loc'[t] = loc[t]
        /\ pc'[s] = l /\ loc'[s] = x
    BY <1>a, <1>c DEF Goto
  <2>3. \A t \in Session : Fits(t)'
    BY <1>c, <2>1, <2>2, FitsStep
  <2>4. QED
    BY <2>1, <2>3, SnapshotsParts
<1>d. /\ NoLocals.seen = 0 /\ "idle" \in Label \ {"deduct_ins"}
      /\ \A s \in Session : loc = [loc EXCEPT ![s] = loc[s]]
  BY <1>a DEF NoLocals, Label
<1>2. ASSUME NEW s \in Session, UNCHANGED <<ledger, settings>>, Return(s) PROVE Snapshots'
  BY <1>2, <1>b, <1>d DEF Return
<1>3. ASSUME NEW s \in Session, UNCHANGED <<ledger, settings, loc>>,
             NEW l \in Label \ {"deduct_ins"}, Goto(s, l)
      PROVE  Snapshots'
  BY <1>3, <1>b, <1>d
<1>4. ASSUME NEW s \in Session, UNCHANGED <<ledger, settings>>,
             NEW l \in Label \ {"deduct_ins"}, Goto(s, l),
             NEW a \in Int, LockAndAdd(s, a)
      PROVE  Snapshots'
  <2> DEFINE x == [loc[s] EXCEPT !.amount = a, !.after = settings.balance + a]
  <2>1. loc' = [loc EXCEPT ![s] = x]
    BY <1>4 DEF LockAndAdd
  <2>2. x.seen = loc[s].seen
    BY <1>a DEF Local
  <2> HIDE DEF x
  <2>3. QED
    BY <1>4, <1>b, <2>1, <2>2
<1>5. ASSUME NEW s \in Session, Continue(s) PROVE Snapshots'
  <2>1. CASE SettleNothing(s) \/ DeductRejected(s) \/ PaymentCreated(s) \/ PaymentFailed(s)
               \/ TopupConflict(s) \/ MarkDelivered(s) \/ MarkRefunded(s)
    BY <2>1, <1>2 DEF SettleNothing, DeductRejected, PaymentCreated, PaymentFailed, TopupConflict,
                      MarkDelivered, MarkRefunded
  <2>2. CASE CreateOrder(s) \/ TopupCheck(s) \/ RefundConflict(s)
    BY <2>2, <1>3 DEF CreateOrder, TopupCheck, RefundConflict, Label, Locked
  <2>3. ASSUME NEW c \in Costs, SettleBegin(s, c) PROVE Snapshots'
    <3>1. CASE Eligible(c, Len(ledger))
      <4> DEFINE x == [loc[s] EXCEPT !.amount = -c, !.seen = Len(ledger)]
      <4>1. loc' = [loc EXCEPT ![s] = x] /\ Goto(s, "deduct_wait") /\ UNCHANGED <<ledger, settings>>
        BY <2>3, <3>1 DEF SettleBegin
      <4>2. x.seen = Len(ledger)
        BY <1>a DEF Local
      <4> HIDE DEF x
      <4>3. "deduct_wait" \in Label
        BY DEF Label
      <4>4. QED
        BY <1>b, <4>1, <4>2, <4>3
    <3>2. CASE ~Eligible(c, Len(ledger))
      BY <2>3, <3>2, <1>2 DEF SettleBegin
    <3>3. QED
      BY <3>1, <3>2
  <2>4. CASE DeductLock(s)
    <3> DEFINE a == loc[s].amount
               x == [loc[s] EXCEPT !.amount = a, !.after = settings.balance + a]
    <3>1. loc' = [loc EXCEPT ![s] = x] /\ Goto(s, "deduct_ins") /\ UNCHANGED <<ledger, settings>>
      BY <2>4 DEF DeductLock, LockAndAdd
    <3>2. x.seen = loc[s].seen /\ x.amount = a
      BY <1>a DEF Local
    <3>3. settings.limit = 0 \/ Debited(ledger, loc[s].seen) + -a <= settings.limit
      BY <2>4 DEF DeductLock, Eligible, MonthSpend, Debited, Debits
    <3>4. Debited(ledger, loc[s].seen) \in Int /\ a \in Int
      <4>1. loc[s].seen \in 0..Len(ledger) /\ a \in Int
        BY <1>a DEF Fits, Local
      <4>2. \A i \in 1..Len(ledger) : ledger[i].kind = "deduction" => -ledger[i].amount \in Nat
        BY <1>a, AmountAssumption DEF DebitRows
      <4>3. \A m \in 0..Len(ledger) : Debited(ledger, m) \in Nat
        BY <1>a, <4>2, DebitedType
      <4>4. QED
        BY <4>1, <4>3
    <3> HIDE DEF x, a
    <3>5. settings.limit = 0 \/ Debited(ledger, x.seen) - x.amount <= settings.limit
      BY <3>2, <3>3, <3>4
    <3>6. QED
      BY <1>b, <3>1, <3>2, <3>5 DEF Label, Locked
  <2>5. CASE DeductCommit(s)
    BY <2>5, <1>a, <1>c, <1>d DEF DeductCommit, Return
  <2>6. CASE TopupCommit(s)
    <3>1. CASE loc[s].order = NoOrder
      BY <2>6, <3>1, <1>c, <1>d DEF TopupCommit, Return
    <3>2. CASE loc[s].order # NoOrder
      BY <2>6, <3>2, <1>c, <1>d DEF TopupCommit, Label
    <3>3. QED
      BY <3>1, <3>2
  <2>7. CASE RefundCommit(s)
    BY <2>7, <1>c, <1>d DEF RefundCommit, Label
  <2>8. CASE TopupLock(s)
    <3>1. loc[s].amount \in Int
      BY <1>a DEF Local
    <3>2. QED
      BY <2>8, <3>1, <1>4 DEF TopupLock, Label, Locked
  <2>9. CASE RefundLock(s)
    <3>1. PICK i \in 1..Len(ledger) : LockAndAdd(s, -ledger[i].amount)
      BY <2>9 DEF RefundLock
    <3>2. -ledger[i].amount \in Int
      <4>1. ledger[i] \in Row
        BY <1>a DEF TypeOK
      <4>2. QED
        BY <4>1 DEF Row
    <3>3. QED
      BY <2>9, <3>1, <3>2, <1>4 DEF RefundLock, Label, Locked
  <2>10. CASE EditWrite(s)
    BY <2>10, <1>b, <1>d DEF EditWrite, Return
  <2>11. QED
    BY <1>5, <2>1, <2>2, <2>3, <2>4, <2>5, <2>6, <2>7, <2>8, <2>9, <2>10 DEF Continue
<1>6. ASSUME NEW s \in Session, Arrive(s) PROVE Snapshots'
  <2>1. CASE GuardAdmits(s)
    BY <2>1, <1>3 DEF GuardAdmits, Label
  <2>2. CASE ~GuardAdmits(s)
    <3>1. /\ UNCHANGED <<ledger, settings>>
          /\ \E l \in {"insert", "topup_check", "refund_wait", "topup_wait", "edit_wait"} : Goto(s, l)
      BY <1>6, <2>2 DEF Arrive, TopupWithinCap, DeliveryWebhook, RefundWebhook, DirectTopup, EditRead
    <3>2. PICK x : loc' = [loc EXCEPT ![s] = x] /\ x.seen = loc[s].seen
      <4>1. /\ \A o : [loc[s] EXCEPT !.order = o].seen = loc[s].seen
            /\ \A a : [loc[s] EXCEPT !.amount = a].seen = loc[s].seen
        BY <1>a DEF Local
      <4>2. \/ \E o : loc' = [loc EXCEPT ![s] = [loc[s] EXCEPT !.order = o]]
            \/ \E o, a : loc' = [loc EXCEPT ![s] = [loc[s] EXCEPT !.order = o, !.amount = a]]
            \/ \E a : loc' = [loc EXCEPT ![s] = [loc[s] EXCEPT !.amount = a]]
            \/ \E e, n : loc' = [loc EXCEPT ![s] = [loc[s] EXCEPT !.enabled = e, !.limit = n]]
        BY <1>6, <2>2 DEF Arrive, TopupWithinCap, DeliveryWebhook, RefundWebhook, DirectTopup,
                          EditRead
      <4>3. CASE \E o : loc' = [loc EXCEPT ![s] = [loc[s] EXCEPT !.order = o]]
        BY <4>1, <4>3
      <4>4. CASE \E o, a : loc' = [loc EXCEPT ![s] = [loc[s] EXCEPT !.order = o, !.amount = a]]
        <5>1. PICK o, a : loc' = [loc EXCEPT ![s] = [loc[s] EXCEPT !.order = o, !.amount = a]]
          BY <4>4
        <5> DEFINE x == [loc[s] EXCEPT !.order = o, !.amount = a]
        <5>2. loc' = [loc EXCEPT ![s] = x] /\ x.seen = loc[s].seen
          BY <1>a, <5>1 DEF Local
        <5> HIDE DEF x
        <5>3. QED
          BY <5>2
      <4>5. CASE \E a : loc' = [loc EXCEPT ![s] = [loc[s] EXCEPT !.amount = a]]
        BY <4>1, <4>5
      <4>6. CASE \E e, n : loc' = [loc EXCEPT ![s] = [loc[s] EXCEPT !.enabled = e, !.limit = n]]
        <5>1. PICK e, n : loc' = [loc EXCEPT ![s] = [loc[s] EXCEPT !.enabled = e, !.limit = n]]
          BY <4>6
        <5> DEFINE x == [loc[s] EXCEPT !.enabled = e, !.limit = n]
        <5>2. loc' = [loc EXCEPT ![s] = x] /\ x.seen = loc[s].seen
          BY <1>a, <5>1 DEF Local
        <5> HIDE DEF x
        <5>3. QED
          BY <5>2
      <4>7. QED
        BY <4>2, <4>3, <4>4, <4>5, <4>6
    <3>3. QED
      BY <1>b, <3>1, <3>2 DEF Label
  <2>3. QED
    BY <2>1, <2>2
<1>7. ASSUME NEW s \in Session, Abort(s) PROVE Snapshots'
  BY <1>7, <1>2 DEF Abort
<1>8. ASSUME NEW b \in BOOLEAN, SetBypass(b) PROVE Snapshots'
  <2>1. settings'.limit = settings.limit
    BY <1>8, <1>a DEF SetBypass, Settings
  <2>2. QED
    BY <1>8, <1>1, <2>1 DEF SetBypass
<1>9. QED
  BY <1>1, <1>5, <1>6, <1>7, <1>8 DEF Next, Quiescent, CancelOrder, CustomerPays, vars

\* The inductive invariant holds of every reachable state.
LEMMA Inductive == Spec => []IInv
<1>1. Init => IInv
  <2> SUFFICES ASSUME Init PROVE IInv
    OBVIOUS
  <2>1. Credited = {} /\ Reversed = {}
    BY DEF Init, Credited, Reversed, HasRow
  <2>2. Agreed /\ RowAmounts /\ AtMostOncePerOrder
    BY <2>1 DEF Init, Agreed, Backed, OneCreator, Relying, Relies, RowAmounts,
                AtMostOncePerOrder, Final
  <2>3. Snapshots
    <3>1. ledger = <<>> /\ Len(ledger) = 0 /\ 1..Len(ledger) = {}
      BY DEF Init
    <3>2. \A s \in Session : loc[s].seen = 0 /\ pc[s] = "idle"
      BY DEF Init, NoLocals
    <3>3. QED
      BY <3>1, <3>2 DEF Snapshots
  <2>4. QED
    BY <2>2, <2>3, AccountedInit, Parts
<1>2. IInv /\ [Next]_vars => IInv'
  <2> SUFFICES ASSUME IInv, [Next]_vars PROVE IInv'
    OBVIOUS
  <2>1. Accounted' /\ Agreed' /\ AtMostOncePerOrder' /\ RowAmounts' /\ Snapshots'
    BY Parts, AccountedStep, AgreedStep, OnceStep, SnapshotsStep
  <2>2. QED
    BY <2>1, Parts, PTL
<1>3. QED
  BY <1>1, <1>2, PTL DEF Spec

\* However the webhooks of an order are repeated and interleaved, and wherever
\* a handler crashes, it is credited once and reversed once, by its own amount.
THEOREM CreditedOnce == Spec => []AtMostOncePerOrder
<1>1. IInv => AtMostOncePerOrder
  BY DEF IInv
<1>2. QED
  BY <1>1, Inductive, PTL

\* What an order reads and what the ledger moved agree, also between the commit
\* of one and the update of the other.
THEOREM StatusCorrect == Spec => []StatusBacked
<1>1. IInv => StatusBacked
  BY DEF IInv
<1>2. QED
  BY <1>1, Inductive, PTL

\* A delivered order is never made to look undelivered: every step that writes
\* another status writes it to an order whose money has not moved.
THEOREM NeverReopened == Spec => DeliveredNeverReopened
<1>1. IInv /\ [Next]_vars =>
        [\A o \in Order : status[o] \in {"delivered", "refunded"}
                            => status'[o] \in {"delivered", "refunded"}]_vars
  <2> SUFFICES ASSUME IInv, [Next]_vars, NEW o \in Order, status[o] \in Final
               PROVE  status'[o] \in Final
    BY DEF Final
  <2>a. /\ TypeOK /\ status \in [Order -> OrderStatus]
        /\ \A s \in Session : Relies(s)
    BY Parts DEF Accounted, Typed, Agreed, Relying, TypeOK
  <2>1. CASE UNCHANGED status
    BY <2>1
  <2>2. ASSUME NEW s \in Session,
               CreateOrder(s) \/ PaymentCreated(s) \/ PaymentFailed(s)
        PROVE  status'[o] \in Final
    BY <2>2, <2>a DEF CreateOrder, PaymentCreated, PaymentFailed, Relies, Final
  <2>3. ASSUME NEW s \in Session, MarkDelivered(s) \/ MarkRefunded(s)
        PROVE  status'[o] \in Final
    BY <2>3, <2>a DEF MarkDelivered, MarkRefunded, Final
  <2>4. ASSUME NEW p \in Order, CancelOrder(p) PROVE status'[o] \in Final
    BY <2>4, <2>a DEF CancelOrder, Final
  <2>5. QED
    BY <2>1, <2>2, <2>3, <2>4
       DEF Next, vars, Quiescent, Continue, Arrive, Abort, SettleNothing, SettleBegin, DeductLock,
           DeductRejected, DeductCommit, TopupCheck, TopupLock, TopupCommit, TopupConflict,
           RefundLock, RefundCommit, RefundConflict, EditWrite, GuardAdmits, TopupWithinCap,
           DeliveryWebhook, RefundWebhook, DirectTopup, EditRead, CustomerPays, SetBypass
<1>2. QED
  BY <1>1, Inductive, PTL DEF Spec, DeliveredNeverReopened

\* A debit is over the limit in force only if another debit was committed after
\* it had read what the month had spent: otherwise what it read is what was
\* spent, and the limit has not been edited since it took the lock.
THEOREM OverLimitOnlyAfterAnother == Spec => OverLimitOnlyByRace
<1>1. IInv /\ [Next]_vars =>
        [\A s \in Session :
           DeductCommit(s) /\ settings.limit > 0 /\ MonthSpend(Len(ledger))' > settings.limit
             => \E i \in (loc[s].seen + 1)..Len(ledger) : ledger[i].kind = "deduction"]_vars
  <2> SUFFICES ASSUME IInv, NEW s \in Session, DeductCommit(s), settings.limit > 0,
                      Debited(ledger', Len(ledger')) > settings.limit,
                      \A i \in (loc[s].seen + 1)..Len(ledger) : ledger[i].kind # "deduction"
               PROVE  FALSE
    BY DEF MonthSpend, Debited, Debits
  <2> DEFINE n == Len(ledger)
             limit == settings.limit
             cost == -loc[s].amount
  <2>1. /\ TypeOK /\ DebitRows(ledger) /\ Fits(s) /\ n \in Nat /\ limit \in Nat
        /\ loc[s].seen \in 0..n /\ loc[s].amount \in Int /\ cost \in Costs
        /\ pc[s] = "deduct_ins" /\ CommitRow(s, "deduction")
    <3>1. TypeOK /\ Amounts /\ DebitRows(ledger) /\ Fits(s)
      BY SnapshotsParts DEF IInv
    <3>2. pc[s] = "deduct_ins" /\ CommitRow(s, "deduction")
      BY DEF DeductCommit
    <3>3. n \in Nat /\ limit \in Nat /\ loc[s].seen \in Nat /\ loc[s].amount \in Int
      <4>1. ledger \in Seq(Row) /\ settings \in Settings /\ loc[s] \in Local
        BY <3>1 DEF TypeOK
      <4>2. QED
        BY <4>1 DEF Settings, Local
    <3>4. cost \in Costs
      BY <3>1, <3>2 DEF Amounts
    <3>5. loc[s].seen \in 0..n
      BY <3>1, <3>3 DEF Fits
    <3> HIDE DEF n, limit, cost
    <3>6. QED
      BY <3>1, <3>2, <3>3, <3>4, <3>5 DEF n, limit
  <2>2. /\ Grown /\ DebitRows(ledger') /\ Len(ledger') = n + 1
        /\ ledger'[n + 1].kind = "deduction" /\ ledger'[n + 1].amount = loc[s].amount
    BY <2>1, CommitGrows
  <2> HIDE DEF n, limit, cost
  <2>3. \A i \in 1..n + 1 : ledger'[i].kind = "deduction" => -ledger'[i].amount \in Nat
    BY <2>2, AmountAssumption DEF DebitRows
  <2>4. /\ Debited(ledger', n) \in Nat
        /\ Debited(ledger', n + 1) = Debited(ledger', n) + cost
    BY <2>1, <2>2, <2>3, DebitedBy DEF cost
  <2>5. Debited(ledger', n) = Debited(ledger', loc[s].seen)
    <3>1. \A i \in loc[s].seen + 1..n : ledger'[i].kind # "deduction"
      BY <2>1, <2>2 DEF Grown, n
    <3>2. QED
      BY <2>1, <2>3, <3>1, DebitedBy
  <2>6. Debited(ledger', loc[s].seen) = Debited(ledger, loc[s].seen)
    BY <2>1, <2>2, DebitedKept DEF n
  <2>7. Debited(ledger, loc[s].seen) + cost <= limit
    BY <2>1, <2>4, <2>5, <2>6 DEF Fits, limit, cost
  <2>8. Debited(ledger', n + 1) <= limit
    BY <2>4, <2>5, <2>6, <2>7
  <2>9. QED
    BY <2>1, <2>2, <2>4, <2>8, AmountAssumption DEF limit, cost
<1>2. QED
  BY <1>1, Inductive, PTL DEF Spec, OverLimitOnlyByRace

----------------------------------------------------------------------------
(* The balance is the sum of the ledger: no credit appears or disappears   *)
(* between two rows.                                                       *)

\* What the first n rows of the ledger have brought, and what they have taken.
In(i)      == IF ledger[i].amount > 0 THEN ledger[i].amount ELSE 0
Out(i)     == IF ledger[i].amount < 0 THEN -ledger[i].amount ELSE 0
Brought(n) == SumFunctionOnSet([i \in 1..n |-> In(i)], 1..n)
Taken(n)   == SumFunctionOnSet([i \in 1..n |-> Out(i)], 1..n)

\* A sum over n rows is one over n - 1 rows and what the last one adds.
LEMMA SumLast ==
  ASSUME NEW n \in Nat, NEW f, NEW g, n = 0 \/ \A i \in 1..n : f[i] \in Nat,
         \A i \in 1..n - 1 : g[i] = f[i]
  PROVE  /\ SumFunctionOnSet(f, 1..n) \in Nat
         /\ n = 0 => SumFunctionOnSet(f, 1..n) = 0
         /\ n > 0 => SumFunctionOnSet(f, 1..n) = f[n] + SumFunctionOnSet(g, 1..n - 1)
<1>1. IsFiniteSet(1..n) /\ IsFiniteSet(1..n - 1) /\ \A i \in 1..n : f[i] \in Nat
  BY FS_Interval
<1>2. /\ SumFunctionOnSet(f, 1..n) \in Nat
      /\ 1..n = {} => SumFunctionOnSet(f, 1..n) = 0
      /\ \A x \in 1..n : SumFunctionOnSet(f, 1..n) = f[x] + SumFunctionOnSet(f, (1..n) \ {x})
  BY <1>1, SumAdd
<1>3. n > 0 => n \in 1..n /\ (1..n) \ {n} = 1..n - 1
  OBVIOUS
<1>4. n = 0 => 1..n = {}
  OBVIOUS
<1>5. n > 0 => SumFunctionOnSet(g, 1..n - 1) = SumFunctionOnSet(f, 1..n - 1)
  <2> SUFFICES ASSUME n > 0 PROVE \A i \in 1..n - 1 : f[i] \in Nat /\ g[i] = f[i]
    BY <1>1, SumSame
  <2>1. QED
    BY <1>1
<1>6. QED
  BY <1>2, <1>3, <1>4, <1>5

\* The balance written with a row is the sum of the rows up to it: the first
\* row for which it were not would be explained by the one before.
LEMMA Telescopes ==
  ASSUME TypeOK, LedgerExplainsBalance
  PROVE  settings.balance = Brought(Len(ledger)) - Taken(Len(ledger))
<1> DEFINE L == Len(ledger)
<1>1. L \in Nat /\ \A i \in 1..L : ledger[i].amount \in Int /\ ledger[i].after \in Int
  <2>1. ledger \in Seq(Row)
    BY DEF TypeOK
  <2>2. L \in Nat /\ \A i \in 1..L : ledger[i] \in Row
    BY <2>1
  <2>3. QED
    BY <2>2 DEF Row
<1>2. \A i \in 1..L : In(i) \in Nat /\ Out(i) \in Nat /\ In(i) - Out(i) = ledger[i].amount
  BY <1>1 DEF In, Out
<1>3. ASSUME NEW n \in 0..L
      PROVE  /\ Brought(n) \in Nat /\ Taken(n) \in Nat
             /\ n = 0 => Brought(n) = 0 /\ Taken(n) = 0
             /\ n > 0 => /\ Brought(n) = In(n) + Brought(n - 1)
                         /\ Taken(n) = Out(n) + Taken(n - 1)
  <2> DEFINE f == [i \in 1..n |-> In(i)]
             g == [i \in 1..n - 1 |-> In(i)]
             h == [i \in 1..n |-> Out(i)]
             k == [i \in 1..n - 1 |-> Out(i)]
  <2>1. /\ \A i \in 1..n : f[i] = In(i) /\ f[i] \in Nat /\ h[i] = Out(i) /\ h[i] \in Nat
        /\ \A i \in 1..n - 1 : g[i] = f[i] /\ k[i] = h[i]
        /\ n \in Nat
    <3>1. n \in Nat /\ \A i \in 1..n : i \in 1..L
      BY <1>1
    <3>2. \A i \in 1..n - 1 : i \in 1..n
      BY <3>1
    <3>3. QED
      BY <1>2, <3>1, <3>2
  <2>2. /\ Brought(n) = SumFunctionOnSet(f, 1..n) /\ Brought(n - 1) = SumFunctionOnSet(g, 1..n - 1)
        /\ Taken(n) = SumFunctionOnSet(h, 1..n) /\ Taken(n - 1) = SumFunctionOnSet(k, 1..n - 1)
    BY DEF Brought, Taken
  <2> HIDE DEF f, g, h, k
  <2>3. /\ SumFunctionOnSet(f, 1..n) \in Nat
        /\ n = 0 => SumFunctionOnSet(f, 1..n) = 0
        /\ n > 0 => SumFunctionOnSet(f, 1..n) = f[n] + SumFunctionOnSet(g, 1..n - 1)
    BY <2>1, SumLast
  <2>4. /\ SumFunctionOnSet(h, 1..n) \in Nat
        /\ n = 0 => SumFunctionOnSet(h, 1..n) = 0
        /\ n > 0 => SumFunctionOnSet(h, 1..n) = h[n] + SumFunctionOnSet(k, 1..n - 1)
    BY <2>1, SumLast
  <2>5. n > 0 => n \in 1..n
    BY <2>1
  <2>6. QED
    BY <2>1, <2>2, <2>3, <2>4, <2>5
<1> DEFINE Wrong == {i \in 1..L : ledger[i].after # Brought(i) - Taken(i)}
<1>4. Wrong = {}
  <2> SUFFICES ASSUME Wrong # {} PROVE FALSE
    OBVIOUS
  <2>1. PICK n \in Wrong : \A m \in Wrong : n <= m
    <3> DEFINE Less == {ss \in Nat \X Nat : ss[1] < ss[2]}
    <3>1. IsWellFoundedOn(Less, Nat)
      BY NatLessThanWellFounded DEF OpToRel
    <3>2. Wrong \subseteq Nat
      BY <1>1
    <3>3. \A m, n \in Nat : m < n => <<m, n>> \in Less
      OBVIOUS
    <3> HIDE DEF Wrong, Less
    <3>4. PICK n \in Wrong : \A m \in Wrong : <<m, n>> \notin Less
      BY <3>1, <3>2, WFMin
    <3>5. ASSUME NEW m \in Wrong PROVE n <= m
      <4>1. m \in Nat /\ n \in Nat /\ <<m, n>> \notin Less
        BY <3>2, <3>4
      <4>2. ~(m < n)
        BY <3>3, <4>1
      <4>3. QED
        BY <4>1, <4>2
    <3>6. QED
      BY <3>4, <3>5
  <2>2. n \in 1..L /\ n \in Nat /\ ledger[n].after # Brought(n) - Taken(n)
    BY <1>1, <2>1
  <2>3. ledger[n].after = (IF n = 1 THEN 0 ELSE ledger[n - 1].after) + ledger[n].amount
    BY <2>2 DEF LedgerExplainsBalance
  <2>4. /\ Brought(n) = In(n) + Brought(n - 1) /\ Taken(n) = Out(n) + Taken(n - 1)
        /\ In(n) \in Nat /\ Out(n) \in Nat /\ In(n) - Out(n) = ledger[n].amount
    BY <1>1, <1>2, <1>3, <2>2
  <2>5. /\ n - 1 \in 0..L /\ Brought(n - 1) \in Nat /\ Taken(n - 1) \in Nat
        /\ n = 1 => Brought(n - 1) = 0 /\ Taken(n - 1) = 0
    BY <1>1, <1>3, <2>2
  <2>6. n # 1 => ledger[n - 1].after = Brought(n - 1) - Taken(n - 1)
    <3> SUFFICES ASSUME n # 1, n - 1 \in Wrong PROVE FALSE
      BY <1>1, <2>2
    <3> HIDE DEF Wrong
    <3>1. QED
      BY <2>1, <2>2
  <2>7. QED
    BY <2>2, <2>3, <2>4, <2>5, <2>6
<1>5. settings.balance = IF L = 0 THEN 0 ELSE ledger[L].after
  BY DEF LedgerExplainsBalance
<1>6. L = 0 \/ L \in 1..L
  BY <1>1
<1>7. Brought(0) = 0 /\ Taken(0) = 0
  BY <1>1, <1>3
<1>8. QED
  BY <1>4, <1>5, <1>6, <1>7

\* The balance is all that was ever credited less all that was ever taken, so
\* what the owner is shown can be reconciled with the ledger.
THEOREM BalanceIsSum == Spec => [](settings.balance = Brought(Len(ledger)) - Taken(Len(ledger)))
<1>1. IInv => settings.balance = Brought(Len(ledger)) - Taken(Len(ledger))
  BY Telescopes DEF IInv
<1>2. QED
  BY <1>1, Inductive, PTL

----------------------------------------------------------------------------
(* The wallet implements the account: a commit is a credit, a reversal, a  *)
(* grant or a charge; a write of the settings configures; nothing else     *)
(* shows.                                                                  *)

Phases == [o \in Order |-> Phase(o)]

\* The account's phases, from the two sets.
LEMMA PhaseOf ==
  Phases = [o \in Order |-> IF o \in Reversed THEN "reversed"
                            ELSE IF o \in Credited THEN "credited" ELSE "open"]
<1> SUFFICES ASSUME NEW o \in Order
             PROVE  Phase(o) = IF o \in Reversed THEN "reversed"
                               ELSE IF o \in Credited THEN "credited" ELSE "open"
  BY DEF Phases
<1>1. HasRow("refund", o) <=> o \in Reversed
  BY DEF Reversed
<1>2. HasRow("topup", o) <=> o \in Credited
  BY DEF Credited
<1>3. QED
  BY <1>1, <1>2 DEF Phase

\* Every step of the wallet is a step of the account, or shows nothing.
LEMMA AccountStep == IInv /\ IInv' /\ [Next]_vars => [Account!ANext]_(Account!avars)
<1> SUFFICES ASSUME IInv, IInv', [Next]_vars PROVE [Account!ANext]_(Account!avars)
  OBVIOUS
<1>a. /\ TypeOK /\ LockDiscipline /\ OrderLocals /\ settings \in Settings
      /\ \A s \in Session : Relies(s) /\ loc[s] \in Local
      /\ \A s \in Session : pc[s] \in Locked => loc[s].after = settings.balance + loc[s].amount
      /\ Reversed \subseteq Credited
      /\ \A o \in Order : Credits[o] \in Int
      /\ settings.balance \in Int
  BY Parts, CreditsAssumption
     DEF Accounted, Typed, Agreed, Relying, Backed, TypeOK, Reversed, LockDiscipline, Settings
<1>b. settings' \in Settings
  BY DEF IInv, TypeOK
<1>c. /\ Phases = [o \in Order |-> IF o \in Reversed THEN "reversed"
                                   ELSE IF o \in Credited THEN "credited" ELSE "open"]
      /\ Phases' = [o \in Order |-> IF o \in Reversed' THEN "reversed"
                                    ELSE IF o \in Credited' THEN "credited" ELSE "open"]
  <2>1. (Phases = [o \in Order |-> IF o \in Reversed THEN "reversed"
                                   ELSE IF o \in Credited THEN "credited" ELSE "open"])'
    BY PhaseOf, PTL
  <2>2. QED
    BY <2>1, PhaseOf
<1>1. ASSUME UNCHANGED <<settings, ledger>> PROVE [Account!ANext]_(Account!avars)
  <2>1. Phases' = Phases
    BY <1>1, <1>c, RowsKept
  <2>2. QED
    BY <1>1, <2>1 DEF Account!avars, Phases
<1>2. ASSUME UNCHANGED ledger, settings'.balance = settings.balance
      PROVE  [Account!ANext]_(Account!avars)
  <2>1. Phases' = Phases
    BY <1>2, <1>c, RowsKept
  <2>2. Account!Configure
    BY <1>2, <2>1, <1>b DEF Account!Configure, Settings, Phases
  <2>3. QED
    BY <2>2 DEF Account!ANext
\* What a commit does to the account.
<1>d. ASSUME NEW s \in Session, NEW kind \in {"topup", "deduction", "refund"},
             CommitRow(s, kind), pc[s] \in Locked
      PROVE  /\ settings'.balance = settings.balance + loc[s].amount
             /\ settings'.enabled = settings.enabled
             /\ settings'.bypass = settings.bypass
  BY <1>a, <1>d, CommitStep
<1>3. ASSUME NEW s \in Session, DeductCommit(s) PROVE [Account!ANext]_(Account!avars)
  <2> DEFINE c == -loc[s].amount
  <2>1. /\ settings'.balance = settings.balance + loc[s].amount
        /\ settings'.enabled = settings.enabled
        /\ settings'.bypass = settings.bypass
    BY <1>3, <1>d DEF DeductCommit, Locked
  <2>2. Phases' = Phases
    <3>1. \A o \in Order : /\ o \in Credited' <=> o \in Credited
                           /\ o \in Reversed' <=> o \in Reversed
      BY <1>3, <1>a, RowAdded DEF DeductCommit
    <3>2. QED
      BY <3>1, <1>c
  <2>3. /\ c \in Costs /\ loc[s].amount \in Int
        /\ settings.bypass \/ (settings.enabled /\ settings.balance >= c)
    BY <1>3, <1>a DEF DeductCommit, Relies, Local
  <2>4. settings'.balance = settings.balance - c
    BY <1>a, <2>1, <2>3
  <2>5. Account!Charge(c)
    BY <2>1, <2>2, <2>3, <2>4 DEF Account!Charge, Phases
  <2>6. QED
    BY <2>3, <2>5 DEF Account!ANext
<1>4. ASSUME NEW s \in Session, TopupCommit(s) PROVE [Account!ANext]_(Account!avars)
  <2> DEFINE o == loc[s].order
  <2>1. /\ settings'.balance = settings.balance + loc[s].amount
        /\ settings'.enabled = settings.enabled
        /\ settings'.bypass = settings.bypass
    BY <1>4, <1>d DEF TopupCommit, Locked
  <2>2. \A p \in Order : /\ p \in Credited' <=> p \in Credited \/ p = o
                         /\ p \in Reversed' <=> p \in Reversed
    BY <1>4, <1>a, RowAdded DEF TopupCommit
  <2>3. CASE o = NoOrder
    <3>1. loc[s].amount \in Grants
      BY <1>4, <1>a, <2>3 DEF TopupCommit, Relies
    <3>2. Phases' = Phases
      BY <1>c, <2>2, <2>3, OrderAssumption
    <3>3. Account!Grant(loc[s].amount)
      BY <2>1, <3>2 DEF Account!Grant, Phases
    <3>4. QED
      BY <3>1, <3>3 DEF Account!ANext
  <2>4. CASE o # NoOrder
    <3>1. /\ o \in Order /\ loc[s].amount = Credits[o]
          /\ o \notin Credited
      BY <1>4, <1>a, <2>4 DEF TopupCommit, TopupUnique, Relies, Local, Credited
    <3> HIDE DEF o
    <3>2. Phases[o] = "open" /\ Phases' = [Phases EXCEPT ![o] = "credited"]
      BY <1>a, <1>c, <2>2, <3>1
    <3>3. Account!Credit(o)
      BY <2>1, <3>1, <3>2 DEF Account!Credit, Phases
    <3>4. QED
      BY <3>1, <3>3 DEF Account!ANext
  <2>5. QED
    BY <2>3, <2>4
<1>5. ASSUME NEW s \in Session, RefundCommit(s) PROVE [Account!ANext]_(Account!avars)
  <2> DEFINE o == loc[s].order
  <2>1. /\ settings'.balance = settings.balance + loc[s].amount
        /\ settings'.enabled = settings.enabled
        /\ settings'.bypass = settings.bypass
    BY <1>5, <1>d DEF RefundCommit, Locked
  <2>2. \A p \in Order : /\ p \in Credited' <=> p \in Credited
                         /\ p \in Reversed' <=> p \in Reversed \/ p = o
    BY <1>5, <1>a, RowAdded DEF RefundCommit
  <2>3. /\ o \in Order /\ o \in Credited /\ o \notin Reversed
        /\ loc[s].amount = -Credits[o]
    BY <1>5, <1>a DEF RefundCommit, Relies, OrderLocals, Reversed
  <2> HIDE DEF o
  <2>4. Phases[o] = "credited" /\ Phases' = [Phases EXCEPT ![o] = "reversed"]
    BY <1>c, <2>2, <2>3
  <2>5. settings'.balance = settings.balance - Credits[o]
    BY <1>a, <2>1, <2>3
  <2>6. Account!Reverse(o)
    BY <2>1, <2>4, <2>5 DEF Account!Reverse, Phases
  <2>7. QED
    BY <2>3, <2>6 DEF Account!ANext
<1>6. ASSUME NEW s \in Session, EditWrite(s) PROVE [Account!ANext]_(Account!avars)
  BY <1>2, <1>6, <1>a DEF EditWrite, Settings
<1>7. ASSUME NEW b \in BOOLEAN, SetBypass(b) PROVE [Account!ANext]_(Account!avars)
  BY <1>2, <1>7, <1>a DEF SetBypass, Settings
<1>8. QED
  BY <1>1, <1>3, <1>4, <1>5, <1>6, <1>7
     DEF Next, vars, Quiescent, Continue, Arrive, Abort, SettleNothing, SettleBegin, DeductLock,
         DeductRejected, CreateOrder, PaymentCreated, PaymentFailed, TopupCheck, TopupLock,
         TopupConflict, MarkDelivered, RefundLock, RefundConflict, MarkRefunded,
         GuardAdmits, TopupWithinCap, DeliveryWebhook, RefundWebhook, DirectTopup, EditRead,
         CancelOrder, CustomerPays

\* Sessions, locks, snapshots, webhooks and crashes add nothing to what the
\* account allows.
THEOREM Implementation == Spec => ImplementsAccount
<1>1. Init => Account!AInit
  <2> SUFFICES ASSUME Init PROVE Account!AInit
    OBVIOUS
  <2>1. \A o \in Order : Phase(o) = "open"
    BY DEF Init, Phase, HasRow
  <2>2. QED
    BY <2>1 DEF Init, Account!AInit
<1>2. QED
  BY <1>1, Inductive, AccountStep, PTL DEF Spec, ImplementsAccount, Account!ASpec
=============================================================================

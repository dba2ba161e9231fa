-------------------------- MODULE ExtraUsageWallet --------------------------
(***************************************************************************)
(* The extra-usage wallet of one project: its settings row, its immutable  *)
(* ledger, and the top-up orders that feed it.                             *)
(*                                                                         *)
(* A session is one HTTP handler goroutine together with the database      *)
(* connection it uses.  The steps of a session are the SQL statements the  *)
(* handler issues, so that every interleaving Postgres allows at READ      *)
(* COMMITTED is a behaviour of this module:                                *)
(*   - a plain SELECT sees the committed state of its own instant;         *)
(*   - an UPDATE of the settings row waits for the row lock, then is       *)
(*     evaluated again on the newest committed row, while the tables it    *)
(*     only reads keep the snapshot taken when the statement began;        *)
(*   - what a transaction writes is visible to others once it commits.     *)
(*                                                                         *)
(* A project without a settings row behaves like one with the default row  *)
(* (disabled, balance 0, no limit), and the first INSERT ... ON CONFLICT   *)
(* makes a second one wait exactly as a row lock does; so the row is       *)
(* always present here.  One calendar day and month are modelled.          *)
(***************************************************************************)
EXTENDS Integers, Sequences, Functions

CONSTANTS
  Session,      \* handler goroutines, each with its database connection
  NoSession,    \* nobody holds the lock of the settings row
  Order,        \* identifiers of extra-usage top-up orders
  NoOrder,      \* order_id of a ledger row that belongs to no order
  Credits,      \* credits each order buys (extra_usage_amount_credits)
  Costs,        \* what a request may cost, in credits
  Grants,       \* what a superadmin may add directly, in credits
  Limits,       \* monthly limits an owner may set; 0 means no limit
  DailyCap,     \* DailyTopupLimitCredits; 0 means no cap
  Budget        \* bound on requests, grants, edits and aborts of a behaviour

ASSUME SessionAssumption == NoSession \notin Session
ASSUME OrderAssumption   == NoOrder \notin Order
ASSUME CreditsAssumption == Credits \in [Order -> Nat \ {0}]
ASSUME AmountAssumption  == /\ Costs \subseteq Nat \ {0}
                            /\ Grants \subseteq Nat \ {0}
                            /\ Limits \subseteq Nat
                            /\ DailyCap \in Nat
ASSUME BudgetAssumption  == Budget \in [{"request", "grant", "edit", "abort"} -> Nat]

VARIABLES
  settings,     \* the committed extra_usage_settings row
  ledger,       \* committed extra_usage_transactions rows, in commit order
  holder,       \* the session whose transaction holds the settings row lock
  status,       \* orders.status of every top-up order
  payment,      \* what the payment service knows of every order
  pc,           \* where each session is in its handler
  loc,          \* the handler's local variables
  budget        \* what is left of Budget

vars == <<settings, ledger, holder, status, payment, pc, loc, budget>>

----------------------------------------------------------------------------
(* State.                                                                  *)

OrderStatus == {"none", "pending", "paying", "delivered", "refunded", "cancelled", "failed"}
Payment     == {"none", "open", "short", "full"}

\* Sessions inside a transaction that holds the row lock.
Locked == {"deduct_ins", "topup_ins", "refund_ins"}

Label == Locked \cup {"idle", "serving", "deduct_wait", "topup_check", "topup_wait",
                      "mark_delivered", "refund_wait", "mark_refunded",
                      "insert", "payment", "edit_wait"}

Settings == [enabled : BOOLEAN, bypass : BOOLEAN, balance : Int, limit : Nat]

Row == [kind   : {"topup", "deduction", "refund"},
        amount : Int,                   \* positive credits, negative debits
        after  : Int,                   \* balance_after_credits
        order  : Order \cup {NoOrder}]

Local == [order   : Order \cup {NoOrder},
          amount  : Int,       \* signed amount the transaction applies
          after   : Int,       \* newBalance returned by its UPDATE
          seen    : Nat,       \* length of the ledger in the statement's snapshot
          enabled : BOOLEAN,   \* fields about to be upserted
          limit   : Nat]

NoLocals == [order |-> NoOrder, amount |-> 0, after |-> 0, seen |-> 0,
             enabled |-> FALSE, limit |-> 0]

Init ==
  /\ settings = [enabled |-> FALSE, bypass |-> FALSE, balance |-> 0, limit |-> 0]
  /\ ledger = <<>>
  /\ holder = NoSession
  /\ status = [o \in Order |-> "none"]
  /\ payment = [o \in Order |-> "none"]
  /\ pc = [s \in Session |-> "idle"]
  /\ loc = [s \in Session |-> NoLocals]
  /\ budget = Budget

HasRow(kind, o) == \E i \in 1..Len(ledger) : ledger[i].kind = kind /\ ledger[i].order = o

\* The month's deductions among the first n ledger rows.
MonthSpend(n) ==
  LET debits == {i \in 1..n : ledger[i].kind = "deduction"}
  IN  SumFunctionOnSet([i \in debits |-> -ledger[i].amount], debits)

\* The day's top-ups that count against the cap; a pending order does not.
DayCredits == SumFunctionOnSet(Credits, {o \in Order : status[o] \in {"paying", "delivered"}})

\* Fault: the limit is compared with what was spent before this debit.
EligibleSpentOnly(cost, seen) ==
  /\ settings.bypass \/ settings.enabled
  /\ settings.bypass \/ settings.balance >= cost
  /\ settings.limit = 0 \/ MonthSpend(seen) < settings.limit

\* The WHERE clause of the conditional debit, on the row's current version and
\* on the month_spend of the snapshot the statement began with.
Eligible(cost, seen) ==
  /\ settings.bypass \/ settings.enabled
  /\ settings.bypass \/ settings.balance >= cost
  /\ settings.limit = 0 \/ MonthSpend(seen) + cost <= settings.limit

----------------------------------------------------------------------------
(* Steps of a session.                                                     *)

Goto(s, label) == pc' = [pc EXCEPT ![s] = label]

\* Writes the response: the handler's locals are gone.
Return(s) == /\ Goto(s, "idle")
             /\ loc' = [loc EXCEPT ![s] = NoLocals]

Spend(kind) == /\ budget[kind] > 0
               /\ budget' = [budget EXCEPT ![kind] = @ - 1]

\* Fault: the new balance is computed from a read that takes no lock.
LockAndAddUnlocked(s, amount) ==
  /\ holder' = s
  /\ loc' = [loc EXCEPT ![s] = [@ EXCEPT !.amount = amount, !.after = settings.balance + amount]]

\* An UPDATE of the settings row is granted the lock: the new balance is
\* computed from the newest committed row and stays private until the commit.
LockAndAdd(s, amount) ==
  /\ holder = NoSession
  /\ holder' = s
  /\ loc' = [loc EXCEPT ![s] = [@ EXCEPT !.amount = amount, !.after = settings.balance + amount]]

\* INSERT of the ledger row and COMMIT: both writes appear together.
CommitRow(s, kind) ==
  /\ settings' = [settings EXCEPT !.balance = loc[s].after]
  /\ ledger' = Append(ledger, [kind   |-> kind,
                               amount |-> loc[s].amount,
                               after  |-> loc[s].after,
                               order  |-> loc[s].order])
  /\ holder' = NoSession

----------------------------------------------------------------------------
(* Serving a request on extra usage: the guard, the request, settlement.   *)

\* ExtraUsageGuardMiddleware lets the request through.  A rejection changes
\* no state.  It reads the settings and then the month's spend, which only
\* grows: what it admits, it would have admitted at the first of the two.
GuardAdmits(s) ==
  /\ pc[s] = "idle"
  /\ Spend("request")
  /\ settings.bypass \/ (settings.enabled /\ settings.balance > 0)
  /\ settings.limit = 0 \/ MonthSpend(Len(ledger)) < settings.limit
  /\ Goto(s, "serving")
  /\ UNCHANGED <<settings, ledger, holder, status, payment, loc>>

\* The provider reported no usage, or the cost cannot be computed: no charge.
SettleNothing(s) ==
  /\ pc[s] = "serving"
  /\ Return(s)
  /\ UNCHANGED <<settings, ledger, holder, status, payment, budget>>

\* The debit statement begins: its snapshot fixes month_spend, and it goes on
\* to wait for the row only if the row qualifies in that snapshot.
SettleBegin(s, cost) ==
  /\ pc[s] = "serving"
  /\ IF Eligible(cost, Len(ledger))
       THEN /\ Goto(s, "deduct_wait")
            /\ loc' = [loc EXCEPT ![s] = [@ EXCEPT !.amount = -cost, !.seen = Len(ledger)]]
       ELSE Return(s)
  /\ UNCHANGED <<settings, ledger, holder, status, payment, budget>>

\* Fault: the row is not looked at again once the lock is granted.
DeductLockStale(s) ==
  /\ pc[s] = "deduct_wait"
  /\ LockAndAdd(s, loc[s].amount)
  /\ Goto(s, "deduct_ins")
  /\ UNCHANGED <<settings, ledger, status, payment, budget>>

\* The row lock is granted and the row still qualifies in its newest version.
DeductLock(s) ==
  /\ pc[s] = "deduct_wait"
  /\ Eligible(-loc[s].amount, loc[s].seen)
  /\ LockAndAdd(s, loc[s].amount)
  /\ Goto(s, "deduct_ins")
  /\ UNCHANGED <<settings, ledger, status, payment, budget>>

\* The row no longer qualifies: classifyDeductFailure picks the error, and the
\* request was served without a charge.
DeductRejected(s) ==
  /\ pc[s] = "deduct_wait"
  /\ holder = NoSession
  /\ ~Eligible(-loc[s].amount, loc[s].seen)
  /\ Return(s)
  /\ UNCHANGED <<settings, ledger, holder, status, payment, budget>>

DeductCommit(s) ==
  /\ pc[s] = "deduct_ins"
  /\ CommitRow(s, "deduction")
  /\ Return(s)
  /\ UNCHANGED <<status, payment, budget>>

----------------------------------------------------------------------------
(* Creating, paying and cancelling a top-up order.                         *)

\* handleCreateExtraUsageTopup has validated the amount and summed the day's
\* top-ups.  The order is only inserted by a later statement.
TopupWithinCap(s, o) ==
  /\ pc[s] = "idle"
  /\ status[o] = "none"
  /\ \A t \in Session : ~(pc[t] = "insert" /\ loc[t].order = o)
  /\ DailyCap > 0 => DayCredits + Credits[o] <= DailyCap
  /\ Goto(s, "insert")
  /\ loc' = [loc EXCEPT ![s] = [@ EXCEPT !.order = o]]
  /\ UNCHANGED <<settings, ledger, holder, status, payment, budget>>

CreateOrder(s) ==
  /\ pc[s] = "insert"
  /\ status' = [status EXCEPT ![loc[s].order] = "pending"]
  /\ Goto(s, "payment")
  /\ UNCHANGED <<settings, ledger, holder, payment, loc, budget>>

\* CreatePayment answered; UpdateOrderPayment sets the status whatever it is.
PaymentCreated(s) ==
  /\ pc[s] = "payment"
  /\ status' = [status EXCEPT ![loc[s].order] = "paying"]
  /\ payment' = [payment EXCEPT ![loc[s].order] = "open"]
  /\ Return(s)
  /\ UNCHANGED <<settings, ledger, holder, budget>>

\* No payment client, or CreatePayment failed.
PaymentFailed(s) ==
  /\ pc[s] = "payment"
  /\ status' = [status EXCEPT ![loc[s].order] = "failed"]
  /\ Return(s)
  /\ UNCHANGED <<settings, ledger, holder, payment, budget>>

\* Fault: the UPDATE lets a delivered order be cancelled.
CancelOrderDelivered(o) ==
  /\ status[o] \in {"pending", "paying", "delivered"}
  /\ status' = [status EXCEPT ![o] = "cancelled"]
  /\ UNCHANGED <<settings, ledger, holder, payment, pc, loc, budget>>

\* One conditional UPDATE; the read before it can only refuse earlier.
CancelOrder(o) ==
  /\ status[o] \in {"pending", "paying"}
  /\ status' = [status EXCEPT ![o] = "cancelled"]
  /\ UNCHANGED <<settings, ledger, holder, payment, pc, loc, budget>>

\* The customer pays the open intent, in full or not; cancelling the order
\* does not close the intent.
CustomerPays(o, amount) ==
  /\ payment[o] = "open"
  /\ payment' = [payment EXCEPT ![o] = amount]
  /\ UNCHANGED <<settings, ledger, holder, status, pc, loc, budget>>

----------------------------------------------------------------------------
(* Delivery webhook.                                                       *)

\* Fault: the paid amount is not compared with the order's.
DeliveryWebhookAnyAmount(s, o) ==
  /\ pc[s] = "idle"
  /\ payment[o] \in {"short", "full"}
  /\ status[o] = "paying"
  /\ Goto(s, "topup_check")
  /\ loc' = [loc EXCEPT ![s] = [@ EXCEPT !.order = o, !.amount = Credits[o]]]
  /\ UNCHANGED <<settings, ledger, holder, status, payment, budget>>

\* The payment service reports a paid order, as often as it likes.  Any other
\* status or a short payment is answered without a state change.
DeliveryWebhook(s, o) ==
  /\ pc[s] = "idle"
  /\ payment[o] = "full"
  /\ status[o] = "paying"
  /\ Goto(s, "topup_check")
  /\ loc' = [loc EXCEPT ![s] = [@ EXCEPT !.order = o, !.amount = Credits[o]]]
  /\ UNCHANGED <<settings, ledger, holder, status, payment, budget>>

\* Fault: no idempotency fast path, only the unique index.
TopupCheckNone(s) ==
  /\ pc[s] = "topup_check"
  /\ Goto(s, "topup_wait")
  /\ UNCHANGED <<settings, ledger, holder, status, payment, loc, budget>>

\* TopUpExtraUsage: the idempotency fast path.
TopupCheck(s) ==
  /\ pc[s] = "topup_check"
  /\ Goto(s, IF HasRow("topup", loc[s].order) THEN "mark_delivered" ELSE "topup_wait")
  /\ UNCHANGED <<settings, ledger, holder, status, payment, loc, budget>>

\* A superadmin's direct top-up names no order, so it has no fast path.
DirectTopup(s, amount) ==
  /\ pc[s] = "idle"
  /\ Spend("grant")
  /\ Goto(s, "topup_wait")
  /\ loc' = [loc EXCEPT ![s] = [@ EXCEPT !.amount = amount]]
  /\ UNCHANGED <<settings, ledger, holder, status, payment>>

TopupLock(s) ==
  /\ pc[s] = "topup_wait"
  /\ LockAndAdd(s, loc[s].amount)
  /\ Goto(s, "topup_ins")
  /\ UNCHANGED <<settings, ledger, status, payment, budget>>

\* Fault: no unique index on top-up rows.
TopupUniqueMissing(s) == pc[s] = "topup_ins"

\* uniq_eut_topup_order: NULL order ids never collide.
TopupUnique(s) == loc[s].order = NoOrder \/ ~HasRow("topup", loc[s].order)

TopupCommit(s) ==
  /\ pc[s] = "topup_ins"
  /\ TopupUnique(s)
  /\ CommitRow(s, "topup")
  /\ IF loc[s].order = NoOrder
       THEN Return(s)
       ELSE Goto(s, "mark_delivered") /\ UNCHANGED loc
  /\ UNCHANGED <<status, payment, budget>>

\* The unique index refuses the row: the transaction rolls back and the
\* webhook is answered 500.
TopupConflict(s) ==
  /\ pc[s] = "topup_ins"
  /\ ~TopupUnique(s)
  /\ holder' = NoSession
  /\ Return(s)
  /\ UNCHANGED <<settings, ledger, status, payment, budget>>

\* UpdateOrderStatus overwrites whatever status the order has by now.
MarkDelivered(s) ==
  /\ pc[s] = "mark_delivered"
  /\ status' = [status EXCEPT ![loc[s].order] = "delivered"]
  /\ Return(s)
  /\ UNCHANGED <<settings, ledger, holder, payment, budget>>

----------------------------------------------------------------------------
(* Refund webhook.                                                         *)

\* The payment service reports a full refund.  A partial one, an order already
\* refunded and an order not delivered are answered without a state change.
RefundWebhook(s, o) ==
  /\ pc[s] = "idle"
  /\ payment[o] = "full"
  /\ status[o] = "delivered"
  /\ Goto(s, "refund_wait")
  /\ loc' = [loc EXCEPT ![s] = [@ EXCEPT !.order = o]]
  /\ UNCHANGED <<settings, ledger, holder, status, payment, budget>>

\* RefundExtraUsageTopup finds the top-up row and takes its amount back; the
\* balance may go negative.
RefundLock(s) ==
  /\ pc[s] = "refund_wait"
  /\ \E i \in 1..Len(ledger) :
       /\ ledger[i].kind = "topup" /\ ledger[i].order = loc[s].order
       /\ LockAndAdd(s, -ledger[i].amount)
  /\ Goto(s, "refund_ins")
  /\ UNCHANGED <<settings, ledger, status, payment, budget>>

RefundCommit(s) ==
  /\ pc[s] = "refund_ins"
  /\ ~HasRow("refund", loc[s].order)
  /\ CommitRow(s, "refund")
  /\ Goto(s, "mark_refunded")
  /\ UNCHANGED <<status, payment, loc, budget>>

\* uniq_eut_refund_order refuses the row: rolled back, and treated as done.
RefundConflict(s) ==
  /\ pc[s] = "refund_ins"
  /\ HasRow("refund", loc[s].order)
  /\ holder' = NoSession
  /\ Goto(s, "mark_refunded")
  /\ UNCHANGED <<settings, ledger, status, payment, loc, budget>>

\* Best effort: its failure is Abort.
MarkRefunded(s) ==
  /\ pc[s] = "mark_refunded"
  /\ status' = [status EXCEPT ![loc[s].order] = "refunded"]
  /\ Return(s)
  /\ UNCHANGED <<settings, ledger, holder, payment, budget>>

----------------------------------------------------------------------------
(* Settings.                                                               *)

\* Fault: a limit below zero is accepted.
EditReadNegative(s, enabled, limit) ==
  /\ pc[s] = "idle"
  /\ Spend("edit")
  /\ Goto(s, "edit_wait")
  /\ loc' = [loc EXCEPT ![s] = [@ EXCEPT !.enabled = enabled, !.limit = limit - 1]]
  /\ UNCHANGED <<settings, ledger, holder, status, payment>>

\* handleUpdateExtraUsage has read the row to fill in the field the body leaves
\* out: what it writes later was chosen, or read, now.
EditRead(s, enabled, limit) ==
  /\ pc[s] = "idle"
  /\ Spend("edit")
  /\ Goto(s, "edit_wait")
  /\ loc' = [loc EXCEPT ![s] = [@ EXCEPT !.enabled = enabled, !.limit = limit]]
  /\ UNCHANGED <<settings, ledger, holder, status, payment>>

\* UpsertExtraUsageSettings: one statement that writes both fields and never
\* the balance.
EditWrite(s) ==
  /\ pc[s] = "edit_wait"
  /\ holder = NoSession
  /\ settings' = [settings EXCEPT !.enabled = loc[s].enabled, !.limit = loc[s].limit]
  /\ Return(s)
  /\ UNCHANGED <<ledger, holder, status, payment, budget>>

SetBypass(bypass) ==
  /\ Spend("edit")
  /\ holder = NoSession
  /\ settings' = [settings EXCEPT !.bypass = bypass]
  /\ UNCHANGED <<ledger, holder, status, payment, pc, loc>>

----------------------------------------------------------------------------
\* The process dies, or a statement fails: the open transaction rolls back and
\* the rest of the handler does not run.
Abort(s) ==
  /\ pc[s] # "idle"
  /\ Spend("abort")
  /\ holder' = IF holder = s THEN NoSession ELSE holder
  /\ Return(s)
  /\ UNCHANGED <<settings, ledger, status, payment>>

\* Nothing is running: the only state in which the system may stop.
Quiescent == (\A s \in Session : pc[s] = "idle") /\ UNCHANGED vars

\* What a session does once it has begun.
Continue(s) ==
  \/ SettleNothing(s) \/ \E c \in Costs : SettleBegin(s, c)
  \/ DeductLock(s) \/ DeductRejected(s) \/ DeductCommit(s)
  \/ CreateOrder(s) \/ PaymentCreated(s) \/ PaymentFailed(s)
  \/ TopupCheck(s) \/ TopupLock(s) \/ TopupCommit(s) \/ TopupConflict(s) \/ MarkDelivered(s)
  \/ RefundLock(s) \/ RefundCommit(s) \/ RefundConflict(s) \/ MarkRefunded(s)
  \/ EditWrite(s)

\* What begins a handler.
Arrive(s) ==
  \/ GuardAdmits(s)
  \/ \E o \in Order : TopupWithinCap(s, o) \/ DeliveryWebhook(s, o) \/ RefundWebhook(s, o)
  \/ \E a \in Grants : DirectTopup(s, a)
  \/ \E e \in BOOLEAN, l \in Limits : EditRead(s, e, l)

Next ==
  \/ \E s \in Session : Continue(s) \/ Arrive(s) \/ Abort(s)
  \/ \E o \in Order : CancelOrder(o) \/ \E a \in {"short", "full"} : CustomerPays(o, a)
  \/ \E b \in BOOLEAN : SetBypass(b)
  \/ Quiescent

\* A handler that has begun runs on; a lock that is free again and again is
\* granted (Postgres queues the waiters of a row lock); the payment service
\* repeats the delivery of a paid order until it is accepted.
Fairness ==
  /\ \A s \in Session : SF_vars(Continue(s))
  /\ \A o \in Order : SF_vars(\E s \in Session : DeliveryWebhook(s, o))

Spec     == Init /\ [][Next]_vars
FairSpec == Spec /\ Fairness

----------------------------------------------------------------------------
(* Properties.                                                             *)

\* The types of the variables.
TypeOK ==
  /\ settings \in Settings
  /\ ledger \in Seq(Row)
  /\ holder \in Session \cup {NoSession}
  /\ status \in [Order -> OrderStatus]
  /\ payment \in [Order -> Payment]
  /\ pc \in [Session -> Label]
  /\ loc \in [Session -> Local]
  /\ budget \in [{"request", "grant", "edit", "abort"} -> Nat]

\* The ledger is the audit trail migration 017 promises: every row's
\* balance_after is its predecessor's plus its own amount, and the settings
\* row carries the last one.  No update of the balance is ever lost.
LedgerExplainsBalance ==
  /\ \A i \in 1..Len(ledger) :
       ledger[i].after = (IF i = 1 THEN 0 ELSE ledger[i-1].after) + ledger[i].amount
  /\ settings.balance = IF Len(ledger) = 0 THEN 0 ELSE ledger[Len(ledger)].after

\* However often the webhooks are repeated, an order is credited at most once
\* and refunded at most once, and only a credit that was applied is taken back.
AtMostOncePerOrder ==
  \A i, j \in 1..Len(ledger) :
    ledger[i].order # NoOrder =>
      /\ (ledger[j].order = ledger[i].order /\ ledger[j].kind = ledger[i].kind) => i = j
      /\ ledger[i].kind = "refund" =>
           \E k \in 1..(i-1) : /\ ledger[k].kind = "topup"
                               /\ ledger[k].order = ledger[i].order
                               /\ ledger[k].amount = -ledger[i].amount

\* Money and status agree across the gap between the ledger commit and the
\* status update: an order is credited only when it is paid in full, it reads
\* delivered or refunded only when it was credited, and once refunded money
\* has moved it reads one of the two.
StatusBacked ==
  \A o \in Order :
    /\ HasRow("topup", o) => payment[o] = "full"
    /\ status[o] \in {"delivered", "refunded"} => HasRow("topup", o)
    /\ HasRow("refund", o) => status[o] \in {"delivered", "refunded"}

\* Once an order was delivered no late step of any handler - of the one that
\* created it, of a cancel, of another delivery - makes it look undelivered.
DeliveredNeverReopened ==
  [][\A o \in Order : status[o] \in {"delivered", "refunded"}
                        => status'[o] \in {"delivered", "refunded"}]_vars

\* The only way a debit exceeds the monthly limit in force is another debit
\* committed after its month_spend snapshot; no change of the settings between
\* its steps, and no bypass, gets it past the limit.
OverLimitOnlyByRace ==
  [][\A s \in Session :
       DeductCommit(s) /\ settings.limit > 0 /\ MonthSpend(Len(ledger))' > settings.limit
         => \E i \in (loc[s].seen + 1)..Len(ledger) : ledger[i].kind = "deduction"]_vars

\* The wallet implements the abstract account.
Phase(o) == CASE HasRow("refund", o) -> "reversed"
              [] HasRow("topup", o) /\ ~HasRow("refund", o) -> "credited"
              [] OTHER -> "open"

Account == INSTANCE CreditAccount WITH
             balance <- settings.balance,
             enabled <- settings.enabled,
             bypass  <- settings.bypass,
             phase   <- [o \in Order |-> Phase(o)]

\* Every behaviour of the wallet is one of the account: credits, reversals and
\* charges happen one at a time, each at most once and each with permission.
ImplementsAccount == Account!ASpec

\* A paid order is delivered in the end, whatever crashes between the credit
\* and the status update, unless it is cancelled.
PaidIsSettled ==
  \A o \in Order : (payment[o] = "full" /\ status[o] = "paying")
                     ~> status[o] \in {"delivered", "refunded", "cancelled"}

----------------------------------------------------------------------------
(* The inductive invariant behind the safety properties.                   *)

\* The lock is held by exactly the session inside its transaction, and the
\* balance that session is about to write is still the committed one plus its
\* own amount.
LockDiscipline ==
  \A s \in Session :
    /\ pc[s] \in Locked <=> holder = s
    /\ pc[s] \in Locked => loc[s].after = settings.balance + loc[s].amount

\* Which handlers carry an order.
OrderLocals ==
  \A s \in Session :
    /\ pc[s] \in {"idle", "serving", "deduct_wait", "deduct_ins", "edit_wait"}
         => loc[s].order = NoOrder
    /\ pc[s] \in {"topup_check", "mark_delivered", "refund_wait", "refund_ins",
                  "mark_refunded", "insert", "payment"}
         => loc[s].order \in Order

\* One handler creates an order, and no money moves before it is done.
Creating ==
  /\ \A o \in Order : status[o] = "none" => payment[o] = "none"
  /\ \A s \in Session :
       /\ pc[s] = "insert" => status[loc[s].order] = "none"
       /\ pc[s] = "payment" => /\ payment[loc[s].order] = "none"
                               /\ status[loc[s].order] \in {"pending", "cancelled"}
  /\ \A s, t \in Session :
       /\ pc[s] \in {"insert", "payment"} /\ pc[t] \in {"insert", "payment"}
       /\ loc[s].order = loc[t].order
       => s = t

\* The orders the ledger has credited and reversed.
Credited == {o \in Order : HasRow("topup", o)}
Reversed == {o \in Order : HasRow("refund", o)}

\* What a delivery or a refund in progress may rely on.
InProgress ==
  \A s \in Session :
    /\ pc[s] \in {"topup_check", "topup_wait", "topup_ins", "mark_delivered"}
         /\ loc[s].order # NoOrder
         => payment[loc[s].order] = "full"
    /\ pc[s] \in {"mark_delivered", "refund_wait", "refund_ins", "mark_refunded"}
         => loc[s].order \in Credited
    /\ pc[s] \in {"refund_wait", "refund_ins", "mark_refunded"}
         => status[loc[s].order] \in {"delivered", "refunded"}

\* What the amounts in flight, and those in the ledger, stand for.  A debit that
\* holds the lock is still permitted by the row it locked.
Amounts ==
  /\ \A s \in Session :
       /\ pc[s] \in {"deduct_wait", "deduct_ins"} => -loc[s].amount \in Costs
       /\ pc[s] = "deduct_ins"
            => settings.bypass \/ (settings.enabled /\ settings.balance >= -loc[s].amount)
       /\ pc[s] \in {"topup_check", "topup_wait", "topup_ins"}
            => IF loc[s].order = NoOrder THEN loc[s].amount \in Grants
                                        ELSE loc[s].amount = Credits[loc[s].order]
       /\ pc[s] = "refund_ins" => loc[s].amount = -Credits[loc[s].order]
  /\ \A i \in 1..Len(ledger) :
       ledger[i].kind = "topup" /\ ledger[i].order # NoOrder
         => ledger[i].amount = Credits[ledger[i].order]

\* A snapshot is of rows that are in the ledger, and the debit that holds the
\* lock fits the limit, as far as its snapshot goes.
Snapshots ==
  /\ \A i \in 1..Len(ledger) : ledger[i].kind = "deduction" => -ledger[i].amount \in Costs
  /\ \A s \in Session :
       /\ loc[s].seen <= Len(ledger)
       /\ pc[s] = "deduct_ins" =>
            settings.limit = 0 \/ MonthSpend(loc[s].seen) - loc[s].amount <= settings.limit

IInv ==
  /\ TypeOK
  /\ LockDiscipline
  /\ OrderLocals
  /\ Creating
  /\ InProgress
  /\ Amounts
  /\ LedgerExplainsBalance
  /\ AtMostOncePerOrder
  /\ StatusBacked
  /\ Snapshots
=============================================================================

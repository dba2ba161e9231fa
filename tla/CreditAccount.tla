--------------------------- MODULE CreditAccount ---------------------------
(***************************************************************************)
(* What the extra-usage wallet promises, without sessions, locks, ledger   *)
(* rows or webhooks: every top-up order is credited at most once and       *)
(* reversed at most once, only after it was credited and by the same       *)
(* amount; a charge is taken only when the account may be charged; nothing *)
(* else moves the balance.                                                 *)
(***************************************************************************)
EXTENDS Integers

CONSTANTS Order, Credits, Costs, Grants

VARIABLES
  balance,   \* credits left; negative after an overdraft or a late refund
  phase,     \* "open", "credited" or "reversed", for every order
  enabled,   \* the owner lets the project spend
  bypass     \* the operator lets it spend without balance

avars == <<balance, phase, enabled, bypass>>

AInit == /\ balance = 0
         /\ phase = [o \in Order |-> "open"]
         /\ enabled = FALSE
         /\ bypass = FALSE

Credit(o) == /\ phase[o] = "open"
             /\ phase' = [phase EXCEPT ![o] = "credited"]
             /\ balance' = balance + Credits[o]
             /\ UNCHANGED <<enabled, bypass>>

Reverse(o) == /\ phase[o] = "credited"
              /\ phase' = [phase EXCEPT ![o] = "reversed"]
              /\ balance' = balance - Credits[o]
              /\ UNCHANGED <<enabled, bypass>>

Grant(a) == /\ balance' = balance + a
            /\ UNCHANGED <<phase, enabled, bypass>>

Charge(c) == /\ bypass \/ (enabled /\ balance >= c)
             /\ balance' = balance - c
             /\ UNCHANGED <<phase, enabled, bypass>>

Configure == /\ enabled' \in BOOLEAN
             /\ bypass' \in BOOLEAN
             /\ UNCHANGED <<balance, phase>>

ANext == \/ \E o \in Order : Credit(o) \/ Reverse(o)
         \/ \E a \in Grants : Grant(a)
         \/ \E c \in Costs : Charge(c)
         \/ Configure

ASpec == AInit /\ [][ANext]_avars
=============================================================================

------------------------ MODULE MCSubscriptionOrders ------------------------
(***************************************************************************)
(* Small instances of SubscriptionOrders for TLC.                          *)
(***************************************************************************)
EXTENDS SubscriptionOrders, TLC

\* One override and one crash can fall between any two steps.
MCBudget == [admin |-> 1, abort |-> 1]
=============================================================================

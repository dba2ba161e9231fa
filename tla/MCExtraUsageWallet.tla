------------------------- MODULE MCExtraUsageWallet -------------------------
(***************************************************************************)
(* Small instances of ExtraUsageWallet for TLC.                            *)
(***************************************************************************)
EXTENDS ExtraUsageWallet, TLC

CONSTANT o1

\* The orders buy different amounts, so that mixing them up shows.
MCCredits == [o \in Order |-> IF o = o1 THEN 2 ELSE 3]

\* Two requests can settle at the same time, beside one grant, one change of
\* the settings and one abort.
MCBudget == [request |-> 2, grant |-> 1, edit |-> 1, abort |-> 1]

\* For the run about two orders: no request, and a grant that competes with
\* them for the settings row.
MCOrderBudget == [request |-> 0, grant |-> 1, edit |-> 0, abort |-> 1]
=============================================================================

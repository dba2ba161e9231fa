------------------------- MODULE MCRequestExecution -------------------------
(***************************************************************************)
(* Small instances of RequestExecution for TLC.                            *)
(***************************************************************************)
EXTENDS RequestExecution, TLC

CONSTANT u1

\* One upstream takes a single request at a time.
MCMaxConns == [u \in Upstream |-> IF u = u1 THEN 1 ELSE 0]

\* For the safety run: requests are alike.
Symmetry == Permutations(Request)
=============================================================================

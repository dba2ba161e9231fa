------------------------------- MODULE Router -------------------------------
(***************************************************************************)
(* What the routing engine of one process shares between its requests: the *)
(* configuration of one upstream group, the connection counts, and the     *)
(* sticky binding of one (session, model) pair.                            *)
(*                                                                         *)
(* The definitions here are the single operations on that state, each of   *)
(* them atomic in the code (one call of sync.Map, one atomic counter, one  *)
(* section under the router's lock).  RequestExecution composes them into  *)
(* the handlers of requests; the background actions are whole.             *)
(*                                                                         *)
(* The balancer's policies differ only in which candidate they prefer: the *)
(* choice is arbitrary here.                                               *)
(***************************************************************************)
EXTENDS Integers, Sequences, SequencesExt

CONSTANTS
  Upstream,     \* members of the group
  NoUpstream,   \* no binding, or no upstream recorded yet
  Backup,       \* members that are used when no other is available
  MaxConns      \* MaxConcurrent of every upstream; 0 means no limit

ASSUME UpstreamAssumption == /\ IsFiniteSet(Upstream)
                             /\ NoUpstream \notin Upstream /\ Backup \subseteq Upstream
ASSUME MaxConnsAssumption == MaxConns \in [Upstream -> Nat]

VARIABLES
  serving,      \* members that are neither disabled nor draining
  binding,      \* sessionMap entry of the (session, model) pair
  conns,        \* ConnectionTracker
  cleaning      \* the cleanup has found the entry expired, not yet deleted it

routerVars == <<serving, binding, conns, cleaning>>

----------------------------------------------------------------------------
\* A binding is fresh while it is younger than sessionTTL.
Binding == [to : Upstream \cup {NoUpstream}, fresh : BOOLEAN]
Unbound == [to |-> NoUpstream, fresh |-> FALSE]

\* The process starts without a binding; a stale one is what an earlier
\* request of the session has left.
RouterInit ==
  /\ serving = Upstream
  /\ binding \in {Unbound} \cup {[to |-> u, fresh |-> FALSE] : u \in Upstream}
  /\ conns = [u \in Upstream |-> 0]
  /\ cleaning = FALSE

RouterTypeOK ==
  /\ serving \subseteq Upstream
  /\ binding \in Binding
  /\ conns \in [Upstream -> Nat]
  /\ cleaning \in BOOLEAN

----------------------------------------------------------------------------
(* Selection.                                                              *)

\* Candidates among the members of a group: below their limit, and backups
\* only when nothing else is.
Available(members) ==
  LET free == {u \in members : MaxConns[u] = 0 \/ conns[u] < MaxConns[u]}
  IN  IF free \subseteq Backup THEN free ELSE free \ Backup

\* Fault: all of the pool is drawn, however few are asked for.
RankingsAll(pool, n) == SetToSeqs(pool)

\* The orders in which a balancer may draw up to n upstreams from a pool.
Rankings(pool, n) ==
  {SubSeq(q, 1, Min({n, Cardinality(pool)})) : q \in SetToSeqs(pool)}

\* The binding is fresh and points to a candidate.
Usable(candidates) == binding.fresh /\ binding.to \in candidates

----------------------------------------------------------------------------
(* Operations on the binding and on the counts.                            *)

\* sync.Map Store, with the present time.
Bind(u) == binding' = [to |-> u, fresh |-> TRUE]

\* sync.Map LoadOrStore: an entry that is there, fresh or not, stays.
BindIfUnbound(u) == IF binding = Unbound THEN Bind(u) ELSE UNCHANGED binding

\* Load, then CompareAndDelete: a binding stored between the two stays, as if
\* it had been stored after the deletion.
Unbind(u) == binding' = IF binding.to = u THEN Unbound ELSE binding

Acquire(u) == conns' = [conns EXCEPT ![u] = @ + 1]

\* Release stops at zero.
Release(u) == conns' = [conns EXCEPT ![u] = IF @ > 0 THEN @ - 1 ELSE 0]

----------------------------------------------------------------------------
(* In the background.                                                      *)

\* sessionTTL runs out.
Expire ==
  /\ binding.fresh
  /\ binding' = [binding EXCEPT !.fresh = FALSE]
  /\ UNCHANGED <<serving, conns, cleaning>>

\* The cleanup's Range hands out an entry, and the entry has expired ...
CleanupFind ==
  /\ ~cleaning
  /\ binding # Unbound /\ ~binding.fresh
  /\ cleaning' = TRUE
  /\ UNCHANGED <<serving, binding, conns>>

\* ... and its key is deleted, whatever is stored there by now.
CleanupDelete ==
  /\ cleaning
  /\ binding' = Unbound
  /\ cleaning' = FALSE
  /\ UNCHANGED <<serving, conns>>

\* The configuration is reloaded after an upstream was set to draining, or
\* back to active.
Reload(u) ==
  /\ serving' = IF u \in serving THEN serving \ {u} ELSE serving \cup {u}
  /\ UNCHANGED <<binding, conns, cleaning>>
=============================================================================

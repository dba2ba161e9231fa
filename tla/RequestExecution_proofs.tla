----------------------- MODULE RequestExecution_proofs -----------------------
(***************************************************************************)
(* Theorems about RequestExecution, for any number of concurrent requests  *)
(* and any finite group of upstreams, whatever their providers, their      *)
(* connection limits and the retry policy.                                 *)
(***************************************************************************)
EXTENDS RequestExecution, FiniteSetTheorems, TLAPS

----------------------------------------------------------------------------
(* Lists of upstreams.                                                     *)

\* Nothing is listed twice.
Once(q) == \A i, j \in 1..Len(q) : q[i] = q[j] => i = j

\* A ranking or an ordering of fallbacks lists members of its pool, each once,
\* and a ranking no more of them than were asked for.
LEMMA DrawnOnce ==
  ASSUME NEW pool \in SUBSET Upstream
  PROVE  /\ \A q \in SetToSeqs(pool) : q \in Seq(pool) /\ Once(q)
         /\ \A n \in Nat : \A q \in Rankings(pool, n) : q \in Seq(pool) /\ Len(q) <= n /\ Once(q)
<1> DEFINE c == Cardinality(pool)
<1>1. c \in Nat
  BY UpstreamAssumption, FS_Subset, FS_CardinalityType
<1>2. ASSUME NEW q \in SetToSeqs(pool)
      PROVE  q \in [1..c -> pool] /\ \A i, j \in 1..c : i # j => q[i] # q[j]
  BY DEF SetToSeqs
<1> HIDE DEF c
<1>3. ASSUME NEW q \in SetToSeqs(pool) PROVE q \in Seq(pool) /\ Len(q) = c /\ Once(q)
  <2>1. q \in Seq(pool) /\ Len(q) = c
    BY <1>1, <1>2
  <2>2. QED
    BY <1>2, <2>1 DEF Once
<1>4. ASSUME NEW n \in Nat, NEW q \in Rankings(pool, n) PROVE q \in Seq(pool) /\ Len(q) <= n /\ Once(q)
  <2> DEFINE m == Min({n, c})
  <2>1. m \in Nat /\ m <= n /\ m <= c
    <3>1. \E x \in {n, c} : \A y \in {n, c} : x =< y
      BY <1>1
    <3>2. m \in {n, c} /\ \A y \in {n, c} : m =< y
      BY <3>1 DEF Min
    <3>3. QED
      BY <1>1, <3>2
  <2> HIDE DEF m
  <2>2. PICK p \in SetToSeqs(pool) : q = SubSeq(p, 1, m)
    BY DEF Rankings, m, c
  <2>3. p \in Seq(pool) /\ Len(p) = c /\ Once(p)
    BY <1>3
  <2>4. q \in Seq(pool) /\ Len(q) = m /\ \A i \in 1..m : q[i] = p[i]
    BY <1>1, <2>1, <2>2, <2>3
  <2>5. QED
    BY <1>1, <2>1, <2>3, <2>4 DEF Once
<1>5. QED
  BY <1>3, <1>4

\* Two lists without a member in common, one after the other.
LEMMA Joined ==
  ASSUME NEW p \in Seq(Upstream), NEW q \in Seq(Upstream), Once(p), Once(q),
         \A i \in 1..Len(p), j \in 1..Len(q) : p[i] # q[j]
  PROVE  /\ p \o q \in Seq(Upstream) /\ Len(p \o q) = Len(p) + Len(q) /\ Once(p \o q)
         /\ \A i \in 1..Len(p) : (p \o q)[i] = p[i]
<1>1. /\ p \o q \in Seq(Upstream) /\ Len(p \o q) = Len(p) + Len(q)
      /\ \A i \in 1..Len(p) : (p \o q)[i] = p[i]
      /\ \A i \in Len(p)+1..Len(p)+Len(q) : (p \o q)[i] = q[i - Len(p)]
  OBVIOUS
<1> DEFINE pq == p \o q
<1> HIDE DEF pq
<1>2. ASSUME NEW i \in 1..Len(pq), NEW j \in 1..Len(pq), pq[i] = pq[j] PROVE i = j
  <2>a. Len(p) \in Nat /\ Len(q) \in Nat
    OBVIOUS
  <2>1. CASE i <= Len(p) /\ j <= Len(p)
    BY <1>1, <1>2, <2>1, <2>a DEF pq, Once
  <2>2. CASE i <= Len(p) /\ j > Len(p)
    <3>1. j - Len(p) \in 1..Len(q) /\ pq[j] = q[j - Len(p)] /\ pq[i] = p[i] /\ i \in 1..Len(p)
      BY <1>1, <2>2, <2>a DEF pq
    <3>2. QED
      BY <1>2, <3>1
  <2>3. CASE i > Len(p) /\ j <= Len(p)
    <3>1. i - Len(p) \in 1..Len(q) /\ pq[i] = q[i - Len(p)] /\ pq[j] = p[j] /\ j \in 1..Len(p)
      BY <1>1, <2>3, <2>a DEF pq
    <3>2. QED
      BY <1>2, <3>1
  <2>4. CASE i > Len(p) /\ j > Len(p)
    <3> DEFINE ii == i - Len(p)
               jj == j - Len(p)
    <3>1. ii \in 1..Len(q) /\ pq[i] = q[ii]
      BY <1>1, <2>4, <2>a DEF pq
    <3>2. jj \in 1..Len(q) /\ pq[j] = q[jj]
      BY <1>1, <2>4, <2>a DEF pq
    <3>3. ii = jj
      <4> HIDE DEF ii, jj
      <4>1. QED
        BY <1>2, <3>1, <3>2 DEF Once
    <3>4. i \in Int /\ j \in Int
      BY <1>1, <2>a DEF pq
    <3>5. QED
      BY <2>a, <3>3, <3>4
  <2>5. QED
    BY <1>1, <2>a, <2>1, <2>2, <2>3, <2>4 DEF pq
<1>3. QED
  BY <1>1, <1>2 DEF pq, Once

----------------------------------------------------------------------------
(* What a step of one request does, and to whom.                           *)

\* The request counts as a connection of its current upstream.
Counts(r) == pc[r] \in {"call", "reply", "unfinished"}

Recorded(r) ==
  pending[r] # NoRow =>
    IF pending[r].status = "success"
    THEN pending[r].retry = IF history[r].retries > 0 \/ history[r].failover
                            THEN "retryable_error" ELSE "normal"
    ELSE pending[r].retry = "non_retryable_error" <=> ~history[r].retryable

\* What the invariant says of one request.
Good(r) ==
  /\ Fresh(r) /\ Remembered(r) /\ Bounded(r) /\ Written(r)
  /\ loc[r].attempt <= Len(loc[r].list) /\ Once(loc[r].list)
  /\ Recorded(r)

\* The variables keep their types, and no other request is touched.
Frame(r) ==
  /\ pc' \in [Request -> Label] /\ loc' \in [Request -> Locals]
  /\ row' \in [Request -> Row \cup {NoRow}] /\ pending' \in [Request -> Row \cup {NoRow}]
  /\ history' \in [Request -> History]
  /\ \A q \in Request \ {r} : /\ pc'[q] = pc[q] /\ loc'[q] = loc[q]
                              /\ pending'[q] = pending[q] /\ history'[q] = history[q]

\* A connection is taken when the request begins to count, and given back when
\* it ceases to.
Balanced(r) ==
  \/ /\ UNCHANGED conns
     /\ Counts(r)' <=> Counts(r)
     /\ Counts(r) => Current(r)' = Current(r)
  \/ Counts(r) /\ ~Counts(r)' /\ Release(Current(r))
  \/ ~Counts(r) /\ Counts(r)' /\ \E u \in Upstream : u = Current(r)' /\ Acquire(u)

RouterKept == /\ UNCHANGED <<serving, cleaning, reloads>> /\ binding' \in Binding
              /\ calm' \in {"cold", "stale", "disturbed"}

\* The steps up to the list of upstreams to try.
LEMMA SelectStep ==
  ASSUME IInv, NEW r \in Request,
         \/ \E logged \in BOOLEAN : Arrive(r, logged)
         \/ FollowBinding(r) \/ \E u \in Upstream : PickPrimary(r, u)
         \/ RefreshBinding(r) \/ ClaimBinding(r) \/ FindUnusable(r) \/ OverwriteBinding(r)
  PROVE  Frame(r) /\ Good(r)' /\ Balanced(r) /\ RouterKept /\ (calm' = "cold" => Cold')
<1> DEFINE l == loc[r]
<1>a. /\ pc \in [Request -> Label] /\ loc \in [Request -> Locals] /\ history \in [Request -> History]
      /\ row \in [Request -> Row \cup {NoRow}] /\ pending \in [Request -> Row \cup {NoRow}]
      /\ calm \in {"cold", "stale", "disturbed"}
  BY DEF IInv, TypeOK
<1>b. serving \subseteq Upstream /\ binding \in Binding
  BY DEF IInv, TypeOK, RouterTypeOK
<1>c. l \in Locals
  BY <1>a
<1>d. Fresh(r) /\ Written(r)
  BY DEF IInv
<1>e. pc[r] \in Selecting \cup {"idle"}
  BY DEF Arrive, FollowBinding, PickPrimary, RefreshBinding, ClaimBinding, FindUnusable,
         OverwriteBinding, Selecting
<1>f. /\ history[r] = NoHistory /\ l.retry = "" /\ l.attempt = 0 /\ l.list = <<>>
      /\ pending[r] = NoRow
  BY <1>d, <1>e DEF Fresh, Written, Selecting
<1>g. UNCHANGED <<serving, conns, cleaning, pending, reloads, history>>
  BY DEF Arrive, FollowBinding, PickPrimary, RefreshBinding, ClaimBinding, FindUnusable, OverwriteBinding
<1>h. calm = "cold" => Cold
  BY DEF IInv
\* The request moves on with other locals, and has not been sent anywhere.
<1>1. ASSUME NEW lab \in Selecting \cup {"attempt"}, NEW v \in Locals, Goto(r, lab), loc' = [loc EXCEPT ![r] = v],
             row' \in [Request -> Row \cup {NoRow}],
             v.retry = "", v.attempt = 0, Len(v.list) <= MaxRetries + 1, Once(v.list),
             lab \in Selecting => v.list = <<>>,
             lab = "pin" => v.primary = NoUpstream,
             lab \in Selecting \ {"pin"} => v.primary \in Upstream
      PROVE  /\ Frame(r) /\ Good(r)' /\ Balanced(r)
             /\ pc'[r] = lab /\ loc'[r] = v
  <2>1. /\ pc' \in [Request -> Label] /\ loc' \in [Request -> Locals] /\ pc'[r] = lab /\ loc'[r] = v
        /\ \A q \in Request \ {r} : pc'[q] = pc[q] /\ loc'[q] = loc[q]
    BY <1>1, <1>a DEF Goto, Label, Selecting
  <2>2. Frame(r)
    BY <1>1, <1>a, <1>g, <2>1 DEF Frame
  <2>3. v.list \in Seq(Upstream)
    BY DEF Locals
  <2>4. lab \notin Trying \cup Ended \cup {"idle", "done"}
    BY <1>1 DEF Trying, Ended, Selecting
  <2>5. Fresh(r)'
    BY <1>1, <1>f, <1>g, <2>1, <2>4 DEF Fresh, Selecting
  <2>6. Remembered(r)'
    BY <1>1, <1>f, <1>g, <2>1 DEF Remembered
  <2>7. Bounded(r)'
    <3>a. NoHistory.retries = 0
      BY DEF NoHistory
    <3>1. history'[r].retries = 0
      BY <1>f, <1>g, <3>a
    <3>2. pc'[r] \notin Trying \cup {"unfinished"}
      BY <2>1, <2>4 DEF Ended
    <3>3. loc'[r].attempt = 0 /\ Len(loc'[r].list) <= MaxRetries + 1
      BY <1>1, <2>1
    <3>4. QED
      BY <3>1, <3>2, <3>3, PolicyAssumption DEF Bounded
  <2>8. Written(r)' /\ Recorded(r)'
    BY <1>f, <1>g DEF Written, Recorded
  <2>9. Balanced(r)
    <3>1. ~Counts(r) /\ ~Counts(r)'
      BY <1>e, <2>1, <2>4 DEF Counts, Selecting, Trying, Ended
    <3>2. QED
      BY <1>g, <3>1 DEF Balanced
  <2>a. Len(v.list) \in Nat
    BY <2>3
  <2>b. v.attempt = 0
    BY <1>1
  <2>10. v.attempt <= Len(v.list)
    BY <2>a, <2>b
  <2>11. QED
    BY <1>1, <2>1, <2>2, <2>5, <2>6, <2>7, <2>8, <2>9, <2>10 DEF Good
\* The list of upstreams to try.
<1>2. ASSUME NEW u \in Upstream, NEW q \in Rankings(l.candidates \ {u}, MaxRetries), StartWith(r, u, q), UNCHANGED row
      PROVE  Frame(r) /\ Good(r)' /\ Balanced(r) /\ pc'[r] = "attempt" /\ loc'[r].primary = u
  <2> DEFINE pool == l.candidates \ {u}
             list == <<u>> \o q
  <2>1. pool \in SUBSET Upstream
    BY <1>c DEF Locals
  <2>2. q \in Seq(pool) /\ Len(q) <= MaxRetries /\ Once(q)
    BY <2>1, DrawnOnce, PolicyAssumption
  <2>3. q \in Seq(Upstream) /\ \A j \in 1..Len(q) : q[j] # u
    BY <2>1, <2>2
  <2>4. <<u>> \in Seq(Upstream) /\ Len(<<u>>) = 1 /\ <<u>>[1] = u /\ Once(<<u>>)
    BY DEF Once
  <2>5. list \in Seq(Upstream) /\ Len(list) = 1 + Len(q) /\ Once(list)
    <3>1. \A i \in 1..Len(<<u>>), j \in 1..Len(q) : <<u>>[i] # q[j]
      BY <2>3, <2>4
    <3> DEFINE one == <<u>>
    <3> HIDE DEF one
    <3>2. one \in Seq(Upstream) /\ Len(one) = 1 /\ Once(one) /\ \A i \in 1..Len(one), j \in 1..Len(q) : one[i] # q[j]
      BY <2>4, <3>1 DEF one
    <3>3. one \o q \in Seq(Upstream) /\ Len(one \o q) = Len(one) + Len(q) /\ Once(one \o q)
      BY <2>2, <2>3, <3>2, Joined
    <3>4. QED
      BY <3>2, <3>3 DEF one
  <2>6. Goto(r, "attempt") /\ loc' = [loc EXCEPT ![r] = [l EXCEPT !.primary = u, !.list = list, !.candidates = {}]]
    BY <1>2 DEF StartWith, Set
  <2> HIDE DEF list
  <2> DEFINE v == [l EXCEPT !.primary = u, !.list = list, !.candidates = {}]
  <2>7. /\ v \in Locals /\ v.retry = "" /\ v.attempt = 0 /\ v.list = list /\ v.primary = u
    BY <1>c, <1>f, <2>5 DEF Locals
  <2> HIDE DEF v
  <2>8. Len(list) <= MaxRetries + 1
    BY <2>2, <2>3, <2>5, PolicyAssumption
  <2>9. loc' = [loc EXCEPT ![r] = v]
    BY <2>6 DEF v
  <2>10. "attempt" \notin Selecting /\ "attempt" \in Selecting \cup {"attempt"}
    BY DEF Selecting
  <2>11. /\ Frame(r) /\ Good(r)' /\ Balanced(r) /\ pc'[r] = "attempt" /\ loc'[r] = v
    BY <1>1, <1>2, <1>a, <2>5, <2>6, <2>7, <2>8, <2>9, <2>10
  <2>12. QED
    BY <2>7, <2>11
\* The binding is left alone, or installed where there was none, and the
\* request itself follows it.
<1>3. ASSUME Cold, Frame(r),
             \/ binding' = binding
             \/ binding = Unbound /\ binding' # Unbound /\ binding'.fresh /\ binding'.to \in Upstream \ Backup,
             pc'[r] \in Selecting => loc'[r].candidates = Upstream \ Backup,
             pc'[r] # "overwrite",
             pc'[r] = "refresh_binding" => binding' # Unbound /\ loc'[r].primary = binding'.to,
             pc'[r] = "claim" => loc'[r].primary \in Upstream \ Backup,
             pc'[r] = "attempt" => binding' # Unbound /\ loc'[r].primary = binding'.to,
             pc'[r] \in {"pin", "refresh_binding", "claim", "attempt"}, pc'[r] = "pin" => loc'[r].primary = NoUpstream
      PROVE  Cold'
  <2>1. \A q \in Request \ {r} : pc'[q] = pc[q] /\ loc'[q] = loc[q]
    BY <1>3 DEF Frame
  <2>2. binding' = Unbound \/ (binding'.fresh /\ binding'.to \in Upstream \ Backup)
    BY <1>3 DEF Cold
  <2>3. ASSUME NEW q \in Request
        PROVE  /\ pc'[q] \in Selecting => loc'[q].candidates = Upstream \ Backup
               /\ pc'[q] # "overwrite"
               /\ pc'[q] = "refresh_binding" => binding' # Unbound /\ loc'[q].primary = binding'.to
               /\ pc'[q] = "claim" => loc'[q].primary \in Upstream \ Backup
               /\ q \in Pinned' => binding' # Unbound /\ loc'[q].primary = binding'.to
    <3>1. CASE q = r
      BY <1>3, <3>1 DEF Pinned
    <3>2. CASE q # r
      BY <1>3, <2>1, <3>2 DEF Cold, Pinned
    <3>3. QED
      BY <3>1, <3>2
  <2>4. \A q \in Pinned' : q \in Request
    BY DEF Pinned
  <2>5. QED
    BY <2>2, <2>3, <2>4 DEF Cold
<1>4. NoLocals \in Locals /\ NoLocals.retry = "" /\ NoLocals.attempt = 0 /\ NoLocals.list = <<>> /\ NoLocals.primary = NoUpstream
  <2>1. <<>> \in Seq(Upstream)
    OBVIOUS
  <2>2. QED
    BY <2>1 DEF NoLocals, Locals
<1>5. <<>> \in Seq(Upstream) /\ Len(<<>>) = 0 /\ Once(<<>>) /\ 0 <= MaxRetries + 1
  BY PolicyAssumption DEF Once
<1>6. ASSUME NEW logged \in BOOLEAN, Arrive(r, logged)
      PROVE  Frame(r) /\ Good(r)' /\ Balanced(r) /\ RouterKept /\ (calm' = "cold" => Cold')
  <2>1. Available(serving) \subseteq serving
    BY DEF Available
  <2> DEFINE v == [NoLocals EXCEPT !.group = serving, !.candidates = Available(serving)]
  <2>2. /\ v \in Locals /\ v.retry = "" /\ v.attempt = 0 /\ v.list = <<>> /\ v.primary = NoUpstream
        /\ v.candidates = Available(serving)
    BY <1>b, <1>4, <2>1 DEF Locals
  <2>3. Goto(r, "pin") /\ loc' = [loc EXCEPT ![r] = v] /\ "pin" \in Selecting
    BY <1>6 DEF Arrive, Set, Selecting
  <2> HIDE DEF v
  <2>4. row' \in [Request -> Row \cup {NoRow}]
    <3> DEFINE w == [NoRow EXCEPT !.status = "processing"]
    <3>1. w \in Row
      BY DEF NoRow, Row, Status, RetryStatus
    <3>2. row' = row \/ row' = [row EXCEPT ![r] = w]
      BY <1>6 DEF Arrive
    <3> HIDE DEF w
    <3>3. QED
      BY <1>a, <3>1, <3>2
  <2>5. Frame(r) /\ Good(r)' /\ Balanced(r) /\ pc'[r] = "pin" /\ loc'[r] = v
    BY <1>1, <1>5, <2>2, <2>3, <2>4
  <2>6. RouterKept
    BY <1>6, <1>a, <1>b, <1>g DEF RouterKept, Arrive, Disturb
  <2>7. ASSUME calm' = "cold" PROVE Cold'
    <3>1. calm = "cold" /\ Available(serving) = Upstream \ Backup /\ binding' = binding
      BY <1>6, <2>7 DEF Arrive, Disturb
    <3>2. QED
      BY <1>3, <1>h, <2>2, <2>5, <3>1
  <2>8. QED
    BY <2>5, <2>6, <2>7
<1>7. ASSUME FollowBinding(r)
      PROVE  Frame(r) /\ Good(r)' /\ Balanced(r) /\ RouterKept /\ (calm' = "cold" => Cold')
  <2>1. binding.fresh /\ binding.to \in l.candidates /\ binding' = binding /\ calm' = calm
    BY <1>7 DEF FollowBinding, Usable
  <2> DEFINE v == [l EXCEPT !.primary = binding.to]
  <2>2. /\ v \in Locals /\ v.retry = "" /\ v.attempt = 0 /\ v.list = <<>> /\ v.primary = binding.to
        /\ v.candidates = l.candidates /\ v.primary \in Upstream
    BY <1>c, <1>f, <2>1 DEF Locals
  <2>3. Goto(r, "refresh_binding") /\ loc' = [loc EXCEPT ![r] = v] /\ "refresh_binding" \in Selecting
    BY <1>7 DEF FollowBinding, Set, Selecting
  <2> HIDE DEF v
  <2>4. UNCHANGED row
    BY <1>7 DEF FollowBinding
  <2>5. Frame(r) /\ Good(r)' /\ Balanced(r) /\ pc'[r] = "refresh_binding" /\ loc'[r] = v
    BY <1>1, <1>5, <1>a, <2>2, <2>3, <2>4
  <2>6. RouterKept
    BY <1>a, <1>b, <1>g, <2>1 DEF RouterKept
  <2>7. ASSUME calm' = "cold" PROVE Cold'
    <3>1. Cold /\ pc[r] \in Selecting /\ binding # Unbound
      BY <1>7, <1>h, <2>1, <2>7 DEF FollowBinding, Selecting, Unbound
    <3>2. l.candidates = Upstream \ Backup
      BY <3>1 DEF Cold
    <3>3. QED
      BY <1>3, <2>1, <2>2, <2>5, <3>1, <3>2
  <2>8. QED
    BY <2>5, <2>6, <2>7
<1>8. ASSUME NEW u \in Upstream, PickPrimary(r, u)
      PROVE  Frame(r) /\ Good(r)' /\ Balanced(r) /\ RouterKept /\ (calm' = "cold" => Cold')
  <2>1. u \in l.candidates /\ binding' = binding /\ calm' = calm /\ UNCHANGED row
    BY <1>8 DEF PickPrimary
  <2> DEFINE v == [l EXCEPT !.primary = u]
  <2>2. /\ v \in Locals /\ v.retry = "" /\ v.attempt = 0 /\ v.list = <<>> /\ v.primary = u
        /\ v.candidates = l.candidates
    BY <1>c, <1>f DEF Locals
  <2>3. Goto(r, "claim") /\ loc' = [loc EXCEPT ![r] = v] /\ "claim" \in Selecting
    BY <1>8 DEF PickPrimary, Set, Selecting
  <2> HIDE DEF v
  <2>5. Frame(r) /\ Good(r)' /\ Balanced(r) /\ pc'[r] = "claim" /\ loc'[r] = v
    BY <1>1, <1>5, <1>a, <2>1, <2>2, <2>3
  <2>6. RouterKept
    BY <1>a, <1>b, <1>g, <2>1 DEF RouterKept
  <2>7. ASSUME calm' = "cold" PROVE Cold'
    <3>1. Cold /\ pc[r] \in Selecting
      BY <1>8, <1>h, <2>1, <2>7 DEF PickPrimary, Selecting
    <3>2. l.candidates = Upstream \ Backup
      BY <3>1 DEF Cold
    <3>3. QED
      BY <1>3, <2>1, <2>2, <2>5, <3>1, <3>2
  <2>8. QED
    BY <2>5, <2>6, <2>7
<1>9. ASSUME RefreshBinding(r) \/ OverwriteBinding(r)
      PROVE  Frame(r) /\ Good(r)' /\ Balanced(r) /\ RouterKept /\ (calm' = "cold" => Cold')
  <2>1. pc[r] \in Selecting \ {"pin"}
    BY <1>9 DEF RefreshBinding, OverwriteBinding, Selecting
  <2>2. l.primary \in Upstream
    BY <1>d, <2>1 DEF Fresh
  <2>3. Bind(l.primary) /\ UNCHANGED <<row, calm>>
    BY <1>9 DEF RefreshBinding, OverwriteBinding
  <2>4. PICK q \in Rankings(l.candidates \ {l.primary}, MaxRetries) : StartWith(r, l.primary, q)
    BY <1>9 DEF RefreshBinding, OverwriteBinding
  <2>5. Frame(r) /\ Good(r)' /\ Balanced(r) /\ pc'[r] = "attempt" /\ loc'[r].primary = l.primary
    BY <1>2, <2>2, <2>3, <2>4
  <2>6. RouterKept
    BY <1>a, <1>b, <1>g, <2>2, <2>3 DEF RouterKept, Bind, Binding
  <2>7. ASSUME calm' = "cold" PROVE Cold'
    <3>1. Cold /\ pc[r] = "refresh_binding"
      BY <1>9, <1>h, <2>3, <2>7 DEF RefreshBinding, OverwriteBinding, Cold
    <3>2. binding # Unbound /\ l.primary = binding.to /\ binding.fresh
      BY <3>1 DEF Cold
    <3>3. binding' = binding
      BY <1>b, <2>3, <3>2 DEF Bind, Binding
    <3>4. QED
      BY <1>3, <2>5, <3>1, <3>2, <3>3 DEF Selecting
  <2>8. QED
    BY <2>5, <2>6, <2>7
<1>10. ASSUME ClaimBinding(r)
       PROVE  Frame(r) /\ Good(r)' /\ Balanced(r) /\ RouterKept /\ (calm' = "cold" => Cold')
  <2> DEFINE u == IF binding = Unbound THEN l.primary ELSE binding.to
  <2>1. l.primary \in Upstream
    BY <1>10, <1>d DEF ClaimBinding, Fresh, Selecting
  <2>2. u \in Upstream
    BY <1>10, <1>c, <2>1 DEF ClaimBinding, Usable, Locals
  <2>3. BindIfUnbound(l.primary) /\ UNCHANGED <<row, calm>>
    BY <1>10 DEF ClaimBinding
  <2>4. PICK q \in Rankings(l.candidates \ {u}, MaxRetries) : StartWith(r, u, q)
    BY <1>10 DEF ClaimBinding
  <2> HIDE DEF u
  <2>5. Frame(r) /\ Good(r)' /\ Balanced(r) /\ pc'[r] = "attempt" /\ loc'[r].primary = u
    BY <1>2, <2>2, <2>3, <2>4
  <2>6. RouterKept
    <3>1. [to |-> l.primary, fresh |-> TRUE] \in Binding
      BY <2>1 DEF Binding
    <3>2. binding' \in Binding
      BY <1>b, <2>3, <3>1 DEF BindIfUnbound, Bind
    <3>3. QED
      BY <1>a, <1>g, <2>3, <3>2 DEF RouterKept
  <2>7. ASSUME calm' = "cold" PROVE Cold'
    <3>1. Cold /\ l.primary \in Upstream \ Backup
      BY <1>10, <1>h, <2>3, <2>7 DEF ClaimBinding, Cold
    <3>2. CASE binding = Unbound
      <4>1. binding' = [to |-> l.primary, fresh |-> TRUE] /\ u = l.primary
        BY <2>3, <3>2 DEF BindIfUnbound, Bind, u
      <4>2. binding' # Unbound /\ binding'.fresh /\ binding'.to = l.primary
        BY <4>1 DEF Unbound
      <4>3. QED
        BY <1>3, <2>5, <3>1, <3>2, <4>1, <4>2 DEF Selecting
    <3>3. CASE binding # Unbound
      <4>1. binding' = binding /\ u = binding.to
        BY <2>3, <3>3 DEF BindIfUnbound, u
      <4>2. QED
        BY <1>3, <2>5, <3>1, <3>3, <4>1 DEF Selecting
    <3>4. QED
      BY <3>2, <3>3
  <2>8. QED
    BY <2>5, <2>6, <2>7
<1>11. ASSUME FindUnusable(r)
       PROVE  Frame(r) /\ Good(r)' /\ Balanced(r) /\ RouterKept /\ (calm' = "cold" => Cold')
  <2>1. UNCHANGED <<row, calm, binding, loc>> /\ Goto(r, "overwrite") /\ pc[r] = "claim"
    BY <1>11 DEF FindUnusable
  <2>2. loc' = [loc EXCEPT ![r] = l] /\ "overwrite" \in Selecting /\ l.primary \in Upstream
    BY <1>a, <1>d, <2>1 DEF Fresh, Selecting
  <2>3. Frame(r) /\ Good(r)' /\ Balanced(r) /\ pc'[r] = "overwrite"
    BY <1>1, <1>5, <1>a, <1>c, <1>f, <2>1, <2>2
  <2>4. RouterKept
    BY <1>a, <1>b, <1>g, <2>1 DEF RouterKept
  <2>5. ASSUME calm' = "cold" PROVE FALSE
    <3>1. Cold
      BY <1>h, <2>1, <2>5
    <3>2. binding.fresh /\ binding.to \in Upstream \ Backup /\ l.candidates = Upstream \ Backup
      BY <1>11, <2>1, <3>1 DEF FindUnusable, Cold, Selecting
    <3>3. QED
      BY <1>11, <3>2 DEF FindUnusable, Usable
  <2>6. QED
    BY <2>3, <2>4, <2>5
<1>12. QED
  BY <1>6, <1>7, <1>8, <1>9, <1>10, <1>11

\* The other variables of the handlers keep their types, and no other request
\* is touched.
PendingFrame(r) == /\ pending' \in [Request -> Row \cup {NoRow}]
                   /\ \A q \in Request \ {r} : pending'[q] = pending[q]
HistoryFrame(r) == /\ history' \in [Request -> History]
                   /\ \A q \in Request \ {r} : history'[q] = history[q]

StepOK(r) == Frame(r) /\ Good(r)' /\ Balanced(r) /\ RouterKept /\ (calm' = "cold" => Cold')

\* The steps from there on, to the end of the request.
LEMMA TryStep ==
  ASSUME IInv, NEW r \in Request, Continue(r), pc[r] \notin Selecting \/ NotRouted(r)
  PROVE  StepOK(r)
<1> DEFINE l == loc[r]
           h == history[r]
           RT == {"", "retryable_error", "retry_exhausted"}
<1>a. /\ pc \in [Request -> Label] /\ loc \in [Request -> Locals] /\ history \in [Request -> History]
      /\ row \in [Request -> Row \cup {NoRow}] /\ pending \in [Request -> Row \cup {NoRow}]
      /\ calm \in {"cold", "stale", "disturbed"}
  BY DEF IInv, TypeOK
<1>b. serving \subseteq Upstream /\ binding \in Binding /\ conns \in [Upstream -> Nat]
  BY DEF IInv, TypeOK, RouterTypeOK
<1>c. l \in Locals /\ l.attempt <= Len(l.list) /\ h \in History
  BY <1>a DEF IInv, TypeOK
<1>d. Fresh(r) /\ Remembered(r) /\ Bounded(r) /\ Written(r) /\ Once(l.list)
  BY DEF IInv, TriedOnce, Once
<1>e. pc[r] \notin Ended \cup {"idle"}
  BY DEF Continue, NotRouted, FollowBinding, PickPrimary, RefreshBinding, ClaimBinding, FindUnusable,
         OverwriteBinding, BodyRejected, Skip, TakeNext, Call, AllFailed, FailOver, Saturated,
         RetryByPolicy, AuthRefused, ContentRefused, Refuse, NoResponse, Accept, TokenRefreshed,
         RefreshFailed, ReplyEnds, ReplyBroken, ReplyUnfinished, ReplySaturated, Ended
<1>f. pending[r] = NoRow
  BY <1>d, <1>e DEF Written, Ended
<1>g. /\ l.retry \in RT /\ (l.retry = "" <=> ~h.retryable)
      /\ l.retry = "" => h.retries = 0 /\ ~h.failover /\ ~h.retryable
  <2>1. NoHistory.retries = 0 /\ ~NoHistory.failover /\ ~NoHistory.retryable
    BY DEF NoHistory
  <2>2. QED
    BY <1>c, <1>d, <1>e, <2>1 DEF Remembered, Locals
<1>h. calm = "cold" => Cold
  BY DEF IInv
<1>i. l.list \in Seq(Upstream) /\ Len(l.list) \in Nat /\ l.attempt \in Nat /\ h.retries \in Nat
  <2>1. l.list \in Seq(Upstream) /\ l.attempt \in Nat
    BY <1>c DEF Locals
  <2>2. h.retries \in Nat
    BY <1>c DEF History
  <2>3. Len(l.list) \in Nat
    BY <2>1
  <2>4. QED
    BY <2>1, <2>2, <2>3
<1>j. pc[r] \in Trying => Current(r) \in Upstream /\ l.attempt \in 1..Len(l.list)
  <2>1. pc[r] \in Trying => l.attempt \in 1..Len(l.list)
    BY <1>c, <1>d, <1>i DEF Bounded
  <2>2. QED
    BY <1>i, <2>1 DEF Current
\* Nothing has disturbed the affinity.
<1>1. ASSUME Frame(r), pc'[r] \notin Selecting \cup {"idle"}, loc'[r].primary = l.primary,
             calm' = "cold" => calm = "cold" /\ binding' = binding,
             pc[r] \notin Selecting \/ l.primary = NoUpstream
      PROVE  calm' = "cold" => Cold'
  <2> SUFFICES ASSUME calm' = "cold" PROVE Cold'
    OBVIOUS
  <2>1. Cold /\ binding' = binding
    BY <1>1, <1>h
  <2>2. \A q \in Request \ {r} : pc'[q] = pc[q] /\ loc'[q] = loc[q]
    BY <1>1 DEF Frame
  <2>3. r \in Pinned' => r \in Pinned
    BY <1>1 DEF Pinned, Selecting
  <2>4. \A q \in Request \ {r} : q \in Pinned' <=> q \in Pinned
    BY <2>2 DEF Pinned
  <2>5. \A q \in Pinned' : q \in Request
    BY DEF Pinned
  <2>6. QED
    BY <1>1, <2>1, <2>2, <2>3, <2>4, <2>5 DEF Cold, Selecting
\* Nothing changes in the router but what a call changes in the counts.
<1>2. UNCHANGED <<serving, cleaning, reloads, binding, calm>> => RouterKept /\ (calm' = "cold" => calm = "cold" /\ binding' = binding)
  BY <1>a, <1>b DEF RouterKept
<1>3. ASSUME NEW u, Unbind(u), Disturb(TRUE), UNCHANGED <<serving, cleaning, reloads>>
      PROVE  RouterKept /\ calm' # "cold"
  <2>1. Unbound \in Binding
    BY DEF Unbound, Binding
  <2>2. QED
    BY <1>3, <1>b, <2>1 DEF RouterKept, Unbind, Disturb
<1>4. ASSUME pc[r] = "call", BindTo(r), UNCHANGED <<serving, cleaning, reloads>>
      PROVE  RouterKept /\ (calm' = "cold" => calm = "cold" /\ binding' = binding)
  <2>1. Current(r) \in Upstream /\ binding' = [to |-> Current(r), fresh |-> TRUE]
    BY <1>4, <1>j DEF BindTo, Bind, Trying
  <2>2. binding' \in Binding /\ calm' \in {"cold", "stale", "disturbed"}
    BY <1>4, <1>a, <2>1 DEF BindTo, Disturb, Binding
  <2>3. ASSUME calm' = "cold" PROVE calm = "cold" /\ binding' = binding
    <3>1. calm = "cold" /\ binding.to = Current(r)
      BY <1>4, <2>3 DEF BindTo, Disturb
    <3>2. binding # Unbound
      BY <2>1, <3>1, UpstreamAssumption DEF Unbound
    <3>3. binding.fresh = TRUE
      BY <1>h, <1>b, <3>1, <3>2 DEF Cold, Binding
    <3>4. QED
      BY <1>b, <2>1, <3>1, <3>3 DEF Binding
  <2>4. QED
    BY <1>4, <2>2, <2>3 DEF RouterKept
\* The row is about to be completed.
<1>5. ASSUME NEW st \in {"success", "error", "rate_limited"}, NEW rt \in RT, NEW u \in Upstream \cup {NoUpstream},
             Complete(r, st, rt, u)
      PROVE  /\ PendingFrame(r)
             /\ pending'[r].status = st /\ pending'[r].retry = RecordedRetry(st, rt)
  <2> DEFINE w == [status |-> st, retry |-> RecordedRetry(st, rt), upstream |-> u]
  <2>1. w \in Row /\ w.status = st /\ w.retry = RecordedRetry(st, rt)
    BY DEF Row, Status, RetryStatus, RecordedRetry
  <2>2. pending' = [pending EXCEPT ![r] = w]
    BY <1>5 DEF Complete
  <2> HIDE DEF w
  <2>3. QED
    BY <1>a, <2>1, <2>2 DEF PendingFrame
<1>6. ASSUME NEW st \in {"error", "rate_limited"}, NEW rt \in RT, NEW u \in Upstream \cup {NoUpstream},
             Complete(r, st, rt, u), rt = "" <=> ~history'[r].retryable
      PROVE  PendingFrame(r) /\ Recorded(r)'
  BY <1>5, <1>6 DEF Recorded, RecordedRetry
<1>7. ASSUME NEW rt \in RT, CompleteEarly(r, rt), rt = "" <=> ~history'[r].retryable
      PROVE  PendingFrame(r) /\ Recorded(r)'
  <2>1. row[r].upstream \in Upstream \cup {NoUpstream}
    <3>1. row[r] \in Row \/ row[r] = NoRow
      BY <1>a
    <3>2. row[r] \in Row => row[r].upstream \in Upstream \cup {NoUpstream}
      BY DEF Row
    <3>3. NoRow.upstream = NoUpstream
      BY DEF NoRow
    <3>4. QED
      BY <3>1, <3>2, <3>3
  <2>2. CASE row[r].status = "none"
    BY <1>7, <1>a, <1>f, <2>2 DEF CompleteEarly, PendingFrame, Recorded
  <2>3. CASE row[r].status # "none"
    BY <1>6, <1>7, <2>1, <2>3 DEF CompleteEarly
  <2>4. QED
    BY <2>2, <2>3
\* The handler returns.
<1>8. ASSUME Return(r), UNCHANGED row, PendingFrame(r), Recorded(r)', HistoryFrame(r),
             history'[r].retries = h.retries, history'[r].failover = h.failover
      PROVE  /\ Frame(r) /\ Good(r)' /\ pc'[r] = "done" /\ loc'[r].primary = l.primary
             /\ pc'[r] \notin Selecting \cup {"idle"} /\ ~Counts(r)'
  <2> DEFINE v == [NoLocals EXCEPT !.primary = l.primary]
  <2>1. v \in Locals /\ v.attempt = 0 /\ v.list = <<>> /\ v.primary = l.primary
    <3>1. l.primary \in Upstream \cup {NoUpstream}
      BY <1>c DEF Locals
    <3>2. <<>> \in Seq(Upstream)
      OBVIOUS
    <3>3. NoLocals \in Locals /\ NoLocals.attempt = 0 /\ NoLocals.list = <<>>
      BY <3>2 DEF NoLocals, Locals
    <3>4. QED
      BY <3>1, <3>3 DEF Locals
  <2>2. Goto(r, "done") /\ loc' = [loc EXCEPT ![r] = v]
    BY <1>8 DEF Return, Set
  <2> HIDE DEF v
  <2>3. /\ pc' \in [Request -> Label] /\ loc' \in [Request -> Locals] /\ pc'[r] = "done" /\ loc'[r] = v
        /\ \A q \in Request \ {r} : pc'[q] = pc[q] /\ loc'[q] = loc[q]
    BY <1>a, <2>1, <2>2 DEF Goto, Label
  <2>4. Frame(r)
    BY <1>8, <1>a, <2>3 DEF Frame, PendingFrame, HistoryFrame
  <2>5. Len(v.list) = 0 /\ Once(v.list)
    BY <2>1 DEF Once
  <2>6. Fresh(r)' /\ Remembered(r)' /\ Written(r)'
    BY <2>3 DEF Fresh, Remembered, Written, Selecting, Ended
  <2>7. Bounded(r)'
    BY <1>8, <1>d, <2>3, <2>5, PolicyAssumption DEF Bounded, Trying, Ended
  <2>8. v.attempt <= Len(v.list)
    BY <2>1, <2>5
  <2>9. Good(r)'
    BY <1>8, <2>3, <2>5, <2>6, <2>7, <2>8 DEF Good
  <2>10. QED
    BY <2>1, <2>3, <2>4, <2>9 DEF Selecting, Counts
\* The handler goes on.
<1>9. ASSUME NEW lab \in Trying \cup {"attempt", "unfinished"}, NEW v \in Locals, pc' = [pc EXCEPT ![r] = lab],
             loc' = [loc EXCEPT ![r] = v], v.attempt <= Len(v.list), Once(v.list), HistoryFrame(r),
             row' \in [Request -> Row \cup {NoRow}], UNCHANGED pending
      PROVE  /\ Frame(r) /\ pc'[r] = lab /\ loc'[r] = v /\ pc'[r] \notin Selecting \cup {"idle"}
             /\ Remembered(r)' /\ Bounded(r)' => Good(r)'
  <2>1. /\ pc' \in [Request -> Label] /\ loc' \in [Request -> Locals] /\ pc'[r] = lab /\ loc'[r] = v
        /\ \A q \in Request \ {r} : pc'[q] = pc[q] /\ loc'[q] = loc[q]
    BY <1>9, <1>a DEF Label, Trying
  <2>2. lab \notin Selecting \cup {"idle"}
    BY DEF Trying, Selecting
  <2>3. Frame(r)
    BY <1>9, <1>a, <2>1 DEF Frame, HistoryFrame
  <2>4. pending'[r] = NoRow
    BY <1>9, <1>f
  <2>5. Written(r)' /\ Recorded(r)'
    BY <2>4 DEF Written, Recorded
  <2>6. Fresh(r)'
    BY <2>1, <2>2 DEF Fresh, Selecting
  <2>7. QED
    BY <1>9, <2>1, <2>2, <2>3, <2>5, <2>6 DEF Good
<1>10. history' = history => HistoryFrame(r)
  BY <1>a DEF HistoryFrame
<1>11. ASSUME history' = [history EXCEPT ![r] = [@ EXCEPT !.retryable = TRUE]]
       PROVE  /\ HistoryFrame(r) /\ history'[r].retries = h.retries /\ history'[r].failover = h.failover
              /\ history'[r].retryable
  <2> DEFINE w == [h EXCEPT !.retryable = TRUE]
  <2>1. w \in History /\ w.retries = h.retries /\ w.failover = h.failover /\ w.retryable
    BY <1>c DEF History
  <2>2. history' = [history EXCEPT ![r] = w]
    BY <1>11
  <2> HIDE DEF w
  <2>3. QED
    BY <1>a, <2>1, <2>2 DEF HistoryFrame
\* The request ends before it has been sent anywhere, or without an answer.
<1>12. ASSUME NotRouted(r) \/ BodyRejected(r) PROVE StepOK(r)
  <2>1. /\ CompleteEarly(r, "") /\ Return(r) /\ UNCHANGED <<serving, binding, conns, cleaning, row, reloads, history, calm>>
        /\ pc[r] = "pin" \/ (pc[r] = "attempt" /\ l.attempt = 0)
    BY <1>12 DEF NotRouted, BodyRejected
  <2>2. ~h.retryable
    <3>1. CASE pc[r] = "pin"
      BY <1>d, <1>g, <3>1 DEF Fresh, Selecting
    <3>2. CASE pc[r] = "attempt" /\ l.attempt = 0
      <4>1. ~(l.attempt > 0)
        BY <3>2
      <4>2. l.retry = ""
        BY <1>d, <1>e, <4>1 DEF Remembered
      <4>3. QED
        BY <1>g, <4>2
    <3>3. QED
      BY <2>1, <3>1, <3>2
  <2>3. HistoryFrame(r) /\ PendingFrame(r) /\ Recorded(r)'
    BY <1>7, <1>10, <2>1, <2>2
  <2>4. /\ Frame(r) /\ Good(r)' /\ loc'[r].primary = l.primary
        /\ pc'[r] \notin Selecting \cup {"idle"} /\ ~Counts(r)'
    BY <1>8, <2>1, <2>3
  <2>5. Balanced(r)
    BY <2>1, <2>4 DEF Balanced, Counts
  <2>6. pc[r] \notin Selecting \/ l.primary = NoUpstream
    BY <1>d, <2>1 DEF Fresh, Selecting
  <2>7. QED
    BY <1>1, <1>2, <2>1, <2>4, <2>5, <2>6 DEF StepOK
<1>13. ASSUME AllFailed(r) \/ RefreshFailed(r) PROVE StepOK(r)
  <2>1. /\ \E rt \in RT : CompleteEarly(r, rt) /\ (rt = "" <=> l.retry = "")
        /\ Return(r) /\ UNCHANGED <<serving, binding, conns, cleaning, row, reloads, history, calm>>
        /\ pc[r] \in {"attempt", "refresh_token"}
    BY <1>13, <1>g DEF AllFailed, RefreshFailed
  <2>2. HistoryFrame(r) /\ PendingFrame(r) /\ Recorded(r)'
    BY <1>7, <1>10, <1>g, <2>1
  <2>3. /\ Frame(r) /\ Good(r)' /\ loc'[r].primary = l.primary
        /\ pc'[r] \notin Selecting \cup {"idle"} /\ ~Counts(r)'
    BY <1>8, <2>1, <2>2
  <2>4. Balanced(r)
    BY <2>1, <2>3 DEF Balanced, Counts
  <2>5. pc[r] \notin Selecting
    BY <2>1 DEF Selecting
  <2>6. QED
    BY <1>1, <1>2, <2>1, <2>3, <2>4, <2>5 DEF StepOK
\* The next upstream of the list.
<1>14. ASSUME Skip(r) \/ Call(r) PROVE StepOK(r)
  <2> DEFINE n == l.attempt + 1
             v == [l EXCEPT !.attempt = n, !.replay = 0]
             u == l.list[n]
  <2>1. /\ TakeNext(r) /\ pc[r] = "attempt" /\ l.attempt < Len(l.list)
        /\ UNCHANGED <<serving, binding, cleaning, pending, reloads, history, calm>>
    BY <1>14 DEF Skip, Call, TakeNext
  <2>2. u \in Upstream /\ n \in 1..Len(l.list)
    BY <1>i, <2>1
  <2>a. n \in Nat /\ n > 0 /\ 0 \in 0..2
    BY <1>i
  <2> HIDE DEF n
  <2>3. /\ v \in Locals /\ v.attempt = n /\ v.list = l.list /\ v.primary = l.primary
        /\ v.retry = l.retry /\ v.saturated = l.saturated
    BY <1>c, <2>a DEF Locals
  <2>4. loc' = [loc EXCEPT ![r] = v]
    BY <2>1 DEF TakeNext, Set, n
  <2>5. row' \in [Request -> Row \cup {NoRow}]
    <3> DEFINE w == [row[r] EXCEPT !.upstream = u]
    <3>1. row' = row \/ (row[r].status = "processing" /\ row' = [row EXCEPT ![r] = w])
      BY <2>1 DEF TakeNext, n
    <3>2. row[r] \in Row => w \in Row
      BY <2>2 DEF Row
    <3>3. row[r].status = "processing" => row[r] \in Row
      BY <1>a DEF NoRow
    <3> HIDE DEF w
    <3>4. QED
      BY <1>a, <3>1, <3>2, <3>3
  <2> HIDE DEF v
  <2>6. PICK lab \in {"attempt", "call"} : /\ pc' = [pc EXCEPT ![r] = lab]
                                           /\ lab = "attempt" => UNCHANGED conns
                                           /\ lab = "call" => Acquire(u)
    BY <1>14, <1>a, <2>1 DEF Skip, Call, Goto, n
  <2>7. /\ Frame(r) /\ pc'[r] = lab /\ loc'[r] = v /\ pc'[r] \notin Selecting \cup {"idle"}
        /\ Remembered(r)' /\ Bounded(r)' => Good(r)'
    <3>1. lab \in Trying \cup {"attempt", "unfinished"}
      BY DEF Trying
    <3>2. v.attempt <= Len(v.list)
      BY <1>i, <2>2, <2>3
    <3>3. QED
      BY <1>9, <1>10, <1>d, <2>1, <2>3, <2>4, <2>5, <2>6, <3>1, <3>2
  <2>8. Remembered(r)'
    <3>1. l.attempt # Len(l.list)
      BY <1>i, <2>1
    <3>2. l.retry # "retry_exhausted"
      BY <1>d, <1>e, <2>1, <3>1 DEF Remembered
    <3>3. history' = history
      BY <2>1
    <3>4. QED
      BY <1>d, <1>e, <2>a, <2>3, <2>7, <3>2, <3>3 DEF Remembered
  <2>9. Bounded(r)'
    <3>1. h.retries <= l.attempt /\ n = l.attempt + 1
      BY <1>d, <1>e DEF Bounded, n
    <3>2. n > 0 /\ h.retries <= n /\ h.retries < n
      BY <1>i, <3>1
    <3>3. history' = history
      BY <2>1
    <3>4. QED
      BY <1>d, <2>3, <2>7, <3>2, <3>3 DEF Bounded
  <2>10. Balanced(r)
    <3>1. CASE lab = "attempt"
      BY <2>1, <2>6, <2>7, <3>1 DEF Balanced, Counts
    <3>2. CASE lab = "call"
      BY <2>1, <2>2, <2>3, <2>6, <2>7, <3>2 DEF Balanced, Counts, Current
    <3>3. QED
      BY <3>1, <3>2
  <2>11. pc[r] \notin Selecting
    BY <2>1 DEF Selecting
  <2>12. QED
    BY <1>1, <1>2, <2>1, <2>3, <2>7, <2>8, <2>9, <2>10, <2>11 DEF StepOK
\* The list grows by the fallbacks, none of which it holds already.
<1>15. ASSUME FailOver(r) PROVE StepOK(r)
  <2>1. PICK q \in SetToSeqs(Fallbacks(r)) :
          Set(r, [l EXCEPT !.list = @ \o q, !.retry = "retryable_error"])
    BY <1>15 DEF FailOver
  <2>2. Fallbacks(r) \in SUBSET Upstream
    BY <1>c DEF Fallbacks, Available, Locals
  <2>3. q \in Seq(Fallbacks(r)) /\ Once(q)
    BY <2>2, DrawnOnce
  <2>4. q \in Seq(Upstream) /\ \A j \in 1..Len(q) : q[j] \notin ToSet(l.list)
    <3>1. q \in Seq(Upstream) /\ \A j \in 1..Len(q) : q[j] \in Fallbacks(r)
      BY <2>2, <2>3
    <3>2. QED
      BY <3>1 DEF Fallbacks
  <2>5. \A i \in 1..Len(l.list), j \in 1..Len(q) : l.list[i] # q[j]
    BY <1>i, <2>4 DEF ToSet
  <2> DEFINE list == l.list \o q
             v == [l EXCEPT !.list = list, !.retry = "retryable_error"]
  <2>6. list \in Seq(Upstream) /\ Len(list) = Len(l.list) + Len(q) /\ Once(list) /\ \A i \in 1..Len(l.list) : list[i] = l.list[i]
    BY <1>d, <1>i, <2>3, <2>4, <2>5, Joined
  <2>7. l.attempt <= Len(list)
    BY <1>c, <1>i, <2>4, <2>6
  <2> HIDE DEF list
  <2>8. v \in Locals /\ v.attempt = l.attempt /\ v.list = list /\ v.primary = l.primary /\ v.retry = "retryable_error"
    BY <1>c, <2>6 DEF Locals
  <2>9. loc' = [loc EXCEPT ![r] = v]
    BY <2>1 DEF Set, list
  <2> HIDE DEF v
  <2>10. /\ pc[r] = "call" /\ pc' = [pc EXCEPT ![r] = "attempt"] /\ Unbind(Current(r)) /\ Release(Current(r))
         /\ Disturb(TRUE) /\ UNCHANGED <<serving, cleaning, row, pending, reloads>>
    BY <1>15 DEF FailOver, Goto
  <2>11. HistoryFrame(r) /\ history'[r].retries = h.retries /\ history'[r].failover /\ history'[r].retryable
    <3> DEFINE w == [h EXCEPT !.failover = TRUE, !.retryable = TRUE]
    <3>1. w \in History /\ w.retries = h.retries /\ w.failover /\ w.retryable
      BY <1>c DEF History
    <3>2. history' = [history EXCEPT ![r] = w]
      BY <1>15 DEF FailOver
    <3> HIDE DEF w
    <3>3. QED
      BY <1>a, <3>1, <3>2 DEF HistoryFrame
  <2>12. /\ Frame(r) /\ pc'[r] = "attempt" /\ loc'[r] = v /\ pc'[r] \notin Selecting \cup {"idle"}
         /\ Remembered(r)' /\ Bounded(r)' => Good(r)'
    <3>1. v.attempt <= Len(v.list) /\ Once(v.list)
      BY <2>6, <2>7, <2>8
    <3>2. QED
      BY <1>9, <1>a, <2>8, <2>9, <2>10, <2>11, <3>1
  <2>13. l.attempt > 0 /\ h.retries <= l.attempt
    BY <1>d, <1>e, <2>10 DEF Bounded, Trying
  <2>14. Remembered(r)' /\ Bounded(r)'
    BY <2>8, <2>11, <2>12, <2>13 DEF Remembered, Bounded, Trying
  <2>15. Balanced(r)
    BY <2>10, <2>12 DEF Balanced, Counts
  <2>16. QED
    BY <1>3, <2>10, <2>12, <2>14, <2>15 DEF StepOK
<1>16. ASSUME NEW a \in {"saturated", "saturated_ok"}, Saturated(r, a) PROVE StepOK(r)
  <2>1. /\ pc[r] = "call" /\ Unbind(Current(r)) /\ Disturb(TRUE) /\ UNCHANGED <<serving, cleaning, row, reloads>>
        /\ history' = [history EXCEPT ![r] = [@ EXCEPT !.retryable = TRUE]]
    BY <1>16 DEF Saturated
  <2>2. /\ HistoryFrame(r) /\ history'[r].retries = h.retries /\ history'[r].failover = h.failover
        /\ history'[r].retryable
    BY <1>11, <2>1
  <2>3. Current(r) \in Upstream /\ l.attempt > 0
    BY <1>i, <1>j, <2>1 DEF Trying
  <2>4. CASE a = "saturated"
    <3>1. Release(Current(r)) /\ Complete(r, "error", "retry_exhausted", Current(r)) /\ Return(r)
      BY <1>16, <2>4 DEF Saturated
    <3>2. PendingFrame(r) /\ Recorded(r)'
      BY <1>6, <2>2, <2>3, <3>1
    <3>3. Frame(r) /\ Good(r)' /\ ~Counts(r)'
      BY <1>8, <2>1, <2>2, <3>1, <3>2
    <3>4. QED
      BY <1>3, <2>1, <3>1, <3>3 DEF StepOK, Balanced, Counts
  <2>5. CASE a = "saturated_ok"
    <3> DEFINE v == [l EXCEPT !.retry = "retry_exhausted", !.saturated = TRUE]
    <3>1. /\ v \in Locals /\ v.attempt = l.attempt /\ v.list = l.list /\ v.retry = "retry_exhausted" /\ v.saturated
      BY <1>c DEF Locals
    <3>2. pc' = [pc EXCEPT ![r] = "reply"] /\ loc' = [loc EXCEPT ![r] = v] /\ UNCHANGED <<conns, pending>>
      BY <1>16, <2>5 DEF Saturated, Goto, Set
    <3> HIDE DEF v
    <3>3. /\ Frame(r) /\ pc'[r] = "reply" /\ loc'[r] = v
          /\ Remembered(r)' /\ Bounded(r)' => Good(r)'
      BY <1>9, <1>a, <1>c, <1>d, <2>1, <2>2, <3>1, <3>2 DEF Trying
    <3>4. Remembered(r)'
      BY <2>2, <2>3, <3>1, <3>3 DEF Remembered
    <3>5. Bounded(r)'
      BY <1>d, <1>e, <2>1, <2>2, <3>1, <3>3 DEF Bounded, Trying
    <3>6. Balanced(r)
      BY <2>1, <3>1, <3>2, <3>3 DEF Balanced, Counts, Current
    <3>7. QED
      BY <1>3, <2>1, <3>3, <3>4, <3>5, <3>6 DEF StepOK
  <2>6. QED
    BY <2>4, <2>5
<1>17. ASSUME NEW a \in Answer, RetryByPolicy(r, a) PROVE StepOK(r)
  <2> DEFINE more == l.attempt < Len(l.list)
             v == [l EXCEPT !.retry = IF more THEN "retryable_error" ELSE "retry_exhausted"]
             n == IF more THEN h.retries + 1 ELSE h.retries
             w == [h EXCEPT !.retries = IF more THEN @ + 1 ELSE @, !.retryable = TRUE]
  <2>a. /\ pc[r] = "call" /\ pc' = [pc EXCEPT ![r] = "attempt"] /\ Release(Current(r))
        /\ UNCHANGED <<serving, binding, cleaning, row, pending, reloads, calm>>
    BY <1>17 DEF RetryByPolicy, Goto
  <2>b. loc' = [loc EXCEPT ![r] = v]
    BY <1>17 DEF RetryByPolicy, Set
  <2>c. history' = [history EXCEPT ![r] = w]
    BY <1>17 DEF RetryByPolicy
  <2>1. /\ pc[r] = "call" /\ pc' = [pc EXCEPT ![r] = "attempt"] /\ loc' = [loc EXCEPT ![r] = v] /\ Release(Current(r))
        /\ history' = [history EXCEPT ![r] = w]
        /\ UNCHANGED <<serving, binding, cleaning, row, pending, reloads, calm>>
    BY <2>a, <2>b, <2>c
  <2>d. n \in Nat
    BY <1>i
  <2>2. /\ v \in Locals /\ v.attempt = l.attempt /\ v.list = l.list /\ v.primary = l.primary
        /\ v.retry = IF more THEN "retryable_error" ELSE "retry_exhausted"
    BY <1>c DEF Locals
  <2>3. /\ w \in History /\ w.failover = h.failover /\ w.retryable
        /\ w.retries = n
    <3>1. w = [h EXCEPT !.retries = n, !.retryable = TRUE]
      OBVIOUS
    <3> HIDE DEF n, w
    <3>2. QED
      BY <1>c, <2>d, <3>1 DEF History
  <2> HIDE DEF v, w
  <2>4. HistoryFrame(r) /\ history'[r] = w
    BY <1>a, <2>1, <2>3 DEF HistoryFrame
  <2>5. /\ Frame(r) /\ pc'[r] = "attempt" /\ loc'[r] = v /\ pc'[r] \notin Selecting \cup {"idle"}
        /\ Remembered(r)' /\ Bounded(r)' => Good(r)'
    BY <1>9, <1>a, <1>c, <1>d, <2>1, <2>2, <2>4
  <2>6. l.attempt > 0 /\ h.retries < l.attempt /\ (~h.failover => h.retries <= MaxRetries /\ Len(l.list) <= MaxRetries + 1)
    BY <1>d, <2>1 DEF Bounded, Trying
  <2>7. Remembered(r)'
    <3>1. ~more => l.attempt = Len(l.list)
      BY <1>c, <1>i
    <3>2. more => w.retries > 0
      BY <1>i, <2>3
    <3>3. v.retry # "" /\ (v.retry = "retryable_error" => more) /\ (v.retry = "retry_exhausted" => ~more)
      BY <2>2
    <3> HIDE DEF more
    <3>4. QED
      BY <2>2, <2>3, <2>4, <2>5, <2>6, <3>1, <3>2, <3>3 DEF Remembered
  <2>8. Bounded(r)'
    <3>1. w.retries <= l.attempt /\ (~h.failover => w.retries <= MaxRetries)
      BY <1>i, <2>3, <2>6, PolicyAssumption
    <3>2. QED
      BY <2>2, <2>3, <2>4, <2>5, <2>6, <3>1 DEF Bounded, Trying
  <2>9. Balanced(r)
    BY <2>1, <2>5 DEF Balanced, Counts
  <2>10. pc[r] \notin Selecting
    BY <2>1 DEF Selecting
  <2>11. QED
    BY <1>1, <1>2, <2>1, <2>2, <2>5, <2>7, <2>8, <2>9, <2>10 DEF StepOK
\* Replays: nothing changes but what the request remembers of them.
<1>18. ASSUME NEW lab \in Trying, NEW v \in Locals, pc[r] \in Trying, pc' = [pc EXCEPT ![r] = lab],
              loc' = [loc EXCEPT ![r] = v], UNCHANGED <<serving, binding, cleaning, row, pending, reloads, history, calm>>,
              v.attempt = l.attempt, v.list = l.list, v.retry = l.retry, v.primary = l.primary,
              v.saturated = l.saturated, pc[r] # "reply",
              \/ lab = "refresh_token" /\ pc[r] = "call" /\ Release(Current(r))
              \/ lab = "call" /\ pc[r] = "refresh_token" /\ Acquire(Current(r))
              \/ lab \in {"call", "reply"} /\ pc[r] = "call" /\ UNCHANGED conns
       PROVE  StepOK(r)
  <2>1. /\ Frame(r) /\ pc'[r] = lab /\ loc'[r] = v /\ pc'[r] \notin Selecting \cup {"idle"}
        /\ Remembered(r)' /\ Bounded(r)' => Good(r)'
    BY <1>9, <1>10, <1>a, <1>c, <1>d, <1>18
  <2>2. Remembered(r)'
    BY <1>d, <1>e, <1>18, <2>1 DEF Remembered, Trying
  <2>3. Bounded(r)'
    BY <1>d, <1>e, <1>18, <2>1 DEF Bounded, Trying
  <2>4. Current(r)' = Current(r) /\ Current(r) \in Upstream
    BY <1>j, <1>18, <2>1 DEF Current
  <2>5. Balanced(r)
    BY <1>18, <2>1, <2>4 DEF Balanced, Counts
  <2>6. pc[r] \notin Selecting
    BY <1>18 DEF Trying, Selecting
  <2>7. QED
    BY <1>1, <1>2, <1>18, <2>1, <2>2, <2>3, <2>5, <2>6 DEF StepOK
<1>19. ASSUME NEW a \in Answer, AuthRefused(r, a) PROVE StepOK(r)
  <2> DEFINE v == [l EXCEPT !.recovered = @ \cup {Provider(Current(r))}]
  <2>1. Provider(Current(r)) \in {"codex", "claudecode"}
    BY <1>19 DEF AuthRefused, TokenRecoverable
  <2>2. /\ v \in Locals /\ v.attempt = l.attempt /\ v.list = l.list /\ v.primary = l.primary /\ v.retry = l.retry
        /\ v.saturated = l.saturated
    BY <1>c, <2>1 DEF Locals
  <2>3. loc' = [loc EXCEPT ![r] = v]
    BY <1>19 DEF AuthRefused, Set
  <2> HIDE DEF v
  <2>4. QED
    BY <1>18, <1>19, <2>2, <2>3 DEF AuthRefused, Goto, Trying
<1>20. ASSUME TokenRefreshed(r) PROVE StepOK(r)
  <2> DEFINE v == [l EXCEPT !.replay = 1]
  <2>1. 1 \in 0..2
    OBVIOUS
  <2>2. /\ v \in Locals /\ v.attempt = l.attempt /\ v.list = l.list /\ v.primary = l.primary /\ v.retry = l.retry
        /\ v.saturated = l.saturated
    BY <1>c, <2>1 DEF Locals
  <2>3. loc' = [loc EXCEPT ![r] = v]
    BY <1>20 DEF TokenRefreshed, Set
  <2> HIDE DEF v
  <2>4. QED
    BY <1>18, <1>20, <2>2, <2>3 DEF TokenRefreshed, Goto, Trying
<1>21. ASSUME NEW a \in Answer, ContentRefused(r, a) PROVE StepOK(r)
  <2> DEFINE v == [l EXCEPT !.replay = 2, !.recovered = @ \cup {"content"}]
  <2>1. 2 \in 0..2
    OBVIOUS
  <2>2. /\ v \in Locals /\ v.attempt = l.attempt /\ v.list = l.list /\ v.primary = l.primary /\ v.retry = l.retry
        /\ v.saturated = l.saturated
    BY <1>c, <2>1 DEF Locals
  <2>3. loc' = [loc EXCEPT ![r] = v] /\ pc[r] = "call" /\ pc' = pc
    BY <1>21 DEF ContentRefused, Set
  <2> HIDE DEF v
  <2>4. pc' = [pc EXCEPT ![r] = "call"]
    BY <1>a, <2>3
  <2>5. QED
    BY <1>18, <1>21, <2>2, <2>3, <2>4 DEF ContentRefused, Trying
\* The answer.
<1>22. ASSUME NEW a \in Answer, Refuse(r, a) PROVE StepOK(r)
  <2>1. /\ pc[r] = "call" /\ Release(Current(r)) /\ Return(r) /\ UNCHANGED <<serving, cleaning, row, reloads, history>>
        /\ UNCHANGED <<binding, calm>> \/ BindTo(r)
        /\ \E st \in {"error", "rate_limited"} : Complete(r, st, l.retry, Current(r))
    BY <1>22 DEF Refuse
  <2>2. RouterKept /\ (calm' = "cold" => calm = "cold" /\ binding' = binding)
    BY <1>2, <1>4, <2>1
  <2>3. Current(r) \in Upstream
    BY <1>j, <2>1 DEF Trying
  <2>4. HistoryFrame(r) /\ PendingFrame(r) /\ Recorded(r)'
    BY <1>6, <1>10, <1>g, <2>1, <2>3
  <2>5. /\ Frame(r) /\ Good(r)' /\ loc'[r].primary = l.primary
        /\ pc'[r] \notin Selecting \cup {"idle"} /\ ~Counts(r)'
    BY <1>8, <2>1, <2>4
  <2>6. Balanced(r) /\ pc[r] \notin Selecting
    BY <2>1, <2>5 DEF Balanced, Counts, Selecting
  <2>7. QED
    BY <1>1, <2>2, <2>5, <2>6 DEF StepOK
<1>23. ASSUME NEW a \in Answer, NoResponse(r, a) PROVE StepOK(r)
  <2>1. /\ pc[r] = "call" /\ Release(Current(r)) /\ Return(r) /\ CompleteEarly(r, l.retry)
        /\ UNCHANGED <<serving, binding, cleaning, row, reloads, history, calm>>
    BY <1>23 DEF NoResponse
  <2>2. HistoryFrame(r) /\ PendingFrame(r) /\ Recorded(r)'
    BY <1>7, <1>10, <1>g, <2>1
  <2>3. /\ Frame(r) /\ Good(r)' /\ loc'[r].primary = l.primary
        /\ pc'[r] \notin Selecting \cup {"idle"} /\ ~Counts(r)'
    BY <1>8, <2>1, <2>2
  <2>4. Balanced(r) /\ pc[r] \notin Selecting
    BY <2>1, <2>3 DEF Balanced, Counts, Selecting
  <2>5. QED
    BY <1>1, <1>2, <2>1, <2>3, <2>4 DEF StepOK
<1>24. ASSUME NEW a \in Answer, Accept(r, a) PROVE StepOK(r)
  <2>1. /\ pc[r] = "call" /\ BindTo(r) /\ pc' = [pc EXCEPT ![r] = "reply"] /\ loc' = loc
        /\ UNCHANGED <<serving, conns, cleaning, row, pending, reloads, history>>
    BY <1>24 DEF Accept, Goto
  <2>2. RouterKept /\ (calm' = "cold" => calm = "cold" /\ binding' = binding)
    BY <1>4, <2>1
  <2>3. loc' = [loc EXCEPT ![r] = l]
    BY <1>a, <2>1
  <2>4. /\ Frame(r) /\ pc'[r] = "reply" /\ loc'[r] = l /\ pc'[r] \notin Selecting \cup {"idle"}
        /\ Remembered(r)' /\ Bounded(r)' => Good(r)'
    BY <1>9, <1>10, <1>a, <1>c, <1>d, <2>1, <2>3 DEF Trying
  <2>5. Remembered(r)' /\ Bounded(r)'
    BY <1>d, <1>e, <2>1, <2>4 DEF Remembered, Bounded, Trying
  <2>6. Balanced(r) /\ pc[r] \notin Selecting
    BY <2>1, <2>4 DEF Balanced, Counts, Current, Selecting
  <2>7. QED
    BY <1>1, <2>2, <2>4, <2>5, <2>6 DEF StepOK
<1>25. ASSUME ReplyEnds(r) PROVE StepOK(r)
  <2>1. /\ pc[r] = "reply" /\ Release(Current(r)) /\ Return(r)
        /\ Complete(r, IF l.saturated THEN "error" ELSE "success", l.retry, Current(r))
        /\ UNCHANGED <<serving, binding, cleaning, row, reloads, history, calm>>
    BY <1>25 DEF ReplyEnds
  <2>2. Current(r) \in Upstream
    BY <1>j, <2>1 DEF Trying
  <2>3. PendingFrame(r) /\ Recorded(r)'
    <3>1. CASE l.saturated
      BY <1>6, <1>g, <2>1, <2>2, <3>1
    <3>2. CASE ~l.saturated
      <4>1. PendingFrame(r) /\ pending'[r].status = "success" /\ pending'[r].retry = RecordedRetry("success", l.retry)
        BY <1>5, <1>g, <2>1, <2>2, <3>2
      <4>2. l.retry \in {"", "retryable_error"} /\ (l.retry = "retryable_error" => h.retries > 0 \/ h.failover)
        BY <1>d, <1>e, <1>g, <2>1, <3>2 DEF Remembered
      <4>3. l.retry = "" => ~(h.retries > 0) /\ ~h.failover
        <5>1. l.retry = "" => h.retries = 0 /\ ~h.failover
          BY <1>g
        <5>2. h.retries = 0 => ~(h.retries > 0)
          BY <1>i
        <5>3. QED
          BY <5>1, <5>2, Zenon
      <4>4. history' = history
        BY <2>1
      <4>5. QED
        BY <4>1, <4>2, <4>3, <4>4 DEF Recorded, RecordedRetry
    <3>3. QED
      BY <3>1, <3>2
  <2>4. /\ Frame(r) /\ Good(r)' /\ loc'[r].primary = l.primary
        /\ pc'[r] \notin Selecting \cup {"idle"} /\ ~Counts(r)'
    BY <1>8, <1>10, <2>1, <2>3
  <2>5. Balanced(r) /\ pc[r] \notin Selecting
    BY <2>1, <2>4 DEF Balanced, Counts, Selecting
  <2>6. QED
    BY <1>1, <1>2, <2>1, <2>4, <2>5 DEF StepOK
<1>26. ASSUME ReplyBroken(r) PROVE StepOK(r)
  <2>1. /\ pc[r] = "reply" /\ Release(Current(r)) /\ Return(r)
        /\ Complete(r, "error", l.retry, Current(r)) \/ CompleteEarly(r, l.retry)
        /\ UNCHANGED <<serving, binding, cleaning, row, reloads, history, calm>>
    BY <1>26 DEF ReplyBroken
  <2>2. Current(r) \in Upstream
    BY <1>j, <2>1 DEF Trying
  <2>3. HistoryFrame(r) /\ PendingFrame(r) /\ Recorded(r)'
    BY <1>6, <1>7, <1>10, <1>g, <2>1, <2>2
  <2>4. /\ Frame(r) /\ Good(r)' /\ loc'[r].primary = l.primary
        /\ pc'[r] \notin Selecting \cup {"idle"} /\ ~Counts(r)'
    BY <1>8, <2>1, <2>3
  <2>5. Balanced(r) /\ pc[r] \notin Selecting
    BY <2>1, <2>4 DEF Balanced, Counts, Selecting
  <2>6. QED
    BY <1>1, <1>2, <2>1, <2>4, <2>5 DEF StepOK
<1>27. ASSUME ReplyUnfinished(r) PROVE StepOK(r)
  <2>1. /\ pc[r] = "reply" /\ pc' = [pc EXCEPT ![r] = "unfinished"] /\ loc' = loc
        /\ UNCHANGED <<serving, binding, conns, cleaning, row, pending, reloads, history, calm>>
    BY <1>27 DEF ReplyUnfinished, Goto
  <2>2. loc' = [loc EXCEPT ![r] = l]
    BY <1>a, <2>1
  <2>3. /\ Frame(r) /\ pc'[r] = "unfinished" /\ loc'[r] = l /\ pc'[r] \notin Selecting \cup {"idle"}
        /\ Remembered(r)' /\ Bounded(r)' => Good(r)'
    BY <1>9, <1>10, <1>a, <1>c, <1>d, <2>1, <2>2
  <2>4. Remembered(r)' /\ Bounded(r)'
    BY <1>d, <1>e, <2>1, <2>3 DEF Remembered, Bounded, Trying, Ended
  <2>5. Balanced(r) /\ pc[r] \notin Selecting
    BY <2>1, <2>3 DEF Balanced, Counts, Current, Selecting
  <2>6. QED
    BY <1>1, <1>2, <2>1, <2>3, <2>4, <2>5 DEF StepOK
<1>28. ASSUME ReplySaturated(r) PROVE StepOK(r)
  <2>1. /\ pc[r] = "reply" /\ Unbind(Current(r)) /\ Disturb(TRUE) /\ Release(Current(r)) /\ Return(r)
        /\ Complete(r, "error", "retry_exhausted", Current(r)) /\ UNCHANGED <<serving, cleaning, row, reloads>>
        /\ history' = [history EXCEPT ![r] = [@ EXCEPT !.retryable = TRUE]]
    BY <1>28 DEF ReplySaturated
  <2>2. /\ HistoryFrame(r) /\ history'[r].retries = h.retries /\ history'[r].failover = h.failover
        /\ history'[r].retryable
    BY <1>11, <2>1
  <2>3. Current(r) \in Upstream
    BY <1>j, <2>1 DEF Trying
  <2>4. PendingFrame(r) /\ Recorded(r)'
    BY <1>6, <2>1, <2>2, <2>3
  <2>5. Frame(r) /\ Good(r)' /\ ~Counts(r)'
    BY <1>8, <2>1, <2>2, <2>4
  <2>6. QED
    BY <1>3, <2>1, <2>5 DEF StepOK, Balanced, Counts
<1>29. \/ NotRouted(r)
       \/ /\ ~FollowBinding(r) /\ (\A u \in Upstream : ~PickPrimary(r, u)) /\ ~RefreshBinding(r)
          /\ ~ClaimBinding(r) /\ ~FindUnusable(r) /\ ~OverwriteBinding(r)
  BY DEF FollowBinding, PickPrimary, RefreshBinding, ClaimBinding, FindUnusable, OverwriteBinding, Selecting
<1>30. QED
  BY <1>12, <1>13, <1>14, <1>15, <1>16, <1>17, <1>19, <1>20, <1>21, <1>22, <1>23, <1>24, <1>25,
     <1>26, <1>27, <1>28, <1>29 DEF Continue

----------------------------------------------------------------------------
(* The whole system.                                                       *)

\* Acquire and Release keep the count of each upstream equal to the number of
\* requests that hold a connection of it.
LEMMA CountStep ==
  ASSUME IInv, NEW r \in Request, Frame(r), Balanced(r)
  PROVE  /\ conns' \in [Upstream -> Nat]
         /\ ConnectionsCounted' /\ \A u \in Upstream : IsFiniteSet(Held(u))'
<1>a. /\ conns \in [Upstream -> Nat]
      /\ \A u \in Upstream : IsFiniteSet(Held(u)) /\ conns[u] = Cardinality(Held(u))
  BY DEF IInv, TypeOK, RouterTypeOK, ConnectionsCounted, Held
<1>b. \A u \in Upstream : Held(u) = {q \in Request : Counts(q) /\ Current(q) = u}
  BY DEF Held, Holders, Leaked, Counts
<1>c. \A u \in Upstream : Held(u)' = {q \in Request : Counts(q)' /\ Current(q)' = u}
  BY DEF Held, Holders, Leaked, Counts
<1>d. \A q \in Request \ {r} : (Counts(q)' <=> Counts(q)) /\ Current(q)' = Current(q)
  BY DEF Frame, Counts, Current
<1> SUFFICES /\ conns' \in [Upstream -> Nat]
             /\ \A u \in Upstream : IsFiniteSet(Held(u)') /\ conns'[u] = Cardinality(Held(u)')
  BY DEF ConnectionsCounted, Held
<1>1. CASE /\ UNCHANGED conns
           /\ Counts(r)' <=> Counts(r)
           /\ Counts(r) => Current(r)' = Current(r)
  <2>1. \A u \in Upstream : Held(u)' = Held(u)
    BY <1>1, <1>b, <1>c, <1>d
  <2>2. QED
    BY <1>1, <1>a, <2>1
<1>2. CASE Counts(r) /\ ~Counts(r)' /\ Release(Current(r))
  <2>1. PICK c \in Upstream : c = Current(r)
    <3>1. /\ loc[r].attempt \in Nat /\ loc[r].list \in Seq(Upstream) /\ loc[r].attempt > 0
          /\ loc[r].attempt <= Len(loc[r].list)
      <4>1. loc[r] \in Locals /\ loc[r].attempt <= Len(loc[r].list)
        BY DEF IInv, TypeOK
      <4>2. loc[r].attempt > 0
        BY <1>2 DEF IInv, Bounded, Counts, Trying
      <4>3. QED
        BY <4>1, <4>2 DEF Locals
    <3>2. QED
      BY <3>1 DEF Current
  <2>2. r \in Held(c) /\ Held(c)' = Held(c) \ {r}
    BY <1>2, <1>b, <1>c, <1>d, <2>1
  <2>3. \A u \in Upstream \ {c} : Held(u)' = Held(u)
    BY <1>2, <1>b, <1>c, <1>d, <2>1
  <2>4. IsFiniteSet(Held(c)') /\ Cardinality(Held(c)') = conns[c] - 1
    BY <1>a, <2>2, FS_RemoveElement
  <2>5. conns[c] - 1 \in Nat
    BY <2>4, FS_CardinalityType
  <2>6. conns' = [conns EXCEPT ![c] = conns[c] - 1]
    <3>1. conns[c] \in Nat /\ conns[c] > 0
      BY <1>a, <2>5
    <3>2. QED
      BY <1>2, <2>1, <3>1 DEF Release
  <2>7. conns' \in [Upstream -> Nat] /\ conns'[c] = conns[c] - 1 /\ \A u \in Upstream \ {c} : conns'[u] = conns[u]
    BY <1>a, <2>5, <2>6
  <2>8. QED
    BY <1>a, <2>3, <2>4, <2>7
<1>3. CASE ~Counts(r) /\ Counts(r)' /\ \E u \in Upstream : u = Current(r)' /\ Acquire(u)
  <2>1. PICK c \in Upstream : c = Current(r)' /\ Acquire(c)
    BY <1>3
  <2>2. r \notin Held(c) /\ Held(c)' = Held(c) \cup {r}
    BY <1>3, <1>b, <1>c, <1>d, <2>1
  <2>3. \A u \in Upstream \ {c} : Held(u)' = Held(u)
    BY <1>3, <1>b, <1>c, <1>d, <2>1
  <2>4. IsFiniteSet(Held(c)') /\ Cardinality(Held(c)') = conns[c] + 1
    BY <1>a, <2>2, FS_AddElement
  <2>5. conns' = [conns EXCEPT ![c] = conns[c] + 1]
    BY <2>1 DEF Acquire
  <2>6. QED
    BY <1>a, <2>3, <2>4, <2>5
<1>4. QED
  BY <1>1, <1>2, <1>3 DEF Balanced

\* The invariant holds initially, and every step keeps it.
LEMMA Inductive == Spec => []IInv
<1>1. Init => IInv
  <2> SUFFICES ASSUME Init PROVE IInv
    OBVIOUS
  <2>1. /\ serving = Upstream /\ conns = [u \in Upstream |-> 0] /\ cleaning = FALSE
        /\ binding = Unbound \/ \E u \in Upstream : binding = [to |-> u, fresh |-> FALSE]
    BY DEF Init, RouterInit
  <2>2. RouterTypeOK
    <3>1. Unbound \in Binding /\ \A u \in Upstream : [to |-> u, fresh |-> FALSE] \in Binding
      BY DEF Binding, Unbound
    <3>2. QED
      BY <2>1, <3>1 DEF RouterTypeOK
  <2>3. <<>> \in Seq(Upstream)
    OBVIOUS
  <2>4. /\ NoLocals \in Locals /\ NoLocals.primary = NoUpstream /\ NoLocals.retry = ""
        /\ NoLocals.attempt = 0 /\ NoLocals.list = <<>>
    BY <2>3 DEF NoLocals, Locals
  <2>5. NoHistory \in History /\ NoHistory.retries = 0
    BY DEF NoHistory, History
  <2>6. /\ pc \in [Request -> Label] /\ \A r \in Request : pc[r] = "idle"
        /\ loc \in [Request -> Locals] /\ \A r \in Request : loc[r] = NoLocals
        /\ history \in [Request -> History] /\ \A r \in Request : history[r] = NoHistory
        /\ row \in [Request -> Row \cup {NoRow}]
        /\ pending \in [Request -> Row \cup {NoRow}] /\ \A r \in Request : pending[r] = NoRow
    BY <2>4, <2>5 DEF Init, Label
  <2>7. reloads \in 0..ReloadBudget /\ calm \in {"cold", "stale", "disturbed"}
    BY PolicyAssumption DEF Init
  <2>8. Len(NoLocals.list) = 0
    BY <2>4
  <2>9. TypeOK
    <3>1. \A r \in Request : loc[r].attempt <= Len(loc[r].list)
      <4>1. \A m, n \in Nat : m = 0 /\ n = 0 => m <= n
        OBVIOUS
      <4>2. NoLocals.attempt <= Len(NoLocals.list)
        BY <2>4, <2>8, <4>1, 0 \in Nat
      <4>3. QED
        BY <2>6, <4>2
    <3>2. QED
      BY <2>2, <2>6, <2>7, <3>1 DEF TypeOK
  <2>10. \A r \in Request : Fresh(r) /\ Remembered(r) /\ Written(r)
    BY <2>4, <2>6 DEF Fresh, Remembered, Written, Selecting
  <2>11. \A r \in Request : Bounded(r)
    <3>1. \A r \in Request : /\ pc[r] = "idle" /\ history[r].retries = 0
                             /\ loc[r].attempt = 0 /\ Len(loc[r].list) = 0
      BY <2>4, <2>5, <2>6, <2>8
    <3>2. QED
      BY <3>1, PolicyAssumption DEF Bounded, Trying
  <2>12. TriedOnce /\ RetryHistoryRecorded
    BY <2>6, <2>8 DEF TriedOnce, RetryHistoryRecorded
  <2>13. \A u \in Upstream : Held(u) = {}
    BY <2>6 DEF Held, Holders, Leaked
  <2>14. ConnectionsCounted /\ \A u \in Upstream : IsFiniteSet(Held(u))
    BY <2>1, <2>13, FS_EmptySet DEF ConnectionsCounted, Held
  <2>15. calm = "cold" => Cold
    <3>1. calm = "cold" => binding = Unbound
      BY DEF Init
    <3>2. Pinned = {}
      BY <2>4, <2>6 DEF Pinned
    <3>3. QED
      BY <2>6, <3>1, <3>2 DEF Cold, Selecting
  <2>16. QED
    BY <2>9, <2>10, <2>11, <2>12, <2>14, <2>15 DEF IInv
<1>2. IInv /\ [Next]_vars => IInv'
  <2> SUFFICES ASSUME IInv, [Next]_vars PROVE IInv'
    OBVIOUS
  <2>a. /\ pc \in [Request -> Label] /\ loc \in [Request -> Locals] /\ history \in [Request -> History]
        /\ row \in [Request -> Row \cup {NoRow}] /\ pending \in [Request -> Row \cup {NoRow}]
        /\ \A r \in Request : loc[r].attempt <= Len(loc[r].list)
        /\ serving \subseteq Upstream /\ binding \in Binding /\ conns \in [Upstream -> Nat]
        /\ cleaning \in BOOLEAN /\ reloads \in 0..ReloadBudget
        /\ calm \in {"cold", "stale", "disturbed"}
    BY DEF IInv, TypeOK, RouterTypeOK
  <2>b. \A r \in Request : Good(r)
    BY DEF IInv, TypeOK, Good, Once, TriedOnce, Recorded, RetryHistoryRecorded
  \* A request does not run on: the router's state, its row or the configuration changes.
  <2>1. ASSUME UNCHANGED <<pc, loc, history, conns>>,
               serving' \subseteq Upstream, binding' \in Binding, cleaning' \in BOOLEAN,
               reloads' \in 0..ReloadBudget, calm' \in {"cold", "stale", "disturbed"},
               row' \in [Request -> Row \cup {NoRow}], pending' \in [Request -> Row \cup {NoRow}],
               \A r \in Request : pending'[r] \in {pending[r], NoRow},
               calm' = "cold" => calm = "cold" /\ UNCHANGED binding
        PROVE  IInv'
    <3>1. TypeOK'
      BY <2>1, <2>a DEF TypeOK, RouterTypeOK
    <3>2. \A r \in Request : Fresh(r)' /\ Remembered(r)' /\ Bounded(r)'
      BY <2>1 DEF IInv, Fresh, Remembered, Bounded
    <3>3. \A r \in Request : Written(r)'
      BY <2>1 DEF IInv, Written
    <3>4. TriedOnce'
      BY <2>1 DEF IInv, TriedOnce
    <3>5. RetryHistoryRecorded'
      BY <2>1 DEF IInv, RetryHistoryRecorded
    <3>6. ConnectionsCounted' /\ \A u \in Upstream : IsFiniteSet(Held(u))'
      BY <2>1 DEF IInv, ConnectionsCounted, Held, Holders, Leaked, Current
    <3>7. calm' = "cold" => Cold'
      BY <2>1 DEF IInv, Cold, Pinned
    <3>8. QED
      BY <3>1, <3>2, <3>3, <3>4, <3>5, <3>6, <3>7 DEF IInv
  <2>2. ASSUME NEW r \in Request, (\E logged \in BOOLEAN : Arrive(r, logged)) \/ Continue(r)
        PROVE  IInv'
    <3>1. StepOK(r)
      <4>1. CASE \/ \E logged \in BOOLEAN : Arrive(r, logged)
                 \/ FollowBinding(r) \/ \E u \in Upstream : PickPrimary(r, u)
                 \/ RefreshBinding(r) \/ ClaimBinding(r) \/ FindUnusable(r) \/ OverwriteBinding(r)
        BY <4>1, SelectStep DEF StepOK
      <4>2. CASE Continue(r) /\ pc[r] \notin Selecting
        BY <4>2, TryStep
      <4>3. CASE NotRouted(r)
        BY <4>3, TryStep DEF Continue
      <4>4. ASSUME Continue(r), pc[r] \in Selecting
            PROVE  \/ NotRouted(r) \/ FollowBinding(r) \/ \E u \in Upstream : PickPrimary(r, u)
                   \/ RefreshBinding(r) \/ ClaimBinding(r) \/ FindUnusable(r) \/ OverwriteBinding(r)
        BY <4>4 DEF Continue, Selecting, BodyRejected, Skip, TakeNext, Call, AllFailed, FailOver, Saturated,
           RetryByPolicy, AuthRefused, ContentRefused, Refuse, NoResponse, Accept, TokenRefreshed,
           RefreshFailed, ReplyEnds, ReplyBroken, ReplyUnfinished, ReplySaturated
      <4>5. QED
        BY <2>2, <4>1, <4>2, <4>3, <4>4
    <3>2. Frame(r) /\ Good(r)' /\ Balanced(r) /\ RouterKept /\ (calm' = "cold" => Cold')
      BY <3>1 DEF StepOK
    <3>3. \A q \in Request : Good(q)'
      <4>1. ASSUME NEW q \in Request \ {r} PROVE Good(q)'
        <5>1. pc'[q] = pc[q] /\ loc'[q] = loc[q] /\ pending'[q] = pending[q] /\ history'[q] = history[q]
          BY <3>2 DEF Frame
        <5>2. Fresh(q)' /\ Remembered(q)' /\ Bounded(q)' /\ Written(q)'
          BY <2>b, <5>1 DEF Good, Fresh, Remembered, Bounded, Written
        <5>3. Recorded(q)'
          BY <2>b, <5>1 DEF Good, Recorded
        <5>4. QED
          BY <2>b, <5>1, <5>2, <5>3 DEF Good
      <4>2. QED
        BY <3>2, <4>1
    <3>4. conns' \in [Upstream -> Nat] /\ ConnectionsCounted' /\ \A u \in Upstream : IsFiniteSet(Held(u))'
      BY <3>2, CountStep
    <3>5. TypeOK'
      BY <2>a, <3>2, <3>3, <3>4 DEF TypeOK, RouterTypeOK, Frame, RouterKept, Good
    <3>6. TriedOnce'
      BY <3>3 DEF Good, Once, TriedOnce
    <3>7. RetryHistoryRecorded'
      BY <3>3 DEF Good, Recorded, RetryHistoryRecorded
    <3>8. QED
      BY <3>2, <3>3, <3>4, <3>5, <3>6, <3>7 DEF IInv, Good
  <2>3. ASSUME NEW r \in Request, WriteRow(r) PROVE IInv'
    <3>1. /\ row' \in [Request -> Row \cup {NoRow}] /\ pending' \in [Request -> Row \cup {NoRow}]
          /\ \A q \in Request : pending'[q] \in {pending[q], NoRow}
      BY <2>3, <2>a DEF WriteRow
    <3>2. UNCHANGED <<serving, binding, conns, cleaning, pc, loc, reloads, history, calm>>
      BY <2>3 DEF WriteRow
    <3>3. QED
      BY <2>a, <2>1, <3>1, <3>2
  <2>4. ASSUME BindingExpires \/ CleanupFinds \/ CleanupDeletes PROVE IInv'
    <3>1. UNCHANGED <<pc, loc, history, conns, serving, reloads, row, pending>> /\ calm' = "disturbed"
      BY <2>4 DEF BindingExpires, CleanupFinds, CleanupDeletes, Expire, CleanupFind, CleanupDelete,
                  Disturb, handlerVars
    <3>a. Unbound \in Binding /\ [binding EXCEPT !.fresh = FALSE] \in Binding
      BY <2>a DEF Binding, Unbound
    <3>2. binding' \in Binding /\ cleaning' \in BOOLEAN
      BY <2>4, <2>a, <3>a DEF BindingExpires, CleanupFinds, CleanupDeletes, Expire, CleanupFind, CleanupDelete
    <3>3. QED
      BY <2>a, <2>1, <3>1, <3>2
  <2>5. ASSUME ConfigReloads PROVE IInv'
    <3>1. /\ UNCHANGED <<pc, loc, history, conns, binding, cleaning, row, pending>> /\ calm' = "disturbed"
          /\ serving' \subseteq Upstream
      BY <2>5, <2>a DEF ConfigReloads, Reload, Disturb, handlerVars
    <3>2. reloads' \in 0..ReloadBudget
      BY <2>5, <2>a, PolicyAssumption DEF ConfigReloads
    <3>3. QED
      BY <2>a, <2>1, <3>1, <3>2
  <2>6. CASE UNCHANGED vars
    BY <2>a, <2>1, <2>6 DEF vars
  <2>7. QED
    BY <2>2, <2>3, <2>4, <2>5, <2>6 DEF Next, Quiescent
<1>3. QED
  BY <1>1, <1>2, PTL DEF Spec

----------------------------------------------------------------------------
(* The properties.                                                         *)

\* Type correctness of every reachable state: a request has its label and
\* locals, never more attempts than upstreams in its list, and a row of the
\* right shape, and the router its counters and binding.
THEOREM TypeCorrect == Spec => []TypeOK
<1>1. IInv => TypeOK
  BY DEF IInv
<1>2. QED
  BY <1>1, Inductive, PTL

\* ConnTracker's count of an upstream is exact, however requests fail, are
\* retried, replayed or fail over: it counts those that hold a connection, and
\* the Responses streams that ended without usage and left theirs behind.
THEOREM CountExact == Spec => []ConnectionsCounted
<1>1. IInv => ConnectionsCounted
  BY DEF IInv
<1>2. QED
  BY <1>1, Inductive, PTL

\* SelectWithRetry's ranking and the capacity fallbacks never put an upstream on
\* the list of a request twice.
THEOREM NeverBack == Spec => []TriedOnce
<1>1. IInv => TriedOnce
  BY DEF IInv
<1>2. QED
  BY <1>1, Inductive, PTL

\* applyRetryFields derives from the handler's last retry status what happened
\* over all attempts of the request.
THEOREM HistoryKept == Spec => []RetryHistoryRecorded
<1>1. IInv => RetryHistoryRecorded
  BY DEF IInv
<1>2. QED
  BY <1>1, Inductive, PTL

\* LoadOrStore makes the requests of a session that start together agree.
THEOREM Converges == Spec => []ColdStartConverges
<1>1. IInv => ColdStartConverges
  BY DEF IInv, Cold, ColdStartConverges, Agreed
<1>2. QED
  BY <1>1, Inductive, PTL

\* The loop of Execute retries no more often than RetryPolicy.MaxRetries, unless
\* SelectCapacityFallbacks has lengthened its list.
THEOREM PolicyKept == Spec => []RetriesFollowPolicy
<1>1. IInv => RetriesFollowPolicy
  <2> SUFFICES ASSUME IInv, NEW r \in Request, ~history[r].failover
               PROVE  ~(history[r].retries > MaxRetries)
    BY DEF RetriesFollowPolicy
  <2>1. history[r].retries \in Nat /\ history[r].retries <= MaxRetries
    BY DEF IInv, TypeOK, History, Bounded
  <2>2. QED
    BY <2>1, PolicyAssumption
<1>2. QED
  BY <1>1, Inductive, PTL
==============================================================================

-------------------------- MODULE OAuthTokens_proofs --------------------------
(***************************************************************************)
(* Theorems about OAuthTokens, for any number of callers, refresh tokens   *)
(* and ticks, and whatever the administrator does.                         *)
(***************************************************************************)
EXTENDS OAuthTokens, TLAPS

----------------------------------------------------------------------------
(* The pieces of the steps.                                                *)

\* The values that exchanges begin and end with.
LEMMA Constants ==
  /\ Gone \in Creds /\ Gone.token = 0 /\ NoCall \in Call
  /\ NoExchange \in Exchange /\ NoExchange.phase = "idle" /\ NoExchange.got = Gone
  /\ NoReload.on = FALSE /\ NoReload.row = Gone /\ NoReload \in [on : BOOLEAN, row : Creds]
<1>1. Gone \in Creds /\ Gone.token = 0
  BY TimeAssumption, BudgetAssumption DEF Gone, Creds
<1>2. NoCall \in Call
  BY DEF NoCall, Call, Key
<1>3. QED
  BY <1>1, <1>2 DEF NoExchange, Exchange, NoReload

\* The provider issues the next refresh token, or none; a token that is used up
\* is earlier than the one that takes its place.
LEMMA AcceptsStep ==
  ASSUME TypeOK, NEW sent, NEW a \in Answers, Accepts(sent, a)
  PROVE  /\ a \in Creds /\ a # Gone /\ (kind = "claudecode" => a.token # 0 /\ a.expires # 0)
         /\ issued' \in 1..MaxTokens /\ issued <= issued' /\ live' \subseteq 1..issued'
         /\ a.token \in 0..issued'
         /\ a.token = 0 => issued' = issued /\ live' = live
         /\ a.token # 0 => a.token = issued'
         /\ \A t \in 1..issued' \ live' :
              t \in 1..issued \ live \/ (a.token \in 1..issued' /\ a.token > t)
<1>1. issued \in 1..MaxTokens /\ live \subseteq 1..issued /\ MaxTokens \in Nat
  BY BudgetAssumption DEF TypeOK
<1>2. a \in [token : {0, issued + 1}, expires : {0, 1}] /\ a # Gone
  BY DEF Answers
<1>3. a.token \in {0, issued + 1} /\ a.expires \in {0, 1}
  BY <1>2
<1>4. CASE a.token = 0
  <2>1. issued' = issued /\ live' = live /\ a.token \in 0..MaxTokens
    BY <1>1, <1>4 DEF Accepts
  <2>2. 1 \in 0..MaxTime + Life /\ 0 \in 0..MaxTime + Life
    BY TimeAssumption
  <2>3. a \in Creds
    BY <1>2, <1>3, <2>1, <2>2 DEF Creds
  <2>4. QED
    BY <1>1, <1>2, <1>4, <2>1, <2>3, TypeOK DEF Accepts, TypeOK
<1>5. CASE a.token = issued + 1
  <2>1. /\ issued' = issued + 1 /\ issued < MaxTokens
        /\ live' = (live \ {sent}) \cup {issued + 1}
    BY <1>1, <1>5 DEF Accepts
  <2>2. 1 \in 0..MaxTime + Life /\ 0 \in 0..MaxTime + Life
    BY TimeAssumption
  <2>3. a.token \in 0..MaxTokens
    BY <1>1, <1>5, <2>1
  <2>4. a \in Creds
    BY <1>2, <1>3, <2>3, <2>2 DEF Creds
  <2>5. \A t \in 1..issued' \ live' : t \in 1..issued /\ a.token > t
    BY <1>1, <1>5, <2>1
  <2>6. kind = "claudecode" => a.token # 0 /\ a.expires # 0
    BY DEF Accepts
  <2>7. /\ issued' \in 1..MaxTokens /\ issued <= issued' /\ live' \subseteq 1..issued'
        /\ a.token = issued' /\ a.token \in 1..issued' /\ a.token # 0
    <3>1. /\ issued' \in 1..MaxTokens /\ issued <= issued' /\ issued' # 0 /\ issued' \in 1..issued'
          /\ 1..issued \subseteq 1..issued'
      BY <1>1, <2>1
    <3>2. a.token = issued'
      BY <1>5, <2>1
    <3>3. live' \subseteq 1..issued'
      BY <1>1, <2>1, <3>1
    <3>4. QED
      BY <3>1, <3>2, <3>3
  <2>8. a.token \in 0..issued'
    BY <2>7
  <2>9. QED
    BY <1>2, <2>4, <2>5, <2>6, <2>7, <2>8
<1>6. QED
  BY <1>3, <1>4, <1>5

\* The credentials that an answer leads to.
LEMMA MergeStep ==
  ASSUME TypeOK, NEW old \in Creds, NEW a \in Creds, a.token = 0 => old.token # 0
  PROVE  /\ Merge(old, a) \in Creds /\ Merge(old, a) # Gone
         /\ Merge(old, a).token = IF a.token = 0 THEN old.token ELSE a.token
         /\ Merge(old, a).token # 0
<1>1. now + Life \in 0..MaxTime + Life
  BY TimeAssumption DEF TypeOK
<1>2. old.token \in 0..MaxTokens /\ a.token \in 0..MaxTokens /\ old.expires \in 0..MaxTime + Life
  BY DEF Creds
<1>3. Merge(old, a) \in Creds
  BY <1>1, <1>2 DEF Merge, Creds
<1>4. Merge(old, a).token = IF a.token = 0 THEN old.token ELSE a.token
  BY DEF Merge
<1>5. QED
  BY <1>3, <1>4, Constants

\* One exchange changes, and the others do not.
LEMMA FlightStep ==
  ASSUME TypeOK, NEW k \in Key, NEW x \in Exchange, flight' = [flight EXCEPT ![k] = x]
  PROVE  /\ flight' \in [Key -> Exchange] /\ flight'[k] = x
         /\ \A j \in Key \ {k} : flight'[j] = flight[j]
  BY DEF TypeOK

\* The end of a refresh.
LEMMA EndStep ==
  ASSUME TypeOK, NEW k \in Key, NEW result \in Call, EndFlight(k, result)
  PROVE  /\ flight' \in [Key -> Exchange] /\ flight'[k] = NoExchange
         /\ \A j \in Key \ {k} : flight'[j] = flight[j]
         /\ call' \in [Caller -> Call]
<1>1. call \in [Caller -> Call] /\ flight \in [Key -> Exchange]
  BY DEF TypeOK
<1>2. QED
  BY <1>1, Constants DEF EndFlight

\* Tokens that are in hand stay there or are stored, and a token that is used
\* up has its successor in hand.
Carried ==
  /\ lossy => lossy'
  /\ db = Gone => db' = Gone
  /\ ~lossy' /\ db' # Gone =>
       /\ db.token <= db'.token
       /\ \A h \in 1..issued : InHand(h) => InHand(h)' \/ h <= db'.token
       /\ \A t \in 1..issued' \ live' :
            t \in 1..issued \ live \/ \E h \in 1..issued' : InHand(h)' /\ h > t

\* Then the chain of successors still ends in the row or in somebody's hand.
LEMMA ChainStep ==
  ASSUME IInv, Carried, db' \in Creds, issued' \in Nat, issued <= issued'
  PROVE  Succeeded'
<1> SUFFICES ASSUME ~lossy', db' # Gone, NEW t \in 1..issued' \ live'
             PROVE  db'.token > t \/ \E h \in 1..issued' : InHand(h)' /\ h > t
  BY DEF Succeeded
<1>1. ~lossy /\ db # Gone /\ db.token \in Nat /\ db'.token \in Nat /\ issued \in Nat
  BY BudgetAssumption DEF Carried, IInv, TypeOK, Creds
<1>2. CASE \E h \in 1..issued' : InHand(h)' /\ h > t
  BY <1>2
<1>3. CASE t \in 1..issued \ live
  <2>1. CASE db.token > t
    BY <1>1, <2>1 DEF Carried
  <2>2. CASE \E h \in 1..issued : InHand(h) /\ h > t
    <3>1. PICK h \in 1..issued : InHand(h) /\ h > t
      BY <2>2
    <3>2. h \in 1..issued' /\ (InHand(h)' \/ h <= db'.token)
      BY <1>1, <3>1 DEF Carried
    <3>3. QED
      BY <1>1, <3>1, <3>2
  <2>3. QED
    BY <1>1, <1>3, <2>1, <2>2 DEF IInv, Succeeded
<1>4. QED
  BY <1>2, <1>3 DEF Carried

----------------------------------------------------------------------------
(* The system.                                                             *)

\* What of the invariant a step has to establish, besides the types.
Secured == Authentic' /\ RowThere' /\ Carried

\* The steps of the callers and of the refreshes they share.
LEMMA RefreshStep ==
  ASSUME IInv, NEW k \in Key, Refresh(k)
  PROVE  TypeOK' /\ Secured /\ issued <= issued'
<1>a. TypeOK /\ Authentic /\ RowThere
  BY DEF IInv
<1>b. /\ now \in 0..MaxTime /\ issued \in 1..MaxTokens /\ live \subseteq 1..issued
      /\ db \in Creds /\ mem \in Creds /\ reload \in [on : BOOLEAN, row : Creds]
      /\ flight \in [Key -> Exchange] /\ admin \in Exchange /\ left \in 0..Budget /\ lossy \in BOOLEAN
      /\ Budget \in Nat /\ MaxTokens \in Nat /\ issued \in Nat
  BY <1>a, BudgetAssumption DEF TypeOK
<1>c. flight[k] \in Exchange /\ flight[k].got \in Creds
  BY <1>b DEF Exchange
\* Nothing of what others go by changes but the exchange itself.
<1>1. ASSUME NEW x \in Exchange, flight'[k] = x, flight' \in [Key -> Exchange],
             \A j \in Key \ {k} : flight'[j] = flight[j],
             UNCHANGED <<kind, db, admin, reload>>, issued <= issued', issued' \in Nat,
             x.phase \in {"idle", "post", "answer", "write"}, x.got.token \in 0..issued',
             x.phase = "answer" => x.got # Gone /\ (kind = "claudecode" => x.got.token # 0),
             x.phase = "write" => x.got.token # 0,
             mem' # Gone => mem'.token \in 1..issued',
             mem # Gone => mem' # Gone, db # Gone => lock' = "free"
      PROVE  /\ Authentic' /\ RowThere'
             /\ \A h \in 1..issued : InHand(h) =>
                  InHand(h)' \/ (flight[k].phase \in {"answer", "write"} /\ flight[k].got.token = h)
  <2>1. 0..issued \subseteq 0..issued' /\ 1..issued \subseteq 1..issued'
    BY <1>1, <1>b
  <2>2. RowThere'
    BY <1>1, <1>a DEF RowThere
  <2>3. Genuine(db)' /\ Genuine(mem)' /\ Genuine(reload.row)'
    BY <1>1, <1>a, <2>1 DEF Authentic, Genuine
  <2>4. Authentic'
    BY <1>1, <1>a, <2>1, <2>3 DEF Authentic
  <2>5. QED
    BY <1>1, <2>2, <2>4 DEF InHand
\* The refresh ends with nothing in hand.
<1>2. ASSUME NEW result \in Call, EndFlight(k, result), UNCHANGED <<kind, now, issued, live, db, admin, reload>>,
             mem' = mem, known' \in BOOLEAN, lock' \in {"free", "read", "stuck"},
             db # Gone => lock' = "free", left' \in 0..Budget, lossy' \in BOOLEAN, lossy => lossy',
             flight[k].phase \in {"answer", "write"} => lossy' \/ db = Gone
      PROVE  TypeOK' /\ Secured
  <2>1. /\ flight' \in [Key -> Exchange] /\ flight'[k] = NoExchange
        /\ \A j \in Key \ {k} : flight'[j] = flight[j]
        /\ call' \in [Caller -> Call]
    BY <1>2, <1>a, EndStep
  <2>2. TypeOK'
    BY <1>2, <1>a, <2>1 DEF TypeOK
  <2>3. /\ Authentic' /\ RowThere'
        /\ \A h \in 1..issued : InHand(h) =>
             InHand(h)' \/ (flight[k].phase \in {"answer", "write"} /\ flight[k].got.token = h)
    BY <1>1, <1>2, <1>a, <1>b, <2>1, Constants DEF Authentic, Genuine, RowThere
  <2>4. db \in Creds /\ db.token \in Nat
    BY <1>b DEF Creds
  <2>5. Carried
    BY <1>2, <2>3, <2>4 DEF Carried
  <2>6. QED
    BY <2>2, <2>3, <2>5 DEF Secured
<1>3. CASE Answered(k)
  <2>1. PICK a \in Answers : /\ Accepts(flight[k].got.token, a)
                             /\ flight' = [flight EXCEPT ![k] = [phase |-> "answer", got |-> a]]
    BY <1>3 DEF Answered
  <2>2. /\ a \in Creds /\ a # Gone /\ (kind = "claudecode" => a.token # 0)
        /\ issued' \in 1..MaxTokens /\ issued <= issued' /\ live' \subseteq 1..issued'
        /\ a.token \in 0..issued'
        /\ \A t \in 1..issued' \ live' :
             t \in 1..issued \ live \/ (a.token \in 1..issued' /\ a.token > t)
    BY <1>a, <2>1, AcceptsStep
  <2> DEFINE x == [phase |-> "answer", got |-> a]
  <2>3. x \in Exchange /\ x.phase = "answer" /\ x.got = a
    BY <2>2 DEF Exchange
  <2>4. flight' = [flight EXCEPT ![k] = x]
    BY <2>1
  <2> HIDE DEF x
  <2>5. /\ flight' \in [Key -> Exchange] /\ flight'[k] = x
        /\ \A j \in Key \ {k} : flight'[j] = flight[j]
    BY <1>a, <2>3, <2>4, FlightStep
  <2>6. UNCHANGED <<kind, now, db, manager, call, admin, reload, left, lossy>> /\ flight[k].phase = "post"
    BY <1>3 DEF Answered
  <2>7. UNCHANGED <<mem, known, lock>>
    BY <2>6 DEF manager
  <2>8. TypeOK'
    BY <1>a, <2>2, <2>5, <2>6, <2>7 DEF TypeOK
  <2>9. issued' \in Nat /\ (mem # Gone => mem.token \in 1..issued') /\ (db # Gone => lock = "free")
    BY <1>a, <1>b, <2>2 DEF Authentic, Genuine, RowThere
  <2>10. Authentic' /\ RowThere' /\ \A h \in 1..issued : InHand(h) => InHand(h)'
    BY <1>1, <2>2, <2>3, <2>5, <2>6, <2>7, <2>9
  <2>11. \A t \in 1..issued' \ live' : t \in 1..issued \ live \/ \E h \in 1..issued' : InHand(h)' /\ h > t
    <3>1. InHand(a.token)'
      BY <2>3, <2>5 DEF InHand
    <3>2. QED
      BY <2>2, <3>1
  <2>12. db.token <= db'.token
    BY <1>b, <2>6 DEF Creds
  <2>13. QED
    BY <2>2, <2>6, <2>8, <2>10, <2>11, <2>12 DEF Secured, Carried
<1>4. CASE Refused(k)
  BY <1>4, <1>2, <1>a, <1>b, Constants DEF Refused, manager, TypeOK, RowThere
<1>5. CASE AnswerLost(k)
  <2>1. PICK a \in Answers : Accepts(flight[k].got.token, a)
    BY <1>5 DEF AnswerLost
  <2>2. issued' \in 1..MaxTokens /\ issued <= issued' /\ live' \subseteq 1..issued'
    BY <1>a, <2>1, AcceptsStep
  <2>3. /\ EndFlight(k, NoCall) /\ UNCHANGED <<kind, now, db, mem, known, lock, admin, reload>>
        /\ lossy' = TRUE /\ left > 0 /\ left' = left - 1
    BY <1>5 DEF AnswerLost, manager, Spend
  <2>4. /\ flight' \in [Key -> Exchange] /\ flight'[k] = NoExchange
        /\ \A j \in Key \ {k} : flight'[j] = flight[j]
        /\ call' \in [Caller -> Call]
    BY <1>a, <2>3, EndStep, Constants
  <2>5. left' \in 0..Budget
    BY <1>b, <2>3
  <2>6. TypeOK'
    BY <1>a, <2>2, <2>3, <2>4, <2>5 DEF TypeOK
  <2>7. issued' \in Nat /\ 0 \in 0..issued' /\ (mem # Gone => mem.token \in 1..issued') /\ (db # Gone => lock = "free")
    BY <1>a, <1>b, <2>2 DEF Authentic, Genuine, RowThere
  <2>8. Authentic' /\ RowThere'
    BY <1>1, <2>2, <2>3, <2>4, <2>7, Constants
  <2>9. QED
    BY <2>2, <2>3, <2>6, <2>8 DEF Secured, Carried
<1>6. CASE Apply(k)
  <2> DEFINE a == flight[k].got
             m == Merge(mem, a)
             x == [phase |-> "write", got |-> m]
  <2>1. /\ flight[k].phase = "answer" /\ lock = "free" /\ (kind = "codex" => mem # Gone)
        /\ mem' = m /\ flight' = [flight EXCEPT ![k] = x]
        /\ UNCHANGED <<kind, now, issued, live, db, known, lock, call, admin, reload, left, lossy>>
    BY <1>6 DEF Apply
  <2>2. a \in Creds /\ a.token \in 0..issued /\ (a.token = 0 => mem # Gone)
    <3>1. kind \in {"codex", "claudecode"}
      BY <1>a DEF TypeOK
    <3>2. QED
      BY <1>a, <1>c, <2>1, <3>1 DEF Authentic
  <2>3. mem # Gone => mem.token \in 1..issued /\ mem.token # 0
    BY <1>a, <1>b DEF Authentic, Genuine
  <2>4. /\ m \in Creds /\ m # Gone /\ m.token = (IF a.token = 0 THEN mem.token ELSE a.token) /\ m.token # 0
    BY <1>a, <1>b, <2>2, <2>3, MergeStep
  <2> HIDE DEF m, a
  <2>5. m.token \in 0..issued /\ m.token \in 1..issued
    BY <1>b, <2>2, <2>3, <2>4
  <2>6. x \in Exchange /\ x.phase = "write" /\ x.got = m
    BY <2>4 DEF Exchange
  <2> HIDE DEF x
  <2>7. /\ flight' \in [Key -> Exchange] /\ flight'[k] = x
        /\ \A j \in Key \ {k} : flight'[j] = flight[j]
    BY <1>a, <2>1, <2>6, FlightStep
  <2>8. TypeOK'
    BY <1>a, <2>1, <2>4, <2>7 DEF TypeOK
  <2>9. issued <= issued' /\ issued' \in Nat
    BY <1>b, <2>1
  <2>10. /\ Authentic' /\ RowThere'
         /\ \A h \in 1..issued : InHand(h) =>
              InHand(h)' \/ (flight[k].phase \in {"answer", "write"} /\ flight[k].got.token = h)
    BY <1>1, <2>1, <2>4, <2>5, <2>6, <2>7, <2>9
  <2>11. \A h \in 1..issued : InHand(h) => InHand(h)'
    <3>1. \A h \in 1..issued : a.token = h => InHand(h)'
      BY <1>b, <2>4, <2>6, <2>7 DEF InHand
    <3>2. QED
      BY <2>10, <3>1 DEF a
  <2>12. db.token <= db'.token
    BY <1>b, <2>1 DEF Creds
  <2>13. QED
    BY <2>1, <2>8, <2>9, <2>10, <2>11, <2>12 DEF Secured, Carried
<1>7. CASE ApplyPanics(k)
  BY <1>7, <1>2, <1>a, <1>b, Constants DEF ApplyPanics, TypeOK, RowThere
<1>8. CASE Persist(k)
  <2> DEFINE g == flight[k].got
  <2>1. /\ flight[k].phase = "write" /\ db' = (IF db = Gone THEN Gone ELSE g)
        /\ EndFlight(k, [at |-> "reread", key |-> k])
        /\ lossy' = (lossy \/ g.token < db.token)
        /\ UNCHANGED <<kind, now, issued, live, mem, known, lock, admin, reload, left>>
    BY <1>8 DEF Persist, UpdateRow, manager
  <2>2. g \in Creds /\ g.token \in 1..issued
    BY <1>a, <1>b, <1>c, <2>1 DEF Authentic
  <2> HIDE DEF g
  <2>3. [at |-> "reread", key |-> k] \in Call
    BY DEF Call
  <2>4. /\ flight' \in [Key -> Exchange] /\ flight'[k] = NoExchange
        /\ \A j \in Key \ {k} : flight'[j] = flight[j]
        /\ call' \in [Caller -> Call]
    BY <1>a, <2>1, <2>3, EndStep
  <2>5. db' \in Creds /\ lossy' \in BOOLEAN
    BY <1>b, <2>1, <2>2, Constants
  <2>6. TypeOK'
    BY <1>a, <2>1, <2>4, <2>5 DEF TypeOK
  <2>7. Authentic'
    BY <1>a, <1>b, <2>1, <2>2, <2>4, Constants DEF Authentic, Genuine
  <2>8. RowThere'
    BY <1>a, <2>1 DEF RowThere
  <2>9. \A h \in 1..issued : InHand(h) => InHand(h)' \/ h = g.token
    BY <2>1, <2>4 DEF InHand, g
  <2>10. db.token \in Nat /\ g.token \in Nat
    BY <1>b, <2>2 DEF Creds
  <2>11. ~lossy' => db.token <= g.token
    <3>1. ~lossy' => ~(g.token < db.token)
      BY <2>1, Zenon
    <3>2. QED
      BY <2>10, <3>1
  <2>12. Carried
    BY <1>b, <2>1, <2>9, <2>10, <2>11 DEF Carried
  <2>13. QED
    BY <1>b, <2>1, <2>6, <2>7, <2>8, <2>12 DEF Secured
<1>9. CASE PersistFails(k)
  <2>1. [at |-> "reread", key |-> k] \in Call
    BY DEF Call
  <2>2. left' \in 0..Budget
    BY <1>9, <1>b DEF PersistFails, Spend
  <2>3. QED
    BY <1>9, <1>2, <1>a, <1>b, <2>1, <2>2 DEF PersistFails, manager, TypeOK, RowThere
<1>10. QED
  BY <1>3, <1>4, <1>5, <1>6, <1>7, <1>8, <1>9 DEF Refresh
\* The invariant holds initially, and every step keeps it.
LEMMA Inductive == Spec => []IInv
<1>1. Init => IInv
  <2> SUFFICES ASSUME Init PROVE IInv
    OBVIOUS
  <2>1. db \in Creds /\ db.token = 1
    BY TimeAssumption, BudgetAssumption DEF Init, Creds
  <2>2. db # Gone
    BY <2>1, Constants
  <2>3. /\ kind \in {"codex", "claudecode"} /\ now \in 0..MaxTime /\ issued = 1 /\ issued \in 1..MaxTokens
        /\ live = {1} /\ left \in 0..Budget /\ lossy \in BOOLEAN
    <3>1. 0 \in 0..MaxTime /\ 1 \in 1..MaxTokens /\ Budget \in 0..Budget
      BY TimeAssumption, BudgetAssumption
    <3>2. QED
      BY <3>1 DEF Init
  <2>4. /\ mem = db /\ known = TRUE /\ lock = "free" /\ admin = NoExchange /\ reload = NoReload
        /\ call \in [Caller -> Call] /\ flight \in [Key -> Exchange]
        /\ \A k \in Key : flight[k] = NoExchange
    BY Constants DEF Init
  <2>5. TypeOK
    BY <2>1, <2>3, <2>4, Constants DEF TypeOK
  <2>6. Authentic /\ RowThere
    BY <2>1, <2>2, <2>3, <2>4, Constants DEF Authentic, Genuine, RowThere
  <2>7. Succeeded
    BY <2>3 DEF Succeeded
  <2>8. QED
    BY <2>5, <2>6, <2>7 DEF IInv
<1>2. IInv /\ [Next]_vars => IInv'
  <2> SUFFICES ASSUME IInv, [Next]_vars PROVE IInv'
    OBVIOUS
  <2>a. TypeOK /\ Authentic /\ RowThere
    BY DEF IInv
  <2>b. /\ now \in 0..MaxTime /\ issued \in 1..MaxTokens /\ live \subseteq 1..issued
        /\ db \in Creds /\ mem \in Creds /\ reload \in [on : BOOLEAN, row : Creds]
        /\ flight \in [Key -> Exchange] /\ admin \in Exchange /\ left \in 0..Budget /\ lossy \in BOOLEAN
        /\ call \in [Caller -> Call] /\ admin.got \in Creds
        /\ Budget \in Nat /\ MaxTokens \in Nat /\ issued \in Nat /\ db.token \in Nat /\ db.token <= db.token
        /\ issued <= issued
    BY <2>a, BudgetAssumption DEF TypeOK, Exchange, Creds
  <2>c. ASSUME TypeOK', Secured, issued <= issued' PROVE IInv'
    <3>1. db' \in Creds /\ issued' \in Nat
      BY <2>c, BudgetAssumption DEF TypeOK
    <3>2. QED
      BY <2>c, <3>1, ChainStep DEF Secured, IInv
  \* Neither the tokens nor the exchanges change.
  <2>1. ASSUME TypeOK', UNCHANGED <<kind, issued, live, db, flight, admin, lossy>>,
               mem' # Gone => Genuine(mem'), Genuine(reload.row)',
               db # Gone => mem' # Gone /\ lock' = "free" /\ (reload'.on => reload'.row # Gone)
        PROVE  IInv'
    <3>1. Authentic'
      BY <2>1, <2>a DEF Authentic, Genuine
    <3>2. RowThere'
      BY <2>1 DEF RowThere
    <3>3. Carried
      BY <2>1, <2>b DEF Carried, InHand
    <3>4. QED
      BY <2>1, <2>b, <2>c, <3>1, <3>2, <3>3 DEF Secured
  <2>2. ASSUME NEW c \in Caller, GetToken(c) \/ ForceToken(c) \/ Join(c) PROVE IInv'
    <3>1. UNCHANGED <<kind, now, issued, live, db, mem, known, lock, flight, admin, reload, left, lossy>>
      BY <2>2 DEF GetToken, ForceToken, Join, manager
    <3>2. call' \in [Caller -> Call]
      <4>1. call[c] \in [at : {"idle", "join", "wait", "reread"}, key : Key]
        BY <2>b DEF Call
      <4>2. [call[c] EXCEPT !.at = "join"] \in Call /\ [call[c] EXCEPT !.at = "wait"] \in Call
            /\ [at |-> "join", key |-> "force"] \in Call
        BY <4>1 DEF Call, Key
      <4>3. QED
        BY <2>2, <2>b, <4>2 DEF GetToken, ForceToken, Join, Goto
    <3>3. TypeOK'
      BY <2>a, <3>1, <3>2 DEF TypeOK
    <3>4. QED
      BY <2>1, <2>a, <3>1, <3>3 DEF Authentic, Genuine, RowThere
  <2>3. ASSUME NEW c \in Caller, Lead(c) PROVE IInv'
    <3>1. UNCHANGED <<kind, now, issued, live, db, mem, known, lock, admin, reload, left, lossy>>
      BY <2>3 DEF Lead, manager
    <3> DEFINE k == call[c].key
               x == [phase |-> "post", got |-> [Gone EXCEPT !.token = mem.token]]
    <3>2. k \in Key /\ flight[k].phase = "idle"
      BY <2>3, <2>b, Constants DEF Lead, Call
    <3>3. x \in Exchange /\ x.phase = "post" /\ x.got.token = mem.token
      <4>1. mem.token \in 0..MaxTokens /\ 0 \in 0..MaxTime + Life
        BY <2>b, TimeAssumption DEF Creds
      <4> DEFINE g == [Gone EXCEPT !.token = mem.token]
      <4>2. g \in Creds /\ g.token = mem.token
        BY <4>1 DEF Creds, Gone
      <4> HIDE DEF g
      <4>3. QED
        BY <4>2 DEF Exchange, g
    <3>4. mem.token \in 0..issued
      BY <2>a, <2>b, Constants DEF Authentic, Genuine
    <3>5. call' \in [Caller -> Call]
      <4>1. call[c] \in [at : {"idle", "join", "wait", "reread"}, key : Key]
        BY <2>b DEF Call
      <4>2. [call[c] EXCEPT !.at = "wait"] \in Call
        BY <4>1 DEF Call
      <4>3. QED
        BY <2>3, <2>b, <4>2, Constants DEF Lead, Goto, End
    <3>6. CASE UNCHANGED flight
      <4>1. TypeOK'
        BY <2>a, <3>1, <3>5, <3>6 DEF TypeOK
      <4>2. QED
        BY <2>1, <2>a, <3>1, <3>6, <4>1 DEF Authentic, Genuine, RowThere
    <3>7. CASE flight' = [flight EXCEPT ![k] = x]
      <4> HIDE DEF x, k
      <4>1. /\ flight' \in [Key -> Exchange] /\ flight'[k] = x
            /\ \A j \in Key \ {k} : flight'[j] = flight[j]
        BY <2>a, <3>2, <3>3, <3>7, FlightStep
      <4>2. TypeOK'
        BY <2>a, <3>1, <3>5, <4>1 DEF TypeOK
      <4>3. Authentic' /\ RowThere'
        BY <2>a, <3>1, <3>3, <3>4, <4>1 DEF Authentic, Genuine, RowThere
      <4>4. \A h \in 1..issued : InHand(h) => InHand(h)'
        BY <3>1, <3>2, <4>1 DEF InHand
      <4>5. Carried
        BY <2>b, <3>1, <4>4 DEF Carried
      <4>6. QED
        BY <2>b, <2>c, <3>1, <4>2, <4>3, <4>5 DEF Secured
    <3>8. QED
      BY <2>3, <3>6, <3>7 DEF Lead
  <2>4. ASSUME NEW c \in Caller, Reread(c) PROVE IInv'
    <3>1. UNCHANGED <<kind, now, issued, live, db, mem, known, flight, admin, reload, left, lossy>>
      BY <2>4 DEF Reread
    <3>2. call' \in [Caller -> Call] /\ lock' \in {"free", "read", "stuck"} /\ (mem # Gone => lock' = lock)
      BY <2>4, <2>a, <2>b, Constants DEF Reread, End, TypeOK
    <3>3. TypeOK'
      BY <2>a, <3>1, <3>2 DEF TypeOK
    <3>4. QED
      BY <2>1, <2>a, <3>1, <3>2, <3>3 DEF Authentic, Genuine, RowThere
  <2>5. ASSUME NEW k \in Key, Refresh(k) PROVE IInv'
    BY <2>5, <2>c, RefreshStep
  <2>6. ASSUME Blocked \/ Tick PROVE IInv'
    <3>1. UNCHANGED <<kind, issued, live, db, mem, known, call, flight, admin, reload, left, lossy>>
          /\ lock' \in {lock, "stuck"} /\ (lock = "free" => lock' = "free")
      BY <2>6 DEF Blocked, Tick, manager, calls
    <3>2. now' \in 0..MaxTime
      BY <2>6, <2>b, TimeAssumption DEF Blocked, Tick
    <3>3. TypeOK'
      BY <2>a, <3>1, <3>2 DEF TypeOK
    <3>4. QED
      BY <2>1, <2>a, <3>1, <3>3 DEF Authentic, Genuine, RowThere
  <2>7. ASSUME ReloadRead PROVE IInv'
    <3>1. UNCHANGED <<kind, now, issued, live, db, mem, known, lock, call, flight, admin, left, lossy>>
          /\ reload' = [on |-> TRUE, row |-> db]
      BY <2>7 DEF ReloadRead, manager, calls
    <3>2. TypeOK'
      BY <2>a, <2>b, <3>1 DEF TypeOK
    <3>3. QED
      BY <2>1, <2>a, <3>1, <3>2 DEF Authentic, Genuine, RowThere
  <2>8. ASSUME ReloadApply PROVE IInv'
    <3>1. UNCHANGED <<kind, now, issued, live, db, lock, call, flight, admin, left, lossy>>
          /\ reload.on /\ mem' \in {mem, reload.row} /\ (mem' = Gone => reload.row = Gone)
          /\ known' \in BOOLEAN /\ reload' = NoReload
      BY <2>8 DEF ReloadApply, Newer, calls
    <3>2. TypeOK'
      BY <2>a, <2>b, <3>1, Constants DEF TypeOK
    <3>3. QED
      BY <2>1, <2>a, <3>1, <3>2, Constants DEF Authentic, Genuine, RowThere
  <2>9. ASSUME ExchangeCode PROVE IInv'
    <3>1. /\ UNCHANGED <<kind, now, db, mem, known, lock, call, flight, reload, lossy>>
          /\ admin = NoExchange /\ issued < MaxTokens /\ left > 0 /\ left' = left - 1
          /\ issued' = issued + 1 /\ live' = live \cup {issued + 1}
          /\ admin' = [phase |-> "page", got |-> Granted]
      BY <2>9 DEF ExchangeCode, Spend, manager, calls
    <3>2. issued' \in 1..MaxTokens /\ issued <= issued' /\ 1..issued \subseteq 1..issued' /\ issued' \in Nat
          /\ 0..issued \subseteq 0..issued' /\ left' \in 0..Budget /\ now + Life \in 0..MaxTime + Life
          /\ issued + 1 \in 1..issued' /\ issued + 1 \in 0..MaxTokens
          /\ \A t \in 1..issued' : t \in 1..issued \/ t = issued + 1
      BY <2>b, <3>1, TimeAssumption
    <3>3. live' \subseteq 1..issued'
      BY <2>b, <3>1, <3>2
    <3>4. Granted \in Creds /\ Granted.token = issued + 1
      BY <3>2 DEF Granted, Creds
    <3>5. admin' \in Exchange /\ admin'.phase = "page" /\ admin'.got.token \in 1..issued'
      BY <3>1, <3>2, <3>4 DEF Exchange
    <3>6. TypeOK'
      BY <2>a, <3>1, <3>2, <3>3, <3>5 DEF TypeOK
    <3>7. Authentic'
      BY <2>a, <3>1, <3>2, <3>5 DEF Authentic, Genuine
    <3>8. RowThere'
      BY <2>a, <3>1 DEF RowThere
    <3>9. \A h \in 1..issued : InHand(h) => InHand(h)'
      BY <3>1, <3>5, Constants DEF InHand
    <3>10. \A t \in 1..issued' \ live' : t \in 1..issued \ live
      BY <3>1, <3>2
    <3>11. Carried
      BY <2>b, <3>1, <3>9, <3>10 DEF Carried
    <3>12. QED
      BY <2>c, <3>2, <3>6, <3>7, <3>8, <3>11 DEF Secured
  \* The administrator's exchange ends, in the row or not.
  <2>10. ASSUME Reauthorize \/ AdminPersist PROVE IInv'
    <3> DEFINE g == admin.got
    <3>1. /\ UNCHANGED <<kind, now, issued, live, mem, known, lock, call, flight, reload, left>>
          /\ admin.phase \in {"page", "write"} /\ admin' = NoExchange
          /\ \/ /\ db' = (IF db = Gone THEN Gone ELSE g)
                /\ lossy' = (lossy \/ g.token < db.token)
             \/ admin.phase = "page" /\ UNCHANGED <<db, lossy>>
      BY <2>10 DEF Reauthorize, AdminPersist, UpdateRow, manager, calls
    <3>2. g \in Creds /\ g.token \in 1..issued
      BY <2>a, <2>b, <3>1 DEF Authentic
    <3> HIDE DEF g
    <3>3. db' \in Creds /\ lossy' \in BOOLEAN
      BY <2>b, <3>1, <3>2, Constants
    <3>4. TypeOK'
      BY <2>a, <3>1, <3>3, Constants DEF TypeOK
    <3>5. Authentic'
      BY <2>a, <2>b, <3>1, <3>2, Constants DEF Authentic, Genuine
    <3>6. RowThere'
      BY <2>a, <3>1 DEF RowThere
    <3>7. \A h \in 1..issued : InHand(h) => InHand(h)' \/ (admin.phase = "write" /\ h = g.token)
      BY <3>1 DEF InHand, g
    <3>8. db.token \in Nat /\ g.token \in Nat
      BY <2>b, <3>2 DEF Creds
    <3>9. (~lossy' => db.token <= g.token) \/ UNCHANGED <<db, lossy>>
      <4>1. (~lossy' => ~(g.token < db.token)) \/ UNCHANGED <<db, lossy>>
        BY <3>1, Zenon
      <4>2. QED
        BY <3>8, <4>1
    <3>10. Carried
      <4>1. CASE db' = (IF db = Gone THEN Gone ELSE g) /\ lossy' = (lossy \/ g.token < db.token)
        <5>1. ~lossy' => ~lossy /\ ~(g.token < db.token)
          BY <4>1, Zenon
        <5>2. ~lossy' => db.token <= g.token
          BY <3>8, <5>1
        <5>3. QED
          BY <2>b, <3>1, <3>7, <3>8, <4>1, <5>1, <5>2 DEF Carried
      <4>2. CASE admin.phase = "page" /\ UNCHANGED <<db, lossy>>
        BY <2>b, <3>1, <3>7, <4>2 DEF Carried
      <4>3. QED
        BY <3>1, <4>1, <4>2
    <3>11. QED
      BY <2>b, <2>c, <3>1, <3>4, <3>5, <3>6, <3>10 DEF Secured
  <2>11. ASSUME DeleteUpstream PROVE IInv'
    <3>1. /\ UNCHANGED <<kind, now, issued, live, mem, known, lock, call, flight, admin, reload, lossy>>
          /\ db' = Gone /\ left > 0 /\ left' = left - 1
      BY <2>11 DEF DeleteUpstream, Spend, manager, calls
    <3>2. left' \in 0..Budget
      BY <2>b, <3>1
    <3>3. TypeOK'
      BY <2>a, <3>1, <3>2, Constants DEF TypeOK
    <3>4. Authentic' /\ RowThere' /\ Carried
      BY <2>a, <3>1 DEF Authentic, Genuine, RowThere, Carried
    <3>5. QED
      BY <2>b, <2>c, <3>1, <3>3, <3>4 DEF Secured
  <2>12. ASSUME RefreshRow PROVE IInv'
    <3>1. PICK a \in Answers : Accepts(db.token, a) /\ admin' = [phase |-> "write", got |-> Merge(db, a)]
      BY <2>12 DEF RefreshRow
    <3>2. /\ a \in Creds
          /\ issued' \in 1..MaxTokens /\ issued <= issued' /\ live' \subseteq 1..issued'
          /\ a.token \in 0..issued'
          /\ \A t \in 1..issued' \ live' :
               t \in 1..issued \ live \/ (a.token \in 1..issued' /\ a.token > t)
      BY <2>a, <3>1, AcceptsStep
    <3>3. /\ UNCHANGED <<kind, now, db, mem, known, lock, call, flight, reload, lossy>>
          /\ admin = NoExchange /\ db # Gone /\ left > 0 /\ left' = left - 1
      BY <2>12 DEF RefreshRow, Spend, manager, calls
    <3> DEFINE m == Merge(db, a)
               x == [phase |-> "write", got |-> m]
    <3>4. db.token \in 1..issued /\ db.token # 0
      BY <2>a, <2>b, <3>3 DEF Authentic, Genuine
    <3>5. m \in Creds /\ m.token = (IF a.token = 0 THEN db.token ELSE a.token) /\ m.token # 0
      BY <2>a, <2>b, <3>2, <3>4, MergeStep
    <3>6. x \in Exchange /\ x.phase = "write" /\ x.got = m /\ admin' = x
      BY <3>1, <3>5 DEF Exchange
    <3> HIDE DEF m, x
    <3>7. /\ issued' \in Nat /\ 0..issued \subseteq 0..issued' /\ 1..issued \subseteq 1..issued'
          /\ left' \in 0..Budget
      BY <2>b, <3>2, <3>3
    <3>8. m.token \in 1..issued'
      BY <3>2, <3>4, <3>5, <3>7
    <3>9. TypeOK'
      BY <2>a, <3>2, <3>3, <3>6, <3>7 DEF TypeOK
    <3>10. Authentic'
      BY <2>a, <3>3, <3>6, <3>7, <3>8 DEF Authentic, Genuine
    <3>11. RowThere'
      BY <2>a, <3>3 DEF RowThere
    <3>12. \A h \in 1..issued : InHand(h) => InHand(h)'
      BY <3>3, Constants DEF InHand
    <3>13. a.token # 0 => InHand(a.token)'
      BY <3>5, <3>6 DEF InHand
    <3>14. \A t \in 1..issued' \ live' : t \in 1..issued \ live \/ \E h \in 1..issued' : InHand(h)' /\ h > t
      <4>1. a.token \in 1..issued' => a.token # 0
        OBVIOUS
      <4>2. QED
        BY <3>2, <3>13, <4>1
    <3>15. Carried
      BY <2>b, <3>3, <3>12, <3>14 DEF Carried
    <3>16. QED
      BY <2>c, <3>2, <3>9, <3>10, <3>11, <3>15 DEF Secured
  <2>13. ASSUME Restart PROVE IInv'
    <3>1. /\ UNCHANGED <<kind, now, issued, live, db>> /\ left > 0 /\ left' = left - 1
          /\ lossy' = (lossy \/ admin.phase = "write"
                             \/ \E k \in Key : flight[k].phase \in {"answer", "write"})
          /\ mem' = db /\ known' \in BOOLEAN /\ lock' = "free" /\ call' \in [Caller -> Call]
          /\ flight' \in [Key -> Exchange] /\ \A k \in Key : flight'[k] = NoExchange
          /\ admin' \in {admin, NoExchange} /\ (admin' = NoExchange \/ admin.phase = "page")
          /\ reload' = NoReload
      BY <2>13, Constants DEF Restart, Spend
    <3>2. left' \in 0..Budget
      BY <2>b, <3>1
    <3>3. TypeOK'
      <4>1. admin' \in Exchange /\ mem' \in Creds /\ lossy' \in BOOLEAN
        BY <2>b, <3>1, Constants
      <4>2. QED
        BY <2>a, <3>1, <3>2, <4>1, Constants DEF TypeOK
    <3>4. Authentic'
      BY <2>a, <2>b, <3>1, Constants DEF Authentic, Genuine
    <3>5. RowThere'
      BY <3>1, Constants DEF RowThere
    <3>6. ~lossy' => ~lossy /\ \A h \in 1..issued : ~InHand(h)
      BY <3>1, Zenon DEF InHand
    <3>7. Carried
      BY <2>b, <3>1, <3>6 DEF Carried
    <3>8. QED
      BY <2>b, <2>c, <3>1, <3>3, <3>4, <3>5, <3>7 DEF Secured
  <2>14. CASE UNCHANGED vars
    <3>1. UNCHANGED <<kind, now, issued, live, db, mem, known, lock, call, flight, admin, reload, left, lossy>>
      BY <2>14 DEF vars, manager, calls
    <3>2. TypeOK'
      BY <2>a, <3>1 DEF TypeOK
    <3>3. QED
      BY <2>1, <2>a, <3>1, <3>2 DEF Authentic, Genuine, RowThere
  <2>15. QED
    BY <2>2, <2>3, <2>4, <2>5, <2>6, <2>7, <2>8, <2>9, <2>10, <2>11, <2>12, <2>13, <2>14
       DEF Next, Proceed, AdminRefresh, CodexUtilization, ClaudeCodeUtilization, Hang
<1>3. QED
  BY <1>1, <1>2, PTL DEF Spec

----------------------------------------------------------------------------
(* The properties.                                                         *)

\* Type correctness of every reachable state: the row, the memory, the callers,
\* the flights of single-flight, the admin's exchange and the reload each hold
\* what they may, whatever is lost.
THEOREM TypeCorrect == Spec => []TypeOK
<1>1. IInv => TypeOK
  BY DEF IInv
<1>2. QED
  BY <1>1, Inductive, PTL

\* refreshToken, the handlers of the admin API and Reload pass one chain of
\* refresh tokens on, each of which the provider makes worthless with the next:
\* unless a fault or a late update breaks it, its end is in the row, in memory
\* or in somebody's hand.
THEOREM NeverUnauthorized == Spec => []RefreshTokenKept
<1>1. IInv => RefreshTokenKept
  <2> SUFFICES ASSUME IInv, ~lossy, db # Gone PROVE live \cap Held # {}
    BY DEF RefreshTokenKept
  <2>a. /\ issued \in Nat /\ Authentic /\ TypeOK
        /\ \A t \in 1..issued \ live : db.token > t \/ \E h \in 1..issued : InHand(h) /\ h > t
    BY BudgetAssumption DEF IInv, TypeOK, Succeeded
  <2> DEFINE InChain(n) == n \in 1..issued /\ (n = db.token \/ InHand(n))
  <2>1. InChain(db.token)
    BY <2>a DEF Authentic, Genuine
  \* Only three tokens can be in hand, so one of them, or the row's, is the last.
  <2>2. \E n \in 1..issued : InChain(n) /\ \A m \in 1..issued : InChain(m) => m <= n
    <3> DEFINE x == IF flight["due"].phase \in {"answer", "write"} THEN flight["due"].got.token ELSE 0
               y == IF flight["force"].phase \in {"answer", "write"} THEN flight["force"].got.token ELSE 0
               z == IF admin.phase = "write" THEN admin.got.token ELSE 0
               d == db.token
    <3>1. d \in 1..issued /\ x \in 0..issued /\ y \in 0..issued /\ z \in 0..issued
      BY <2>1, <2>a DEF Authentic, Key
    <3>2. \A n \in 1..issued : InChain(n) <=> n \in {x, y, z, d}
      BY <2>a DEF InHand, Key
    <3> HIDE DEF x, y, z, d, InChain
    <3>3. \E n \in {x, y, z, d} : n \in 1..issued /\ \A m \in {x, y, z, d} : m <= n
      BY <2>a, <3>1
    <3>4. QED
      BY <3>2, <3>3
  <2>3. PICK n \in 1..issued : InChain(n) /\ \A m \in 1..issued : InChain(m) => m <= n
    BY <2>2
  <2>4. n \in live
    BY <2>1, <2>3, <2>a
  <2>5. n \in Held
    BY <2>3 DEF InHand, Held
  <2>6. QED
    BY <2>4, <2>5
<1>2. QED
  BY <1>1, Inductive, PTL

\* As long as the upstream is there, no refresh finds its credentials gone: the
\* nil pointer that would leave m.mu locked is met only after a deletion.
THEOREM LockKept == Spec => []SafeUnlessDeleted
<1>1. IInv => SafeUnlessDeleted
  BY DEF IInv, RowThere, SafeUnlessDeleted
<1>2. QED
  BY <1>1, Inductive, PTL
==============================================================================

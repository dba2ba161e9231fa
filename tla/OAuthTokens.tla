---------------------------- MODULE OAuthTokens ----------------------------
(***************************************************************************)
(* The OAuth credentials of one codex or claudecode upstream: the token    *)
(* manager of a process that hands out access tokens and refreshes them,   *)
(* the row of the database it persists them to and reloads them from every *)
(* half minute, and the administrator who stores, refreshes and removes    *)
(* them behind its back.                                                   *)
(*                                                                         *)
(* The provider replaces a refresh token when it is used, and refuses the  *)
(* old one from then on.  Whoever gets the answer holds the only copy of   *)
(* the new one until it is stored.                                         *)
(*                                                                         *)
(* A step ends where another goroutine can come in between and matter: the *)
(* sections under the manager's lock m.mu are atomic, the call of the      *)
(* provider and the statements on the database lie between them.           *)
(***************************************************************************)
EXTENDS Integers, FiniteSets

CONSTANTS
  Caller,       \* goroutines that ask for a token, one call after the other
  Life,         \* expires_in, in ticks
  Buffer,       \* tokenExpiryBuffer, codexExpiryBuffer
  MaxTime,      \* bound on the clock
  MaxTokens,    \* bound on the refresh tokens the provider issues
  Budget        \* bound on what the administrator does and on what fails

ASSUME TimeAssumption   == Life \in Nat \ {0} /\ Buffer \in 0..Life /\ MaxTime \in Nat
ASSUME BudgetAssumption == MaxTokens \in Nat \ {0} /\ Budget \in Nat

VARIABLES
  kind,         \* the upstream's provider
  now,          \* the clock
  issued,       \* refresh tokens issued so far, numbered in that order
  live,         \* those the provider would accept
  db,           \* credentials in the row of the upstream
  mem,          \* m.credentials[upstreamID]
  known,        \* m.upstreams has the upstream
  lock,         \* m.mu: "free", "read" after a leaked RLock, "stuck" for good
  call,         \* where each caller is, and the singleflight key of its call
  flight,       \* the refresh under way for each singleflight key
  admin,        \* the refresh of the handlers of the admin API
  reload,       \* the row the reload has read and not applied yet
  left,         \* what is left of Budget
  lossy         \* for the properties: a refresh token may have been lost by a fault

manager == <<mem, known, lock>>
calls   == <<call, flight>>
vars    == <<kind, now, issued, live, db, manager, calls, admin, reload, left, lossy>>

----------------------------------------------------------------------------
(* State.                                                                  *)

Key   == {"due", "force"}
Call  == [at : {"idle", "join", "wait", "reread"}, key : Key]

\* No call under way, whatever the last one has returned.
NoCall == [at |-> "idle", key |-> "due"]

\* Credentials by their refresh token and expiry.  Token 0: there are none.
Creds == [token : 0..MaxTokens, expires : 0..MaxTime + Life]
Gone  == [token |-> 0, expires |-> 0]

\* One exchange with the provider.  got: the credentials as they are known;
\* "post" with what is sent, "answer" with what came back, "write" with what
\* is about to be stored, "page" with what a page of the dashboard holds.
Exchange == [phase : {"idle", "post", "answer", "write", "page"}, got : Creds]
NoExchange == [phase |-> "idle", got |-> Gone]
NoReload == [on |-> FALSE, row |-> Gone]

Init ==
  /\ kind \in {"codex", "claudecode"}
  /\ now = 0 /\ issued = 1 /\ live = {1}
  /\ db = [token |-> 1, expires |-> Life]
  /\ mem = db /\ known = TRUE /\ lock = "free"
  /\ call = [c \in Caller |-> NoCall]
  /\ flight = [k \in Key |-> NoExchange]
  /\ admin = NoExchange /\ reload = NoReload
  /\ left = Budget
  /\ lossy = FALSE

Due(creds) == now > creds.expires - Buffer

Goto(c, label) == call' = [call EXCEPT ![c].at = label]
End(c)         == call' = [call EXCEPT ![c] = NoCall]

Spend == left > 0 /\ left' = left - 1

\* UPDATE ... WHERE id: no row is updated once it is deleted.
UpdateRow(creds) == db' = IF db = Gone THEN Gone ELSE creds

\* singleflight: the refresh ends, and so does Do for everybody who waits.
EndFlight(k, result) ==
  /\ flight' = [flight EXCEPT ![k] = NoExchange]
  /\ call' = [c \in Caller |-> IF call[c] = [at |-> "wait", key |-> k] THEN result ELSE call[c]]

----------------------------------------------------------------------------
(* The provider.                                                           *)

\* The answers to a refresh token that is accepted.  Codex may leave out the
\* refresh token, which then stays valid, or the expiry; 0 stands for either.
\* A new token replaces the one that was sent.
Accepts(sent, answer) ==
  /\ sent \in live
  /\ answer.token = 0 => kind = "codex"
  /\ answer.expires = 0 => kind = "codex"
  /\ answer.token # 0 => /\ issued < MaxTokens
                         /\ answer.token = issued + 1
  /\ issued' = IF answer.token = 0 THEN issued ELSE issued + 1
  /\ live' = IF answer.token = 0 THEN live ELSE (live \ {sent}) \cup {answer.token}

Answers == [token : {0, issued + 1}, expires : {0, 1}] \ {Gone}

\* expires_in counts from the time the answer is read.
Merge(old, answer) ==
  [token   |-> IF answer.token = 0 THEN old.token ELSE answer.token,
   expires |-> IF answer.expires = 0 THEN old.expires ELSE now + Life]

----------------------------------------------------------------------------
(* GetAccessToken and ForceRefreshAccessToken.                             *)

\* GetAccessToken: what is not due is returned from memory.
GetToken(c) ==
  /\ call[c] = NoCall /\ lock # "stuck"
  /\ mem # Gone /\ Due(mem)
  /\ Goto(c, "join")
  /\ UNCHANGED <<kind, now, issued, live, db, manager, flight, admin, reload, left, lossy>>

\* ForceRefreshAccessToken, after the upstream answered 401 or 403.
ForceToken(c) ==
  /\ call[c] = NoCall
  /\ call' = [call EXCEPT ![c] = [at |-> "join", key |-> "force"]]
  /\ UNCHANGED <<kind, now, issued, live, db, manager, flight, admin, reload, left, lossy>>

\* singleflight.Do: a refresh of this key is under way.
Join(c) ==
  /\ call[c].at = "join" /\ flight[call[c].key] # NoExchange
  /\ Goto(c, "wait")
  /\ UNCHANGED <<kind, now, issued, live, db, manager, flight, admin, reload, left, lossy>>

\* singleflight.Do: none is, and refreshToken begins with the credentials as
\* they are now.
Lead(c) ==
  /\ call[c].at = "join" /\ flight[call[c].key] = NoExchange /\ lock # "stuck"
  /\ IF mem = Gone \/ ~known
     THEN End(c) /\ UNCHANGED flight
     ELSE /\ flight' = [flight EXCEPT ![call[c].key] =
                          [phase |-> "post", got |-> [Gone EXCEPT !.token = mem.token]]]
          /\ Goto(c, "wait")
  /\ UNCHANGED <<kind, now, issued, live, db, manager, admin, reload, left, lossy>>

\* The provider's answer arrives.
Answered(k) ==
  /\ flight[k].phase = "post"
  /\ \E a \in Answers : /\ Accepts(flight[k].got.token, a)
                        /\ flight' = [flight EXCEPT ![k] = [phase |-> "answer", got |-> a]]
  /\ UNCHANGED <<kind, now, db, manager, call, admin, reload, left, lossy>>

\* Fault: a refresh that fails drops the credentials.
RefusedForgets(k) ==
  /\ flight[k].phase = "post"
  /\ EndFlight(k, NoCall)
  /\ mem' = Gone
  /\ UNCHANGED <<kind, now, issued, live, db, known, lock, admin, reload, left, lossy>>

\* Fault: a refresh that fails is tried again until it succeeds.
RefusedRetries(k) ==
  /\ flight[k].phase = "post"
  /\ EndFlight(k, [at |-> "join", key |-> k])
  /\ UNCHANGED <<kind, now, issued, live, db, manager, admin, reload, left, lossy>>

\* The provider refuses, or cannot be reached: GetAccessToken falls back on the
\* token it has read before, ForceRefreshAccessToken returns the error.
Refused(k) ==
  /\ flight[k].phase = "post"
  /\ EndFlight(k, NoCall)
  /\ UNCHANGED <<kind, now, issued, live, db, manager, admin, reload, left, lossy>>

\* The provider accepts, and its answer does not arrive.
AnswerLost(k) ==
  /\ flight[k].phase = "post" /\ Spend /\ lossy' = TRUE
  /\ \E a \in Answers : Accepts(flight[k].got.token, a)
  /\ EndFlight(k, NoCall)
  /\ UNCHANGED <<kind, now, db, manager, admin, reload>>

\* refreshToken enters the answer in memory.  The claudecode manager stores the
\* credentials whether or not there are any; the codex one merges the answer
\* into them.
Apply(k) ==
  /\ flight[k].phase = "answer" /\ lock = "free"
  /\ kind = "codex" => mem # Gone
  /\ mem' = Merge(mem, flight[k].got)
  /\ flight' = [flight EXCEPT ![k] = [phase |-> "write", got |-> mem']]
  /\ UNCHANGED <<kind, now, issued, live, db, known, lock, call, admin, reload, left, lossy>>

\* The codex manager, with a nil pointer in place of the credentials: it
\* panics with m.mu locked, and singleflight hands the panic to everybody.
ApplyPanics(k) ==
  /\ flight[k].phase = "answer" /\ lock = "free"
  /\ kind = "codex" /\ mem = Gone
  /\ lock' = "stuck"
  /\ EndFlight(k, NoCall)
  /\ UNCHANGED <<kind, now, issued, live, db, mem, known, admin, reload, left, lossy>>

\* A writer waits for a reader that never unlocks, and all others wait for it.
Blocked ==
  /\ lock = "read"
  /\ reload.on \/ \E k \in Key : flight[k].phase = "answer"
  /\ lock' = "stuck"
  /\ UNCHANGED <<kind, now, issued, live, db, mem, known, calls, admin, reload, left, lossy>>

\* Fault: what is in memory by now is stored.
PersistMemory(k) ==
  /\ flight[k].phase = "write"
  /\ UpdateRow(mem)
  /\ EndFlight(k, [at |-> "reread", key |-> k])
  /\ lossy' = (lossy \/ mem.token < db.token)
  /\ UNCHANGED <<kind, now, issued, live, manager, admin, reload, left>>

\* ... and in the row, where it may overwrite what was stored meanwhile.
Persist(k) ==
  /\ flight[k].phase = "write"
  /\ UpdateRow(flight[k].got)
  /\ EndFlight(k, [at |-> "reread", key |-> k])
  /\ lossy' = (lossy \/ flight[k].got.token < db.token)
  /\ UNCHANGED <<kind, now, issued, live, manager, admin, reload, left>>

\* An update that fails is logged, and the refresh has succeeded all the same.
PersistFails(k) ==
  /\ flight[k].phase = "write" /\ Spend /\ lossy' = TRUE
  /\ EndFlight(k, [at |-> "reread", key |-> k])
  /\ UNCHANGED <<kind, now, issued, live, db, manager, admin, reload>>

\* After the refresh the token is read again.  Only the forced call asks
\* whether it is still there; the other panics with m.mu locked for reading.
Reread(c) ==
  /\ call[c].at = "reread" /\ lock # "stuck"
  /\ IF mem = Gone /\ call[c].key = "due"
     THEN End(c) /\ lock' = "read"
     ELSE End(c) /\ UNCHANGED lock
  /\ UNCHANGED <<kind, now, issued, live, db, mem, known, flight, admin, reload, left, lossy>>

----------------------------------------------------------------------------
(* Reload, every half minute.                                              *)

\* ListUpstreams.
ReloadRead ==
  /\ ~reload.on
  /\ reload' = [on |-> TRUE, row |-> db]
  /\ UNCHANGED <<kind, now, issued, live, db, manager, calls, admin, left, lossy>>

\* Fault: memory wins a tie.
NewerOrEqual(old, row) ==
  IF row # Gone /\ old # Gone /\ old.expires >= row.expires THEN old ELSE row

\* The credentials a reload goes on with.
Newer(old, row) ==
  IF row # Gone /\ old # Gone /\ old.expires > row.expires THEN old ELSE row

\* Router.Reload, after other queries.
ReloadApply ==
  /\ reload.on /\ lock = "free"
  /\ mem' = Newer(mem, reload.row)
  /\ known' = (reload.row # Gone)
  /\ reload' = NoReload
  /\ UNCHANGED <<kind, now, issued, live, db, lock, calls, admin, left, lossy>>

----------------------------------------------------------------------------
(* The administrator.                                                      *)

\* The tokens of another authorization.
Granted == [token |-> issued + 1, expires |-> now + Life]

\* The authorization code is exchanged for them, and the dashboard has them ...
ExchangeCode ==
  /\ admin = NoExchange /\ db # Gone /\ issued < MaxTokens /\ Spend
  /\ issued' = issued + 1
  /\ live' = live \cup {issued'}
  /\ admin' = [phase |-> "page", got |-> Granted]
  /\ UNCHANGED <<kind, now, db, manager, calls, reload, lossy>>

\* ... until the administrator saves them as the upstream's api_key, or does not.
Reauthorize ==
  /\ admin.phase = "page"
  /\ \/ UpdateRow(admin.got) /\ lossy' = (lossy \/ admin.got.token < db.token)
     \/ UNCHANGED <<db, lossy>>
  /\ admin' = NoExchange
  /\ UNCHANGED <<kind, now, issued, live, manager, calls, reload, left>>

\* A handler refreshes what is in the row, up to the provider's answer; what
\* happens between the query and the call either leaves the token valid or makes
\* the provider refuse it.
RefreshRow ==
  /\ admin = NoExchange /\ db # Gone /\ Spend
  /\ \E a \in Answers : /\ Accepts(db.token, a)
                        /\ admin' = [phase |-> "write", got |-> Merge(db, a)]
  /\ UNCHANGED <<kind, now, db, manager, calls, reload, lossy>>

\* On demand, or before the utilization is asked for if it is due.
AdminRefresh          == RefreshRow
CodexUtilization      == kind = "codex" /\ Due(db) /\ RefreshRow
ClaudeCodeUtilization == kind = "claudecode" /\ Due(db) /\ RefreshRow

AdminPersist ==
  /\ admin.phase = "write"
  /\ UpdateRow(admin.got)
  /\ admin' = NoExchange
  /\ lossy' = (lossy \/ admin.got.token < db.token)
  /\ UNCHANGED <<kind, now, issued, live, manager, calls, reload, left>>

DeleteUpstream ==
  /\ db # Gone /\ Spend
  /\ db' = Gone
  /\ UNCHANGED <<kind, now, issued, live, manager, calls, admin, reload, lossy>>

----------------------------------------------------------------------------
(* Time and restarts.                                                      *)

Tick ==
  /\ now < MaxTime
  /\ now' = now + 1
  /\ UNCHANGED <<kind, issued, live, db, manager, calls, admin, reload, left, lossy>>

\* The process is started again: credentials come from the row.
Restart ==
  /\ Spend
  /\ lossy' = (lossy \/ admin.phase = "write"
                     \/ \E k \in Key : flight[k].phase \in {"answer", "write"})
  /\ mem' = db /\ known' = (db # Gone) /\ lock' = "free"
  /\ call' = [c \in Caller |-> NoCall]
  /\ flight' = [k \in Key |-> NoExchange]
  /\ admin' = IF admin.phase = "page" THEN admin ELSE NoExchange
  /\ reload' = NoReload
  /\ UNCHANGED <<kind, now, issued, live, db>>

\* The lock is lost: nothing but a restart helps, and nobody restarts.
Hang == lock = "stuck" /\ UNCHANGED vars

Proceed(c) == Join(c) \/ Lead(c) \/ Reread(c)
Refresh(k) ==
  \/ Answered(k) \/ Refused(k) \/ AnswerLost(k)
  \/ Apply(k) \/ ApplyPanics(k) \/ Persist(k) \/ PersistFails(k)

Next ==
  \/ \E c \in Caller : GetToken(c) \/ ForceToken(c) \/ Proceed(c)
  \/ \E k \in Key : Refresh(k)
  \/ Blocked
  \/ ReloadRead \/ ReloadApply
  \/ ExchangeCode \/ Reauthorize \/ DeleteUpstream
  \/ AdminRefresh \/ CodexUtilization \/ ClaudeCodeUtilization \/ AdminPersist
  \/ Tick \/ Restart \/ Hang

\* Goroutines run on, the provider is given 15 seconds, and the ticker reloads.
Fairness ==
  /\ \A c \in Caller : WF_vars(Proceed(c))
  /\ \A k \in Key : WF_vars(Refresh(k))
  /\ WF_vars(ReloadRead \/ ReloadApply)

Spec     == Init /\ [][Next]_vars
FairSpec == Spec /\ Fairness

----------------------------------------------------------------------------
(* Properties.                                                             *)

\* The types of the variables.
TypeOK ==
  /\ kind \in {"codex", "claudecode"} /\ now \in 0..MaxTime
  /\ issued \in 1..MaxTokens /\ live \subseteq 1..issued
  /\ db \in Creds /\ mem \in Creds /\ known \in BOOLEAN
  /\ lock \in {"free", "read", "stuck"}
  /\ call \in [Caller -> Call]
  /\ flight \in [Key -> Exchange] /\ admin \in Exchange
  /\ reload \in [on : BOOLEAN, row : Creds]
  /\ left \in 0..Budget /\ lossy \in BOOLEAN

\* As long as no answer, update or process is lost and no late update
\* overwrites a later one, the upstream stays authorized: a refresh token the
\* provider accepts is in memory, in the row or in the hands of somebody who is
\* about to store it there.
Held == {mem.token, db.token, admin.got.token} \cup {flight[k].got.token : k \in Key}

RefreshTokenKept == lossy \/ db = Gone \/ live \cap Held # {}

\* An upstream that is not deleted does not cost the manager its lock, no call
\* panics, and GetAccessToken does not fail.
SafeUnlessDeleted ==
  db # Gone => lock = "free" /\ mem # Gone

\* Calls for an upstream that is not deleted come to an end.
CallsEndUnlessDeleted ==
  \A c \in Caller : []<>(call[c] = NoCall \/ db = Gone)

\* Credentials that work get from the row to memory, although Reload prefers
\* those that expire later.
MemoryCatchesUp ==
  kind = "claudecode" /\ db.token \in live ~> mem.token \in live \/ db.token \notin live

----------------------------------------------------------------------------
(* Why the invariants hold: the inductive invariant.                       *)

\* Credentials that are there have a refresh token that was issued.
Genuine(creds) == creds # Gone => creds.token \in 1..issued

\* What travels between the provider, the memory and the row is genuine; an
\* answer may leave one of its fields out.
Authentic ==
  /\ Genuine(db) /\ Genuine(mem) /\ Genuine(reload.row)
  /\ \A k \in Key :
       /\ flight[k].phase \in {"idle", "post", "answer", "write"}
       /\ flight[k].got.token \in 0..issued
       /\ flight[k].phase = "answer" =>
            /\ flight[k].got # Gone
            /\ kind = "claudecode" => flight[k].got.token # 0
       /\ flight[k].phase = "write" => flight[k].got.token # 0
  /\ admin.phase \in {"idle", "write", "page"}
  /\ admin.phase # "idle" => admin.got.token \in 1..issued

\* The row that a reload has read is the row, or one that has been there.
RowThere == db # Gone => mem # Gone /\ lock = "free" /\ (reload.on => reload.row # Gone)

\* A refresh token that is about to be stored.
InHand(h) == \/ \E k \in Key : flight[k].phase \in {"answer", "write"} /\ flight[k].got.token = h
             \/ admin.phase = "write" /\ admin.got.token = h

\* Whoever uses a refresh token up has a later one in hand, or has stored one.
Succeeded ==
  lossy \/ db = Gone
    \/ \A t \in 1..issued \ live : db.token > t \/ \E h \in 1..issued : InHand(h) /\ h > t

IInv == TypeOK /\ Authentic /\ RowThere /\ Succeeded
=============================================================================

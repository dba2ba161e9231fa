-------------------------- MODULE RequestExecution --------------------------
(***************************************************************************)
(* Executor.Execute: the requests of one session and model on their way    *)
(* through one upstream group - selection with session affinity, attempts, *)
(* retries and replays, the response, and the row that records it.         *)
(*                                                                         *)
(* A request is one handler goroutine.  A step ends where another request  *)
(* can come in between and matter: before and after the upstream is        *)
(* called, between the operations on the binding, while a token is         *)
(* refreshed, while the response is written, and before the goroutine that *)
(* completes the row has run.  The database answers; an insert may fail.   *)
(*                                                                         *)
(* The upstream's answer is one of the classes the code tells apart:       *)
(*   ok         2xx                  throttled   429                       *)
(*   failed     5xx                  lost        no response at all        *)
(*   auth       401, 403             foreign     400 whose encrypted       *)
(*   rejected   any other answer                 content can be stripped   *)
(*   saturated  Codex says the model is at capacity, with an error status  *)
(*   saturated_ok   the same in the body of a 2xx                          *)
(* Responses over WebSocket are not modelled.                              *)
(***************************************************************************)
EXTENDS Router

CONSTANTS
  Request,      \* requests of the session
  Codex,        \* upstreams of the codex provider
  ClaudeCode,   \* upstreams of the claudecode provider
  Responses,    \* upstreams whose streams are in the Responses format
  MaxRetries,   \* RetryPolicy.MaxRetries; 0 without a policy
  RetryOn,      \* RetryPolicy.RetryOn; empty without a policy
  ReloadBudget  \* bound on reloads of the configuration

ASSUME ProviderAssumption == /\ Responses \cup ClaudeCode \subseteq Upstream
                             /\ Codex \subseteq Responses
                             /\ Responses \cap ClaudeCode = {}
ASSUME PolicyAssumption   == /\ MaxRetries \in Nat
                             /\ RetryOn \subseteq {"throttled", "failed", "lost"}
                             /\ ReloadBudget \in Nat

VARIABLES
  pc,           \* where each request is
  loc,          \* the handler's local variables
  row,          \* the row of each request in the requests table
  pending,      \* what a goroutine is about to write to the row
  reloads,      \* what is left of ReloadBudget
  history,      \* for the properties: how the request went from one upstream to another
  calm          \* for the properties: what has happened to the affinity of the session

vars == <<serving, binding, conns, cleaning, pc, loc, row, pending, reloads, history, calm>>

----------------------------------------------------------------------------
(* State.                                                                  *)

Label  == {"idle", "pin", "refresh_binding", "claim", "overwrite", "attempt", "call",
           "refresh_token", "reply", "done", "unfinished"}
Status == {"processing", "success", "error", "rate_limited"}
RetryStatus == {"normal", "non_retryable_error", "retryable_error", "retry_exhausted"}

Row   == [status : Status, retry : RetryStatus, upstream : Upstream \cup {NoUpstream}]
NoRow == [status |-> "none", retry |-> "normal", upstream |-> NoUpstream]

\* The handler has returned.
Ended == {"done", "unfinished"}

NoLocals == [group      |-> {},          \* members as Match found them
             candidates |-> {},          \* the available ones
             primary    |-> NoUpstream,  \* the balancer's pick, or the binding's
             list       |-> <<>>,        \* candidates in the order they are tried
             attempt    |-> 0,           \* how many of them have been tried
             replay     |-> 0,           \* 1 after a token refresh, 2 after stripping the body
             recovered  |-> {},          \* recoveries this request has used up
             retry      |-> "",          \* RequestContext.RetryStatus
             saturated  |-> FALSE]       \* RequestContext.CodexCapacityError

NoHistory == [retries |-> 0, failover |-> FALSE, retryable |-> FALSE]

Init ==
  /\ RouterInit
  /\ pc = [r \in Request |-> "idle"]
  /\ loc = [r \in Request |-> NoLocals]
  /\ row = [r \in Request |-> NoRow]
  /\ pending = [r \in Request |-> NoRow]
  /\ reloads = ReloadBudget
  /\ history = [r \in Request |-> NoHistory]
  /\ calm = IF binding = Unbound THEN "cold" ELSE "stale"

Current(r) == loc[r].list[loc[r].attempt]
Tried(r)   == {loc[r].list[i] : i \in 1..loc[r].attempt}
Provider(u) == IF u \in Codex THEN "codex" ELSE IF u \in ClaudeCode THEN "claudecode" ELSE "other"

Goto(r, label) == pc' = [pc EXCEPT ![r] = label]
Set(r, locals) == loc' = [loc EXCEPT ![r] = locals]

\* The handler returns; its primary is kept for the properties.
Return(r) == Goto(r, "done") /\ Set(r, [NoLocals EXCEPT !.primary = loc[r].primary])

Disturb(event) == calm' = IF event THEN "disturbed" ELSE calm

\* applyRetryFields.
RecordedRetry(status, retry) ==
  IF retry # "" THEN retry ELSE IF status = "success" THEN "normal" ELSE "non_retryable_error"

Complete(r, status, retry, u) ==
  pending' = [pending EXCEPT ![r] = [status |-> status, retry |-> RecordedRetry(status, retry),
                                     upstream |-> u]]

\* finalizeEarlyError: nothing to update if the insert failed.
CompleteEarly(r, retry) ==
  IF row[r].status = "none" THEN UNCHANGED pending ELSE Complete(r, "error", retry, row[r].upstream)

----------------------------------------------------------------------------
(* Arrival and selection.                                                  *)

\* The handler inserts the row, Match finds the group, and SelectWithRetry
\* filters its members.  logged: the insert succeeded.
Arrive(r, logged) ==
  /\ pc[r] = "idle"
  /\ row' = IF logged THEN [row EXCEPT ![r] = [NoRow EXCEPT !.status = "processing"]] ELSE row
  /\ Set(r, [NoLocals EXCEPT !.group = serving, !.candidates = Available(serving)])
  /\ Goto(r, "pin")
  /\ Disturb(Available(serving) # Upstream \ Backup)
  /\ UNCHANGED <<serving, binding, conns, cleaning, pending, reloads, history>>

\* No candidate is available, or no route matched.
NotRouted(r) ==
  /\ pc[r] = "pin"
  /\ CompleteEarly(r, "")
  /\ Return(r)
  /\ UNCHANGED <<serving, binding, conns, cleaning, row, reloads, history, calm>>

\* The fast path: a usable binding is followed, and stored again later.
FollowBinding(r) ==
  /\ pc[r] = "pin"
  /\ Usable(loc[r].candidates)
  /\ Set(r, [loc[r] EXCEPT !.primary = binding.to])
  /\ Goto(r, "refresh_binding")
  /\ UNCHANGED <<serving, binding, conns, cleaning, row, pending, reloads, history, calm>>

\* No usable binding: the balancer picks.
PickPrimary(r, u) ==
  /\ pc[r] = "pin"
  /\ ~Usable(loc[r].candidates)
  /\ u \in loc[r].candidates
  /\ Set(r, [loc[r] EXCEPT !.primary = u])
  /\ Goto(r, "claim")
  /\ UNCHANGED <<serving, binding, conns, cleaning, row, pending, reloads, history, calm>>

\* The list to try: the primary, then what the balancer ranks for the retries.
StartWith(r, u, ranking) ==
  /\ Set(r, [loc[r] EXCEPT !.primary = u, !.list = <<u>> \o ranking, !.candidates = {}])
  /\ Goto(r, "attempt")

RefreshBinding(r) ==
  /\ pc[r] = "refresh_binding"
  /\ Bind(loc[r].primary)
  /\ \E q \in Rankings(loc[r].candidates \ {loc[r].primary}, MaxRetries) :
       StartWith(r, loc[r].primary, q)
  /\ UNCHANGED <<serving, conns, cleaning, row, pending, reloads, history, calm>>

\* Fault: Store in place of LoadOrStore.
ClaimBindingBlind(r) ==
  /\ pc[r] = "claim"
  /\ Bind(loc[r].primary)
  /\ \E q \in Rankings(loc[r].candidates \ {loc[r].primary}, MaxRetries) :
       StartWith(r, loc[r].primary, q)
  /\ UNCHANGED <<serving, conns, cleaning, row, pending, reloads, history, calm>>

\* LoadOrStore installed the pick, or returned a binding that is usable.
ClaimBinding(r) ==
  /\ pc[r] = "claim"
  /\ binding = Unbound \/ Usable(loc[r].candidates)
  /\ BindIfUnbound(loc[r].primary)
  /\ LET u == IF binding = Unbound THEN loc[r].primary ELSE binding.to
     IN  \E q \in Rankings(loc[r].candidates \ {u}, MaxRetries) : StartWith(r, u, q)
  /\ UNCHANGED <<serving, conns, cleaning, row, pending, reloads, history, calm>>

\* LoadOrStore returned a binding that is stale or leads elsewhere.
FindUnusable(r) ==
  /\ pc[r] = "claim"
  /\ binding # Unbound /\ ~Usable(loc[r].candidates)
  /\ Goto(r, "overwrite")
  /\ UNCHANGED <<serving, binding, conns, cleaning, loc, row, pending, reloads, history, calm>>

OverwriteBinding(r) ==
  /\ pc[r] = "overwrite"
  /\ Bind(loc[r].primary)
  /\ \E q \in Rankings(loc[r].candidates \ {loc[r].primary}, MaxRetries) :
       StartWith(r, loc[r].primary, q)
  /\ UNCHANGED <<serving, conns, cleaning, row, pending, reloads, history, calm>>

\* The body cannot be read or is too large.
BodyRejected(r) ==
  /\ pc[r] = "attempt"
  /\ loc[r].attempt = 0
  /\ CompleteEarly(r, "")
  /\ Return(r)
  /\ UNCHANGED <<serving, binding, conns, cleaning, row, reloads, history, calm>>

----------------------------------------------------------------------------
(* Attempts.                                                               *)

\* The loop takes the next upstream of the list; UpdateRequestUpstream notes
\* it while the row is processing.
TakeNext(r) ==
  /\ pc[r] = "attempt"
  /\ loc[r].attempt < Len(loc[r].list)
  /\ Set(r, [loc[r] EXCEPT !.attempt = @ + 1, !.replay = 0])
  /\ row' = IF row[r].status = "processing"
            THEN [row EXCEPT ![r] = [@ EXCEPT !.upstream = loc[r].list[loc[r].attempt + 1]]]
            ELSE row

\* The body cannot be transformed, or the upstream's client not be built.
Skip(r) ==
  /\ TakeNext(r)
  /\ UNCHANGED <<serving, binding, conns, cleaning, pc, pending, reloads, history, calm>>

Call(r) ==
  /\ TakeNext(r)
  /\ Acquire(loc[r].list[loc[r].attempt + 1])
  /\ Goto(r, "call")
  /\ UNCHANGED <<serving, binding, cleaning, pending, reloads, history, calm>>

\* The list is used up.
AllFailed(r) ==
  /\ pc[r] = "attempt"
  /\ loc[r].attempt = Len(loc[r].list)
  /\ CompleteEarly(r, IF loc[r].retry = "retryable_error" THEN "retry_exhausted" ELSE loc[r].retry)
  /\ Return(r)
  /\ UNCHANGED <<serving, binding, conns, cleaning, row, reloads, history, calm>>

\* Fault: the upstreams already listed are offered again.
FallbacksAgain(r) == Available(loc[r].group \ Tried(r))

\* SelectCapacityFallbacks, less what is on the list already.
Fallbacks(r) == Available(loc[r].group \ Tried(r)) \ ToSet(loc[r].list)

\* A Codex upstream is at capacity and somebody else can be tried, whatever
\* the retry policy says: its binding goes, the fallbacks join the list.
FailOver(r) ==
  /\ pc[r] = "call"
  /\ Current(r) \in Codex
  /\ Fallbacks(r) # {} \/ loc[r].attempt < Len(loc[r].list)
  /\ \E q \in SetToSeqs(Fallbacks(r)) :
       Set(r, [loc[r] EXCEPT !.list = @ \o q, !.retry = "retryable_error"])
  /\ Unbind(Current(r))
  /\ Release(Current(r))
  /\ Goto(r, "attempt")
  /\ history' = [history EXCEPT ![r] = [@ EXCEPT !.failover = TRUE, !.retryable = TRUE]]
  /\ Disturb(TRUE)
  /\ UNCHANGED <<serving, cleaning, row, pending, reloads>>

\* At capacity and nobody left: the error itself is the answer.
Saturated(r, a) ==
  /\ pc[r] = "call"
  /\ Current(r) \in Codex
  /\ Fallbacks(r) = {} /\ loc[r].attempt = Len(loc[r].list)
  /\ Unbind(Current(r))
  /\ IF a = "saturated"
       THEN /\ Release(Current(r))
            /\ Complete(r, "error", "retry_exhausted", Current(r))
            /\ Return(r)
       ELSE /\ Goto(r, "reply")
            /\ Set(r, [loc[r] EXCEPT !.retry = "retry_exhausted", !.saturated = TRUE])
            /\ UNCHANGED <<conns, pending>>
  /\ history' = [history EXCEPT ![r] = [@ EXCEPT !.retryable = TRUE]]
  /\ Disturb(TRUE)
  /\ UNCHANGED <<serving, cleaning, row, reloads>>

\* evaluateResponse, which only sees the first answer of an attempt.
Retryable(r, a) == loc[r].replay = 0 /\ a \in RetryOn

\* Fault: the history of the request is forgotten with each attempt.
RetryByPolicyForgets(r, a) ==
  /\ pc[r] = "call"
  /\ Retryable(r, a)
  /\ Set(r, [loc[r] EXCEPT !.retry = IF loc[r].attempt < Len(loc[r].list) THEN "" ELSE "retry_exhausted"])
  /\ Release(Current(r))
  /\ Goto(r, "attempt")
  /\ history' = [history EXCEPT ![r] =
                   [@ EXCEPT !.retries = IF loc[r].attempt < Len(loc[r].list) THEN @ + 1 ELSE @,
                             !.retryable = TRUE]]
  /\ UNCHANGED <<serving, binding, cleaning, row, pending, reloads, calm>>

\* The retry policy lists the answer: on to the next upstream, if any.
RetryByPolicy(r, a) ==
  LET more == loc[r].attempt < Len(loc[r].list)
  IN  /\ pc[r] = "call"
      /\ Retryable(r, a)
      /\ Set(r, [loc[r] EXCEPT !.retry = IF more THEN "retryable_error" ELSE "retry_exhausted"])
      /\ Release(Current(r))
      /\ Goto(r, "attempt")
      /\ history' = [history EXCEPT ![r] = [history[r] EXCEPT !.retries = IF more THEN @ + 1 ELSE @,
                                                              !.retryable = TRUE]]
      /\ UNCHANGED <<serving, binding, cleaning, row, pending, reloads, calm>>

----------------------------------------------------------------------------
(* Replays on the same upstream.                                           *)

\* Fault: nothing remembers that the token was refreshed already.
TokenRecoverableAlways(r, a) == a = "auth" /\ Provider(Current(r)) # "other"

\* Once per request and provider, and only on the first answer.
TokenRecoverable(r, a) ==
  /\ a = "auth"
  /\ loc[r].replay = 0
  /\ Provider(Current(r)) \in {"codex", "claudecode"} \ loc[r].recovered

\* Once per request.
ContentRecoverable(r, a) == a = "foreign" /\ "content" \notin loc[r].recovered

\* The connection is given back while the token is refreshed.
AuthRefused(r, a) ==
  /\ pc[r] = "call"
  /\ TokenRecoverable(r, a)
  /\ Set(r, [loc[r] EXCEPT !.recovered = @ \cup {Provider(Current(r))}])
  /\ Release(Current(r))
  /\ Goto(r, "refresh_token")
  /\ UNCHANGED <<serving, binding, cleaning, row, pending, reloads, history, calm>>

TokenRefreshed(r) ==
  /\ pc[r] = "refresh_token"
  /\ Set(r, [loc[r] EXCEPT !.replay = 1])
  /\ Acquire(Current(r))
  /\ Goto(r, "call")
  /\ UNCHANGED <<serving, binding, cleaning, row, pending, reloads, history, calm>>

RefreshFailed(r) ==
  /\ pc[r] = "refresh_token"
  /\ CompleteEarly(r, loc[r].retry)
  /\ Return(r)
  /\ UNCHANGED <<serving, binding, conns, cleaning, row, reloads, history, calm>>

\* The encrypted content is stripped; the connection is given back and taken
\* again at once.
ContentRefused(r, a) ==
  /\ pc[r] = "call"
  /\ ContentRecoverable(r, a)
  /\ Set(r, [loc[r] EXCEPT !.replay = 2, !.recovered = @ \cup {"content"}])
  /\ UNCHANGED <<serving, binding, conns, cleaning, pc, row, pending, reloads, history, calm>>

----------------------------------------------------------------------------
(* The response.                                                           *)

\* BindSession: any answer below 500 binds the session.
BindTo(r) == Bind(Current(r)) /\ Disturb(binding.to # Current(r))

\* An error answer is final: the connection is given back before the response
\* is written.
Refuse(r, a) ==
  /\ pc[r] = "call"
  /\ a \in {"rejected", "auth", "foreign", "throttled", "failed"}
  /\ ~Retryable(r, a) /\ ~TokenRecoverable(r, a) /\ ~ContentRecoverable(r, a)
  /\ IF a = "failed" THEN UNCHANGED <<binding, calm>> ELSE BindTo(r)
  /\ Release(Current(r))
  /\ Complete(r, IF a = "throttled" THEN "rate_limited" ELSE "error", loc[r].retry, Current(r))
  /\ Return(r)
  /\ UNCHANGED <<serving, cleaning, row, reloads, history>>

\* Fault: the connection of an attempt without a response is not given back.
NoResponseLeak(r, a) ==
  /\ pc[r] = "call"
  /\ a = "lost" /\ ~Retryable(r, a)
  /\ CompleteEarly(r, loc[r].retry)
  /\ Return(r)
  /\ UNCHANGED <<serving, binding, conns, cleaning, row, reloads, history, calm>>

NoResponse(r, a) ==
  /\ pc[r] = "call"
  /\ a = "lost" /\ ~Retryable(r, a)
  /\ Release(Current(r))
  /\ CompleteEarly(r, loc[r].retry)
  /\ Return(r)
  /\ UNCHANGED <<serving, binding, cleaning, row, reloads, history, calm>>

\* A body is on its way: the connection is held until it has ended.
Accept(r, a) ==
  /\ pc[r] = "call"
  /\ a = "ok"
  /\ BindTo(r)
  /\ Goto(r, "reply")
  /\ UNCHANGED <<serving, conns, cleaning, loc, row, pending, reloads, history>>

\* The body has ended.
ReplyEnds(r) ==
  /\ pc[r] = "reply"
  /\ Release(Current(r))
  /\ Complete(r, IF loc[r].saturated THEN "error" ELSE "success", loc[r].retry, Current(r))
  /\ Return(r)
  /\ UNCHANGED <<serving, binding, cleaning, row, reloads, history, calm>>

\* A stream breaks off on either side - one in the Responses format after its
\* usage has been seen - or a body cannot be read.
ReplyBroken(r) ==
  /\ pc[r] = "reply"
  /\ Release(Current(r))
  /\ Complete(r, "error", loc[r].retry, Current(r)) \/ CompleteEarly(r, loc[r].retry)
  /\ Return(r)
  /\ UNCHANGED <<serving, binding, cleaning, row, reloads, history, calm>>

\* A Responses stream ends, on either side, before its usage has been seen: the
\* interceptor calls nobody, the handler returns, and nothing is given back.
ReplyUnfinished(r) ==
  /\ pc[r] = "reply"
  /\ Current(r) \in Responses
  /\ Goto(r, "unfinished")
  /\ UNCHANGED <<serving, binding, conns, cleaning, loc, row, pending, reloads, history, calm>>

\* A Codex stream reports saturation after its response was committed.
ReplySaturated(r) ==
  /\ pc[r] = "reply"
  /\ Current(r) \in Codex
  /\ Unbind(Current(r))
  /\ Release(Current(r))
  /\ Complete(r, "error", "retry_exhausted", Current(r))
  /\ Return(r)
  /\ history' = [history EXCEPT ![r] = [@ EXCEPT !.retryable = TRUE]]
  /\ Disturb(TRUE)
  /\ UNCHANGED <<serving, cleaning, row, reloads>>

\* The goroutine that completes the row, or the collector that inserts it.
WriteRow(r) ==
  /\ pending[r] # NoRow
  /\ row' = [row EXCEPT ![r] = pending[r]]
  /\ pending' = [pending EXCEPT ![r] = NoRow]
  /\ UNCHANGED <<serving, binding, conns, cleaning, pc, loc, reloads, history, calm>>

----------------------------------------------------------------------------
(* In the background.                                                      *)

handlerVars == <<pc, loc, row, pending, history>>

BindingExpires == Expire /\ Disturb(TRUE) /\ UNCHANGED <<handlerVars, reloads>>
CleanupFinds   == CleanupFind /\ Disturb(TRUE) /\ UNCHANGED <<handlerVars, reloads>>
CleanupDeletes == CleanupDelete /\ Disturb(TRUE) /\ UNCHANGED <<handlerVars, reloads>>

ConfigReloads ==
  /\ reloads > 0
  /\ reloads' = reloads - 1
  /\ \E u \in Upstream : Reload(u)
  /\ Disturb(TRUE)
  /\ UNCHANGED handlerVars

\* Nothing is running: the only state in which the system may stop.
Quiescent ==
  /\ \A r \in Request : pc[r] \in {"idle"} \cup Ended /\ pending[r] = NoRow
  /\ UNCHANGED vars

Answer == {"ok", "rejected", "auth", "foreign", "throttled", "failed", "lost"}

\* What a request does once it has arrived; the upstream answers, or a
\* timeout takes the place of its answer.
Continue(r) ==
  \/ NotRouted(r) \/ FollowBinding(r) \/ \E u \in Upstream : PickPrimary(r, u)
  \/ RefreshBinding(r) \/ ClaimBinding(r) \/ FindUnusable(r) \/ OverwriteBinding(r)
  \/ BodyRejected(r) \/ Skip(r) \/ Call(r) \/ AllFailed(r)
  \/ FailOver(r) \/ \E a \in {"saturated", "saturated_ok"} : Saturated(r, a)
  \/ \E a \in Answer :
       \/ RetryByPolicy(r, a) \/ AuthRefused(r, a) \/ ContentRefused(r, a)
       \/ Refuse(r, a) \/ NoResponse(r, a) \/ Accept(r, a)
  \/ TokenRefreshed(r) \/ RefreshFailed(r)
  \/ ReplyEnds(r) \/ ReplyBroken(r) \/ ReplyUnfinished(r) \/ ReplySaturated(r)

Next ==
  \/ \E r \in Request : (\E logged \in BOOLEAN : Arrive(r, logged)) \/ Continue(r) \/ WriteRow(r)
  \/ BindingExpires \/ CleanupFinds \/ CleanupDeletes \/ ConfigReloads
  \/ Quiescent

\* A handler runs on and its completion goroutine with it.  A call ends by its
\* answer, by its deadline or, when it streams and the upstream sets none, at the
\* latest when the client gives up; a body ends, or the idle watchdog cuts it.
Fairness == \A r \in Request : WF_vars(Continue(r)) /\ WF_vars(WriteRow(r))

Spec     == Init /\ [][Next]_vars
FairSpec == Spec /\ Fairness

----------------------------------------------------------------------------
(* Properties.                                                             *)

Locals == [group : SUBSET Upstream, candidates : SUBSET Upstream,
           primary : Upstream \cup {NoUpstream}, list : Seq(Upstream), attempt : Nat,
           replay : 0..2, recovered : SUBSET {"codex", "claudecode", "content"},
           retry : {"", "retryable_error", "retry_exhausted"}, saturated : BOOLEAN]

History == [retries : Nat, failover : BOOLEAN, retryable : BOOLEAN]

\* The types of the variables.
TypeOK ==
  /\ RouterTypeOK
  /\ pc \in [Request -> Label]
  /\ loc \in [Request -> Locals]
  /\ \A r \in Request : loc[r].attempt <= Len(loc[r].list)
  /\ row \in [Request -> Row \cup {NoRow}]
  /\ pending \in [Request -> Row \cup {NoRow}]
  /\ reloads \in 0..ReloadBudget
  /\ history \in [Request -> History]
  /\ calm \in {"cold", "stale", "disturbed"}

\* "Callers rely on onComplete to release resources (ConnTracker, ...)": the
\* count of an upstream, which least_conn and MaxConcurrent go by, is the number
\* of requests that are calling it or reading from it.
Holders(u) == {r \in Request : pc[r] \in {"call", "reply"} /\ Current(r) = u}

ConnectionsReturned == \A u \in Upstream : conns[u] = Cardinality(Holders(u))

\* Every other way an attempt can end gives its connection back once: the count
\* exceeds that number by the Responses streams that ended without usage.
Leaked(u) == {r \in Request : pc[r] = "unfinished" /\ Current(r) = u}

ConnectionsCounted == \A u \in Upstream : conns[u] = Cardinality(Holders(u) \cup Leaked(u))

\* A request never comes back to an upstream it has given up, however its list
\* grows under way.
TriedOnce == \A r \in Request : \A i, j \in 1..Len(loc[r].list) :
               loc[r].list[i] = loc[r].list[j] => i = j

\* The row tells the retry history of the request apart from its outcome: a
\* success after a move to another upstream from one without, and an error that
\* could have been retried from one that could not.
RetryHistoryRecorded ==
  \A r \in Request : pending[r] # NoRow =>
    IF pending[r].status = "success"
    THEN pending[r].retry = IF history[r].retries > 0 \/ history[r].failover
                            THEN "retryable_error" ELSE "normal"
    ELSE pending[r].retry = "non_retryable_error" <=> ~history[r].retryable

\* Requests of a session that start together without a binding agree on their
\* primary upstream, in every order of their steps, as long as no upstream is
\* full, drained or at capacity and nobody fails over.
Pinned == {r \in Request : loc[r].primary # NoUpstream
                            /\ pc[r] \notin {"refresh_binding", "claim", "overwrite"}}

Agreed == \A r, s \in Pinned : loc[r].primary = loc[s].primary

ColdStartConverges == calm = "cold" => Agreed

\* Every request comes to an end, although capacity errors lengthen its list
\* and replays repeat its calls; and its row leaves processing with it, whichever
\* way that is, except by a Responses stream that ended without usage.
RequestEnds ==
  \A r \in Request :
    []<>(pc[r] \in Ended \cup {"idle"} /\ (row[r].status = "processing" => pc[r] = "unfinished"))

\* Ordinary failures take a request to at most MaxRetries other upstreams.  The
\* one exception: a capacity error has lengthened its list, and an ordinary
\* failure after that goes on along it, whatever the policy says.
RetriesFollowPolicy ==
  \A r \in Request : history[r].retries > MaxRetries => history[r].failover

----------------------------------------------------------------------------
(* Why these properties hold: the inductive invariant.                     *)

Selecting == {"pin", "refresh_binding", "claim", "overwrite"}

\* The request has an upstream in hand.
Trying == {"call", "refresh_token", "reply"}

\* A request that has not been sent anywhere has no history, and no primary
\* before the binding has been looked up.
Fresh(r) ==
  /\ pc[r] \in {"idle", "pin"} => loc[r].primary = NoUpstream
  /\ pc[r] \in Selecting \ {"pin"} => loc[r].primary \in Upstream
  /\ pc[r] \in Selecting \cup {"idle"} =>
       history[r] = NoHistory /\ loc[r].retry = "" /\ loc[r].attempt = 0 /\ loc[r].list = <<>>

\* The handler's own retry status sums up its history: it is empty only while
\* nothing could have been retried, and "exhausted" only where no upstream is
\* left that could still answer with a success.
Remembered(r) ==
  LET l == loc[r]
      h == history[r]
  IN  pc[r] \notin Ended =>
        /\ l.retry = "" => h = NoHistory
        /\ l.retry # "" => h.retryable /\ l.attempt > 0
        /\ l.retry = "retryable_error" => h.retries > 0 \/ h.failover
        /\ l.retry = "retry_exhausted" =>
             \/ pc[r] = "attempt" /\ l.attempt = Len(l.list)
             \/ pc[r] = "reply" /\ l.saturated

\* Each retry has used up one attempt, and only a failover adds attempts to
\* those of the policy.
Bounded(r) ==
  LET l == loc[r]
      h == history[r]
  IN  /\ pc[r] \in Trying \cup {"unfinished"} => l.attempt > 0
      /\ pc[r] \notin Ended => h.retries <= l.attempt
      /\ pc[r] \in Trying => h.retries < l.attempt
      /\ ~h.failover => h.retries <= MaxRetries /\ Len(l.list) <= MaxRetries + 1

\* The row is completed after the handler has returned.
Written(r) == pending[r] # NoRow => pc[r] = "done"

Held(u) == Holders(u) \cup Leaked(u)

\* Nothing has disturbed the affinity of the session: every request that is
\* choosing chooses among the same upstreams, the binding once installed stays,
\* and whoever has chosen follows it.
Cold ==
  /\ binding = Unbound \/ (binding.fresh /\ binding.to \in Upstream \ Backup)
  /\ \A r \in Request :
       /\ pc[r] \in Selecting => loc[r].candidates = Upstream \ Backup
       /\ pc[r] # "overwrite"
       /\ pc[r] = "refresh_binding" => binding # Unbound /\ loc[r].primary = binding.to
       /\ pc[r] = "claim" => loc[r].primary \in Upstream \ Backup
  /\ \A r \in Pinned : binding # Unbound /\ loc[r].primary = binding.to

IInv ==
  /\ TypeOK
  /\ \A r \in Request : Fresh(r) /\ Remembered(r) /\ Bounded(r) /\ Written(r)
  /\ TriedOnce /\ RetryHistoryRecorded
  /\ ConnectionsCounted /\ \A u \in Upstream : IsFiniteSet(Held(u))
  /\ calm = "cold" => Cold
=============================================================================

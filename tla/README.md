# modelserver in TLA+

Modelserver is an API gateway for language models. It authenticates a caller,
checks rate limits and the project's money, sends the request to one of several
upstream providers, streams the answer back and bills it. Around that it sells
subscriptions and prepaid credits, signs people and their devices in, and keeps the
configuration requests are routed by. This directory models the parts in which
several handlers, jobs, timers or processes share state, checks them with TLC on
small instances, and proves with TLAPS, for every instance, all of the safety properties
that hold; liveness is model-checked.

All paths below are relative to the root of the repository; "internal/" stands
for `src/internal/`.

## 1. The modules at a glance

| module | what it is | checked by |
|---|---|---|
| `ExtraUsageWallet` | settings row, ledger, top-up orders and their webhooks, guard and settlement, statement by statement | runs `wallet`, `wallet_liveness` |
| `CreditAccount` | what the wallet promises: an account without sessions, locks or webhooks | `wallet`, as the refinement `ImplementsAccount` |
| `SubscriptionOrders` | orders, payments, delivery, expiry job and overrides of one project | `subscriptions` |
| `Router` | candidates, sticky binding, connection counts, reload | through `RequestExecution`, which extends it |
| `RequestExecution` | `Executor.Execute`: selection, attempts, retries, replays, response, request row | `execution`, `execution_liveness`, `connection_leak` |
| `StreamRelay` | one streamed answer: capacity probe, idle watchdog, interceptor, copy loop, keepalive, log tee | through `ResponsesSocket`, which extends it |
| `ResponsesSocket` | Responses over WebSocket: turns over one upstream connection, and the relay of all other formats | `streaming` |
| `Background` | request rows, usage collector, HTTP log and shutdown | through `Metering`, which extends it |
| `Metering` | the middlewares and the bookkeeping around a request: trace, limits over cached sums, quota, guard, rows, invalidation | `metering` |
| `OAuthTokens` | OAuth credentials of one codex or claudecode upstream: refreshes, reload, database row, administrator | `oauth` |
| `ProjectAccess` | membership, keys, grants and tokens of a user in a project, and the authentication that caches them | `access` |
| `SignIn` | accounts, default projects, login and consent pages, device flow | `signin` |
| `RoutingConfig` | models, upstreams, groups, routes, the names that refer to models, and the two copies of all that in memory | `catalog` |
| `..._proofs` | theorems about the module of that name, for all values of its constants (section 14): `ExtraUsageWallet`, `SubscriptionOrders`, `RequestExecution`, `ResponsesSocket`, `Metering`, `OAuthTokens`, `SignIn`, `RoutingConfig` | tlapm |
| `MC...` | constants for TLC | |

`PROJECT.json` maps every definition to the lines it stands for, lists the
hazards with the properties that cover them, and gives for each property a
mutant: a faulty variant of one definition (kept beside it, under a comment that
begins with "Fault:") under which TLC finds the property violated.

## 2. Inventory

For each part: the state it keeps, its operations, what makes it hard, what makes
it correct. (M) modelled, at least the operations that change shared state;
(-) left out, for the reasons of section 15.

**Extra-usage wallet** (M) `internal/store/extra_usage.go`,
`internal/api/admin/v1/extra_usage.go`, `internal/admin/handle_extra_usage.go`,
`handle_delivery.go`, `handle_refund.go`.
State: one settings row per project (enabled, bypass, balance, monthly limit), an
append-only ledger, the status of top-up orders. Operations: conditional debit,
top-up, direct grant, refund, upsert of the settings, bypass switch, order
creation and cancellation, delivery and refund webhooks. Hard: transactions at
READ COMMITTED that interleave statement by statement, webhooks repeated
concurrently, a crash between the ledger's commit and the status update. Correct
when no balance update is lost, an order moves money once each way, status and
money agree, and debits respect the limits in force.

**Guard and settlement** (M) `internal/proxy/extra_usage_guard_middleware.go`,
`settleExtraUsage` in `executor.go`. The guard admits on what it reads before the
upstream is called; the debit comes when the answer has ended. Correct when a
debit that no longer fits changes nothing.

**Orders and subscriptions** (M) `internal/store/subscriptions.go`, `orders.go`,
`internal/admin/handle_orders.go`, `handle_subscriptions.go`. State: orders,
subscriptions (a unique index allows one active per project). Operations: create,
pay, cancel, deliver, expire and fall back to free, override, switch the free plan.
Hard: an order priced against a subscription that has been replaced when it is
paid; the job in several pods racing with a renewal. Correct when each order buys
one subscription, replaces the one it was priced against, and the project keeps
one.

**Router and balancers** (M) `internal/proxy/router_engine.go`, `lb/`. State:
group members and their status, sticky bindings per (session, model), atomic
connection counts, routes. Operations: match, select with affinity, capacity
fallbacks, bind, unbind, acquire, release, cleanup, reload. Hard: the binding is
handled by several atomic operations in a row, by many requests. Correct when
concurrent requests of a session converge and counts are exact.

**Executor and request rows** (M) `internal/proxy/executor.go`,
`internal/store/requests.go`. State: per request the list of candidates, the
attempt, the replay flags, the retry classification; the row in the database.
Hard: some twenty ways for an attempt to end, each of which must release the
connection once, classify the request and complete its row; the list grows while
it is walked. Correct when all of that holds on each path and every request ends.

**Streams** (M) `internal/proxy/idle_timeout_reader.go`, `keepalive_writer.go`,
`codex_capacity_retry.go`, `stream.go` and the other interceptors,
`copyWithFlush` and `commitStreamingResponse` in `executor.go`, the tee of
`internal/httplog/`. State: two timers with goroutines of their own, a mutex
around the client's connection, the events held back by the probe, what the
interceptor has counted. Hard: the end of a stream is noticed in four places and
in any order. Correct when the client gets one upstream's answer from its
beginning, the stream ends and is completed once, and what it was shown is billed.

**Responses over WebSocket** (M) `internal/proxy/responses_websocket.go`,
`responses_websocket_upstream.go`. State: the upstream's connection, which all
turns share, its queue, the turn's body. Hard: what is left of one turn is still
there in the next. Correct when each turn gets its own answer and is sent once.

**OAuth token managers** (M) `internal/proxy/claudecode_oauth.go`,
`codex_oauth.go`, and the refresh handlers of the admin API. State: per upstream the
credentials in memory, an RWMutex, a singleflight group; the encrypted row in the
database. Operations: get (refreshing what is due), force a refresh, reload, and from
the admin API store, refresh and delete. Hard: the refresh token is replaced by each
use, two singleflight keys use the same one, and three writers store their answer
without looking at what is there. Correct when a token the provider accepts is never
lost, memory catches up with the row, and calls end.

**Rate limiter** (M) `internal/ratelimit/`, `internal/proxy/ratelimit_middleware.go`. Windows
summed from the requests table behind a TTL cache; check before, record after,
invalidate. Correct when a limit is reported only if the plan has been used up and a
cached sum that is wrong does not stay.

**Usage collector and HTTP log** (M) `internal/collector/collector.go`,
`internal/httplog/`: bounded channels, batches, workers, shutdown. Correct when an
accepted answer is counted once or a nameable fault is to blame.

**Authentication and denylist middleware** (M) `internal/proxy/auth_middleware.go`:
key or token, project, three caches of the member row, a
cache of introspections.

**Projects, members, keys, grants** (M) `internal/store/projects.go`, `keys.go`,
`oauth_grants.go`, `internal/admin/handle_projects.go`, `handle_keys.go`: removal of
a member against the creation of keys, quotas against changes of role. Correct when
who has been removed is refused, and what is admitted comes to match the rows.

**Device flow, login, consent** (M) `internal/admin/device_flow.go`,
`internal/store/device_codes.go`, `hydra_login.go`,
`hydra_consent.go`, `internal/api/admin/v1/auth.go`: poll, approve, deny, consume,
expire; the account and the default project made at the first login. Correct when a code is used once,
a refusal the device has heard is final, and a person gets one default project.

**Models, upstreams, groups, routes, plans, policies** (M)
`internal/modelcatalog/`, `internal/admin/handle_upstreams.go`, `handle_upstream_groups.go`,
`handle_routing_routes.go`, `handle_policies.go`, `internal/api/admin/v1/`, the
triggers of `internal/store/migrations/`, and the ticker of
`src/cmd/modelserver/main.go`. Correct when a name refers to a model, and memory comes
to agree with the rows.

**Process start, tickers, shutdown** (M, in the modules that need them).

**Left out** (-): authorization, transformation of bodies, Vertex and outbound
clients, notifications, usage queries, libraries for sessions and encryption,
billing client, configuration and metrics, dashboard, gateway, scripts.

**How they interact.** A request passes authentication (`ProjectAccess`), the trace,
the limiter and the guard; the handler inserts a row in state processing
(`Metering`); the executor asks the router for upstreams (`RequestExecution` over
`Router`, with the maps of `RoutingConfig`), asks the token managers for credentials
(`OAuthTokens`), calls, relays the answer (`StreamRelay`), and on the way back settles
with the wallet (`ExtraUsageWallet`) and completes the row (`Metering`). The payment
service calls the delivery and refund webhooks, which change orders and either the
wallet or the subscription. One ticker in each process runs the expiry job, another
cleans up the bindings, a third reloads the configuration. What two parts exchange is
narrow: wallet and subscriptions share the `orders` table and nothing else; requests
share with the wallet only what the guard reads and the debit writes; the executor
sees of the token managers that a refresh succeeds or fails, and of a stream how it
ended. Where that is so the modules are separate, and the neighbour is an arbitrary
choice: a composition would multiply the states without adding a behaviour. Where
components share state at the grain of single steps they are composed: `Router` under
`RequestExecution`, `StreamRelay` under `ResponsesSocket`, `Background` under
`Metering`.

## 3. The wallet

**State.** `settings`, `ledger` and `status` are committed rows. `holder` is the
session whose transaction holds the lock of the settings row, `loc` the handler's
local variables, among them the balance its UPDATE returned, which nobody sees
until the commit. `payment` is what the payment service knows of an order
("short": it was paid with another amount). `pc` says which statement comes next.

**Actions.** One per statement: `DeductLock` is the conditional UPDATE, which waits
for the lock, is then evaluated on the newest row, but keeps the month's sum of
the snapshot it began with (`loc.seen`); `DeductCommit` is the ledger insert and
the commit; `TopupCheck`, `TopupLock`, `TopupCommit` / `TopupConflict` the three
parts of a delivery, `RefundLock`, `RefundCommit` / `RefundConflict` of a refund;
`MarkDelivered` and `MarkRefunded` the status updates after them. `EditRead` and
`EditWrite` are the read-modify-write of the settings handler. `Abort` is a process
that dies, or a connection that breaks, at any statement.

**Simplifications.** A missing settings row reads like the default one and its
first insert excludes others as a lock does, so the row is always there. One
calendar day and month. `GuardAdmits` merges the guard's two reads (settings, month's
spend) into one step: it decides only whether a request goes on, and everything it
read may be outdated at the debit anyway. Amounts of a request are arbitrary members
of `Costs`.

**Properties.**
- `LedgerExplainsBalance`: each ledger row is its predecessor's balance plus its own
  amount and the settings row carries the last: no lost update.
- `AtMostOncePerOrder`: credited once, refunded once, a refund only of a credit
  applied before and by the same amount.
- `StatusBacked`: an order is credited only when paid in full, reads delivered or
  refunded only when credited, and reads one of the two once the refund moved money,
  across the gap between ledger and status.
- `DeliveredNeverReopened`: no late step of another handler makes a delivered order
  look undelivered.
- `OverLimitOnlyByRace`: the only way past the monthly limit is another debit that
  commits after the snapshot of this one (see section 13).
- `ImplementsAccount`: every behaviour is one of `CreditAccount`, with the phase of an
  order computed from the ledger.
- `PaidIsSettled` (liveness): a paid order is delivered in the end, also when the
  process dies between the two commits.

## 4. Subscriptions

**State.** `subs` is the subscriptions table in order of insertion, `orders` the
orders with what the payment service knows of them, `now` the database clock, `sweep`
what each pod's job has in hand.

**Actions.** `ReadActive`, `NoPayingOrder` / `PayingOrderExists`, `CreateOrder`,
`PaymentCreated` / `PaymentFailed` are the statements of `handleCreateOrder`;
`DeliveryWebhook` and `DeliverOrder` / `DeliverRolledBack` the webhook; `SweepSelect`,
`SweepReplace`, `SweepRolledBack`, `SweepNoFree`, `SweepExpireAll` the job;
`AdminCreate`, `AdminSetStatus`, `AdminFreePlan` the overrides.

**Simplifications.** The transaction of `DeliverOrder` and the transaction of one item
of the job are one step each: both write an existing row before they insert, and a
second one waits for that row or for the unique index. A plan is its tier level, all
periods have one length, and there is one project. `HasPayingOrder` in the code also
counts the project's paying top-up orders; these are not in this module, and would
only refuse more orders.

**Properties.** `DeliveredOnce`; `DeliveryReplaces` (a delivery takes the place of the
subscription the order was priced against, keeps its currency, does not go down a
tier, and a renewal extends it by exactly one term); `SweepSparesRenewal`;
`CoverageKept` (only an override, or the job without a free plan, leaves a project
without a subscription); liveness `PaidIsDelivered` (unless cancelled or overtaken) and
`LapsedIsReplaced`.

## 5. Requests

**State.** `Router` holds `serving` (members that are neither disabled nor draining),
`binding` (the entry of one session and model, fresh or older than the TTL), `conns`
and `cleaning` (the cleanup has found the entry expired and not deleted it yet).
`RequestExecution` adds per request `pc`, the locals of `Execute`, its `row` and what a
goroutine is about to write to it (`pending`). `history` and `calm` exist for the
properties only and no guard reads them.

**Actions.** `Arrive` is the insert of the row, `Match` and the filtering of members.
`FollowBinding`, `PickPrimary`, `RefreshBinding`, `ClaimBinding`, `FindUnusable`,
`OverwriteBinding` are `pinSessionToUpstream`, one action per operation on the map.
`Call` takes the connection. From "call" the answer decides: `FailOver` and
`Saturated` are `handleCodexCapacity`, `RetryByPolicy` is the ordinary retry,
`AuthRefused` / `TokenRefreshed` / `RefreshFailed` and `ContentRefused` are the two
replays on the same upstream, `Refuse`, `NoResponse`, `Accept` the commit, and
`ReplyEnds`, `ReplyBroken`, `ReplySaturated` the end of the body. `ReplyUnfinished` is a
Responses stream that ends before its usage: its interceptor calls nobody back, so the
connection stays counted and the row stays in processing. `WriteRow` is the
goroutine of `CompleteRequest`, or the collector when the first insert had failed.
`BindingExpires`, `CleanupFinds`, `CleanupDeletes`, `ConfigReloads` are the background.

**Simplifications.** The balancer's choice is arbitrary, which covers its three
policies and all weights. A group is filtered and listed at one instant, as under the
router's read lock; the members a request got from `Match` stay those of its snapshot
when the configuration is reloaded. `UnbindSessionFromUpstream` loads and then deletes
by comparison; a binding that is stored between the two stays, which is the same as
storing it after the deletion. Selecting the fallbacks, unbinding and releasing are one
step in `FailOver`, and `ContentRefused` gives its connection back and takes it again
in one step. `UpdateRequestUpstream` and `CompleteRequest` succeed; an insert may fail.
Answers are classes, "timeout" and "connection_error" are one class `lost`. Requests
without a session are not modelled, settlement is in the wallet, and what a body looks
like on its way is in `StreamRelay`. All state but the row belongs to one process, as
in the code.

**Properties.**
- `ConnectionsCounted`: the count of an upstream is at any time the number of requests
  that are calling it or reading from it, whichever way attempts end - and of the
  Responses streams that ended without usage, which are never given back.
  `ConnectionsReturned` is the same without that exception, and does not hold
  (section 13).
- `TriedOnce`: no request comes back to an upstream, however its list grows.
- `RetryHistoryRecorded`: the row tells the retry history apart from the outcome, as
  `internal/types/request.go:13` describes it.
- `ColdStartConverges`: requests that start together without a binding agree on their
  upstream in every order of their steps.
- `RetriesFollowPolicy`: ordinary failures alone never take a request further than the
  policy's number of retries. After a capacity error they do: the fallbacks join the
  list that the ordinary retry walks (`executor.go:678`), although the comment at
  `router_engine.go:403` reads as if the policy still held then.
- `RequestEnds` (liveness): failover and replays end, and no path but the unfinished
  stream leaves its row in processing.

## 6. Streams and WebSockets

**State.** `StreamRelay` follows one answer from the upstream's `body` to what the
client has `got`. An answer is a sequence of events, of which the code tells apart
whether they hold generated output, end the answer with its usage, or report an error or
a lack of capacity. `body` knows what the probe has read and will replay; `dog` is the
watchdog with its timer and the goroutine that the timer starts; `keep` is the keepalive
writer with its timer, its mutex and the heartbeats that wait for it; `seen` is what the
interceptor has read, `chunk` what the copy loop has in hand; `outcomes` and `logged` are
what was recorded. `ResponsesSocket` adds the upstream's connection that all turns of a
client share, with its queue of frames (`socket`), and how often each turn was sent.

**Actions.** `Produce` and `BodyEnds` are the upstream, `ClientLeaves` the client.
`Answer`, `Probe`, `TryNext` and `NoneLeft` are `probeCodexCapacityStream` and its caller;
`Commit`, `Read`, `BeginWrite`, `Written`, `WriteFails`, `CloseStream` and
`CloseKeepalive` are `commitStreamingResponse` with its copy loop; a Write begins and ends
in steps of its own because the client may be slow. `DogFires`, `DogTrips`, `DogCloses`
and `BeatFires`, `BeatLocks`, `BeatWritten` are the goroutines of the timers, one action
for each side of their mutexes. `Ask`, `BadFrame`, `TakeTurn`, the three outcomes of
admission, `Dial`, `Send`, `SocketRead`, `SocketClose`, `EndTurn` and `HangUp` are the
WebSocket session.

**Simplifications.** A Read returns one event; a line that is split between two Reads is
put together by the interceptor before it counts. `messages` stands for all formats whose
interceptor always finishes. The Codex upstream is the only one that reports a lack of
capacity in its stream. An upstream ends the answer to a turn with one terminal event. The
event with the hints of the handshake, and dials repeated with another upstream or a new
token, are left out. Limits in bytes are limits in events.

**Properties.**
- `OneAnswer`: what the client gets is a prefix of what one upstream sent for this
  request or this turn; an answer that was given up for another upstream's had nothing
  generated in it, and no turn is sent twice.
- `EndsOnce`: when the handler has returned, the stream was completed exactly once and
  logged exactly once, nobody writes to the client any more, a success is a stream the
  client has got in full, and what it was shown as used is billed. Three exceptions are
  written into it, and are behaviours of the code: a Responses stream whose usage was not
  seen is not completed; when the last event comes together with the end, a write that
  fails is still a success; a later event of a Gemini stream takes the usage back.
- `StreamEnds` (liveness): a stream whose upstream falls silent ends, however the timers
  race with the last event and the heartbeats with the handler.

## 7. Metering

**State.** `Background` has for every request two rows, the handler's (`row`) and the
collector's (`late`), the collector's channel and batch, the channel of the HTTP log, and
`phase`, how far the deferred calls of main are. `Metering` adds where each request is,
the goroutine that writes its row (`writer`), the cached sums (`cache`) and the classic
counters (`minute`). `lost` names the requests whose credits a fault has lost and is read
by properties only.

**Actions.** `Arrive`, `NoSession`; `CheckRule`, `SumRule`, `SetRule` for the credit rules
(visit of the cache, query, visit of the cache), `CheckClassic`, and the same three for
the quota of the member; `GuardRefuses`, `RefuseModel`; one action per handler for the
pending row, which may be there and known, there and its reply lost, or not there;
`Failed`, `Answered`, `ImageAnswered` for the end; `Write` for the goroutine. `Receive`,
`Flush`, `RunReturns`, `Upload` are the background goroutines, `Shutdown`,
`LoggerStopped`, `Exit` the end of main, `Rollover`, `MinutePasses` and `Expire` time.

**Simplifications.** One project, one key, one user. A trace belongs to one request. The
guard's decision and the insert of the pending row are one step, and so are the
settlement, the choice between row and collector, `PostRecord` and `Enqueue` after an
answer. The credits of an answer are an arbitrary member of `Costs`. Retry-after and the
rate-limit headers are left out.

**Properties.**
- `CountedOnce`: the two rows of a request never add up to more than it came to.
- `AnswersAreCounted`: the credits of every answer are in a row or on their way to one;
  what is missing was lost to a nameable fault: a statement that failed, a full buffer, a
  batch with an event without a trace, the exit.
- `LimitedOnlyWhenUsedUp`: a request is taken for rate limited only if the plan was used
  up in this window or in the one whose sum is still cached.
- `SumsSettle` (liveness): a cached sum that is wrong does not stay, in whatever way it
  came to be wrong.

## 8. OAuth credentials

**State.** Credentials are a refresh token, numbered in the order the provider has
issued them, and an expiry; `Gone` is a missing entry, or a deleted row. `db` is the
row, `mem` and `known` are the manager's two maps, `live` the tokens the provider
accepts. `flight` is the refresh under way for each singleflight key, with what it has
in hand; `admin` the same for the handlers of the admin API and the page of the
dashboard, `reload` the row the ticker has read and not applied. `lock` is the state of
`m.mu` between the sections it protects: free, read-locked for ever by a call that
panicked, or lost.

**Actions.** `GetToken` and `ForceToken` are the two entries; `Join` and `Lead` the two
outcomes of `singleflight.Do`; `Answered`, `Refused`, `AnswerLost` the call of the
provider; `Apply`, `ApplyPanics`, `Blocked` the section that changes memory; `Persist`
and `PersistFails` the UPDATE after it; `Reread` what the callers do with the result.
`ReloadRead` and `ReloadApply` are the half-minute reload, from `ListUpstreams` to the
manager's `Reload`. `ExchangeCode` has an authorization code exchanged for credentials,
which the page of the dashboard then holds until `Reauthorize` saves them, or gives them
up. `AdminRefresh`, `CodexUtilization` and `ClaudeCodeUtilization` refresh what is in the
row - on demand, or because a utilization query found it due - and `AdminPersist` stores
it. `DeleteUpstream` deletes, `Restart` starts the process from the row.

**Simplifications.** Access tokens follow their refresh token and are left out, so a get
that need not refresh changes nothing and is no step. The provider refuses a token
that it has replaced; the claudecode one always sends a new token and an expiry, the
codex one may leave out either, as its manager allows for. The query and the call of an
administrator's refresh are one step: what happens between them either leaves the
token valid or makes the provider refuse it. Credentials in the row always decrypt and
parse. One process; a second one would be another writer of the row, as the
administrator is.

**Properties.** `lossy` marks what excuses the loss of a token: an answer or an update
that is lost, a restart with an answer in hand, a late UPDATE that overwrites a later
one (the two keys, or the administrator, may overtake each other, and a page of the
dashboard that was left open may be saved when its token is no longer the latest).
- `RefreshTokenKept`: without such an event, a token the provider accepts is in memory,
  in the row or in the hands of somebody about to store it there.
- `SafeUnlessDeleted`: while the row exists the manager has its credentials and its lock.
- `CallsEndUnlessDeleted` (liveness): calls for an upstream that exists end.
- `MemoryCatchesUp` (liveness): a valid token in the row reaches memory although the
  reload prefers the later expiry. It is stated for claudecode, whose answers always
  carry an expiry. For codex it does not hold: after a refresh with an expiry, an
  administrator's refresh without one leaves memory with a dead token that expires
  later than the valid one in the row, and the reload keeps it until it has expired.

## 9. Access to a project

**State.** `project`, `member`, `key`, `grant` are rows, `token` what Hydra says of the
access token; `op` are the handlers of the admin API with what they have read, `req` the
requests inside `AuthMiddleware`, `cache` the three caches of the member row
(presence, quota, denylist) and the cache of introspections.

**Actions.** Handlers are cut where another one can come in between:
`UpdateMemberRead` / `Write` / `Invalidate`; `AddMember` and the quota it sets in a second
statement; `RemoveMember` up to the transaction's last statement, `RemoveMemberCommit`,
and the consents revoked at Hydra afterwards; create, update and delete of a key, each a
check and a write; `Consent` / `ConsentIssue`; `RevokeGrant` and its two statements;
archive and unarchive. A request authenticates by key or token, checks the project, looks
at the caches, loads the row if one of them misses, and fills what it found missing.

**Simplifications.** One user in one project. Rows a removal has written are locked until
it commits. A key's hash, the policy and the last-used stamp are left out.

**Properties.** Both are statements about what must come true, because in between the
code serves from caches on purpose.
- `RemovedIsRefused` (liveness): who has been removed for good is refused for good,
  although a key created behind the removal's back stays active and Hydra may go on
  calling the token live.
- `FactsSettle` (liveness): when the rows change no more, what requests are admitted with
  comes to match them: project, quota, denylist, key or token.

## 10. Signing in

**State.** `account`, `projects`, `session` per person, the row of one device code, the
browser tabs and where each is, the polls of the device; `answers` and `handed` record
what the device has been told.

**Actions.** The device: `RequestCode`, `PollRead` and what a poll makes of what it read,
`Expire`, `Cleanup`. A tab: `VerifyUserCode` or `OpenDashboard`, login by a session or by
a provider, `FindUser`, `CheckFirst`, `CreateUser`, `FindAgain`, `CreateDefaultProject`
one statement each, `Consent`, `Callback`, `Exchange`, `Approve`, `Deny`; and
`CountProjects` / `CreateProject`, the check of the limit and the insert.

**Simplifications.** The provider and Hydra let a person through or not. A session does
not end. Whether an account is disabled, which is asked at login and by every call of the
admin API, is left out. The rate of polling decides between two answers that both mean
to go on waiting. One clock tells whether a code has expired, the program's and the
database's being taken for the same. Every statement may fail within `Budget`, by itself
or as one that has not happened: `Fail` and `FailUnless`. A lookup that fails and leaves
the page or the poll as it was is no step.

**Deletions that fail.** `HandleTokenPoll` deletes the row before it says
`expired_token` or `access_denied`, and ignores the error (`device_flow.go:390`,
`device_flow.go:397`). `DeleteAndTell` has both ends: the row is gone, or the device is
told the same and the row stays as it is. `answers` calls the second one `undeleted`.

**Properties.**
- `TokensHandedOutOnce`: whatever polls and tabs do, one poll gets the tokens.
- `RefusedForGood`: once the device was told that it is over and the row was deleted, or
  had gone, no poll is handed tokens, though a second tab approves what the first one has
  denied. A deletion that asked for the status it has read would break this. Two answers
  are not final in that sense: `undeleted` above, and `lost`, an `invalid_grant` for a
  poll that read an approved row and could not consume it. After these tokens may follow
  (section 13), but only by a poll that had read "approved" or a tab that is in its
  callback already: after any final answer no tab begins to approve or deny, which is the
  second half of the property.
- `OneDefaultProject`: signing in twice for the first time makes one default project.
- `DeviceIsTold` (liveness): a device that keeps polling learns how it ended.

## 11. Routing configuration

**State.** `db` are the rows; `catalog` and `router` the two copies in memory; `tick` the
reload and what it has read so far; `op` the handlers with the write they decided on.

**Actions.** Every insert, update and delete of a model, upstream, group, member, route,
plan, policy and of the models a key allows begins with a check of its names against the
catalog and one write to come (`Start`). `Check` takes the row's lock and evaluates the
triggers on what the transaction sees: the row as it was given, before a primary or a
foreign key has its say (`BEFORE INSERT OR UPDATE`). `Unique` are the primary keys, which
`createModel` alone relies on for its conflict. `Commit` applies the write with its cascades;
`RefreshCatalog` and `RefreshSwap` follow a write to models. The ticker lists upstreams,
groups, members, routes and models one after the other, swaps the catalog and installs
the maps; `SkipTick` is a query that fails, or a list of routes that cannot be read.

**Simplifications.** A row has the fields that routing and the triggers look at. Request
kinds and aliases, which are matched and resolved as clients and names are, are left out,
and so are weights, proxies and prices.

**Properties.**
- `DanglesOnlyByRace`: a guarded row names a model that is not registered only if the
  model was deleted, or the name written, between the trigger and the commit.
- `ViewsMirrorMatch`: the matrix shown to administrators and the list of models offered
  to clients agree with `Match`, in whatever mixture of old and new tables.
- `Recovers` (liveness): when the rows rest, memory comes to agree with them - unless a
  route has lost its group, after which no tick succeeds (section 13).

## 12. What the runs show

| run | instance | states | result |
|---|---|---|---|
| `wallet` | 3 sessions, 1 order of 2 credits, cost 2, grant 5, limits 0 and 3; two requests, one grant, one edit, one abort | 1.06 million | all safety properties and the refinement hold |
| `wallet_liveness` | 2 sessions, 2 orders of 2 and 3 credits, daily cap 4, one grant, one abort | 104 thousand | `PaidIsSettled` holds |
| `subscriptions` | 2 sessions, 2 orders, 2 pods, 2 tiers, 1 currency, terms of 1, clock to 2, one override, one abort | 496 thousand | all properties hold |
| `execution` | 2 requests, a Codex upstream with limit 1 and a Claude Code one, one retry on 5xx, one reload | 1.85 million | all safety properties hold |
| `execution_liveness` | 1 request, 4 upstreams, one a backup, one retry on 5xx and on lost answers | 39 thousand | the bound on retries and `RequestEnds` hold |
| `connection_leak` | as `execution` | stops early | `ConnectionsReturned` is violated |
| `streaming` | all four formats, 2 answers or turns of up to 3 events, probe limit 2, 1 event kept of a refusal and 1 in the log, 1 waiting heartbeat | 1.34 million | all properties hold |
| `metering` | 2 requests, one of each kind and any pair of different kinds that matter, key rule of 2 credits, costs 2, quota 1, classic limit 1, channels of 1, batches of 2, 2 windows, one fault | 474 thousand | all properties hold |
| `oauth` | 2 callers, 3 refresh tokens, clock to 1 with tokens that last 1, one act of the administrator or one fault | 469 thousand | all properties hold |
| `access` | 1 key, 2 handlers, 1 request, roles owner and developer, two handlers in all | 272 thousand | both properties hold |
| `signin` | 1 person, 2 tabs, 2 polls, limit of 1 project, two faults or creations | 326 thousand | all properties hold |
| `catalog` | 1 model, 1 upstream, 2 groups, 2 routes (global, or of the project for one client), 2 handlers, two edits or failures | 430 thousand | all properties hold |

**Why the bounds are enough.** Every race in the wallet is between two transactions
and one observer: three sessions cover it, and the proof of `LedgerCorrect` covers any
number. A limit of 3 with costs of 2 makes the second debit exceed it. A cap of 4
against orders of 2 and 3 lets either be created and not both when the first is paid.
Two orders, two pods and two terms of the clock let a subscription lapse, be renewed and
be overtaken while the job has it in hand; a currency is only copied from an order to
its subscription. Two requests are enough for every conflict on
the binding, and the limit of 1 makes the second lose its candidate; one Codex and one
Claude Code upstream exercise every replay and failover.

An answer of three events holds one before the output, one output and an end, and
overflows the probe that holds back two; two answers let one be given up, two turns let
one follow another. One heartbeat may wait for the mutex while another writes.
Of two requests one spends the limit and the other is measured against it; a channel of
one is full when the goroutine is slow, a batch of two holds one event that can be
inserted with one that cannot. The kinds of the two requests are `restricted`, `images`
or `probe` against `messages` or `gemini`: what differs between two kinds of one of those
sets is covered by the other request. Two windows let a sum outlive its own. The only
rule is the key's, whose cached sums nobody invalidates; sums of project and user, which
are invalidated, are covered through the user's quota.

Two callers are enough for a due and a forced refresh at once and for a leader with a
waiter; three tokens allow two refreshes in a row or one on each chain, and a clock of one
lets a token be replaced within its second and again when it is due. Administrator and
faults share a budget of one because most of their combinations are excused from the
properties anyway; the safety properties have also been run with a budget of two.
In `access` every race is between a removal or an edit, one other handler, and a request
that has read a cache. In `signin` two tabs make the two logins or the two answers, and
two polls race for one code; accounts of different people do not touch. In `catalog` one
edit races with another and both with the ticker; the model is enough for a name that
dangles, two routes and two groups for a choice that depends on order.
Budgets bound what would otherwise repeat for ever: requests, grants, edits, overrides,
aborts, reloads, failures.
Symmetry is used in `execution` and `connection_leak` only, over requests; never with
liveness.

**Liveness with one request.** No step of a request waits for another request: nothing
blocks on the binding or on a count. Liveness of one request among reloads, expiry and
cleanup is therefore liveness of each; with two the run exceeds its time.

**Rest.** The wallet, the subscriptions, the executor and the relay come to rest by a step
that says so (`Quiescent`), so that a deadlock anywhere else is found. The codex manager
can lose its lock for good; `Hang` is the stuttering step of that state. In the four runs
`access`, `signin`, `catalog` and `metering` the system really stops when the budget is
spent, everybody has answered or the process has exited, and deadlock is not checked.

**Fairness.** A handler, the completion goroutine and the ticker's job run on when they
can (weak fairness): goroutines are scheduled. A session of the wallet gets a lock that
is free again and again (strong fairness): Postgres queues the waiters of a row. The
handler of a stream gets the mutex it shares with the heartbeats (strong fairness):
a `sync.Mutex` does not starve its waiters. The
delivery of a paid order is repeated until it is accepted (strong fairness):
`docs/superpowers/specs/2026-03-11-payserver-design.md:258`, "Retries callback to
modelserver with exponential backoff, up to 10 attempts"; with aborts bounded, ten
are more than enough. An upstream call ends by an answer or by the per-upstream timeout
(`upstreamTimeout`, `executor.go:1908`: the upstream's ReadTimeout, else five minutes);
a streaming call whose upstream sets no ReadTimeout has no deadline before its headers
arrive, and there the fairness assumes that the upstream answers or the client gives up,
which cancels the request's context. A timer that is armed fires, which is what ends a
body that stops (`stream_idle_timeout`), and a Write ends, by the client or by its
connection. A refresh is bounded by the 15 seconds of its client, and the tickers reload
again and again. An entry of a cache grows old, a device code expires and its device
polls on. `Metering` asks only that some handler or goroutine, some expiry and some
background goroutine move. Nothing is assumed of customers, administrators, browsers,
upstreams or of which answer comes.

## 13. Findings

With a run:

1. **A Responses stream without usage never gives its connection back**
   (`connection_leak`): `openai_stream.go:138` calls `onComplete` only when the usage, or
   a capacity error, was seen; `stream.go:119-121` says of the same method of the Messages
   interceptor "Always call onComplete ... Callers rely on onComplete to release
   resources". A client that disconnects early is enough. The count stays, the row stays
   in processing, nothing is billed. The same happens when a Codex refusal is
   the answer after all: `executor.go:712` keeps 4096 bytes of it, which may not hold
   the event that would have finished it.

Met while modelling, explained by the models and stated as exceptions in their
properties where one applies:

- **Wallet.** Two debits that settle together both pass the monthly limit
  (`store/extra_usage.go:151`; the comment at line 134 says "atomically"), which is what
  `OverLimitOnlyByRace` leaves open. The daily top-up cap is a sum followed by an
  insert (`api/admin/v1/extra_usage.go:477`), so two orders created together both pass. A slow
  duplicate delivery writes delivered over refunded (`handle_extra_usage.go:418`), which
  `handle_refund.go:38` calls terminal; the money stays right.
- **Subscriptions.** The check for a paying order and the insert are apart
  (`handle_orders.go:184`): both handlers pass, and only one of the two paid orders can be
  delivered.
- **Router.** `LoadOrStore` hands a stale binding to two requests and both overwrite it
  (`router_engine.go:517`; line 370 says they must converge). The cleanup deletes the key
  it found expired, also when the binding was renewed meanwhile (line 680).
  `MaxConcurrent` is checked at the selection (line 335) and counted at the call
  (`executor.go:620`), so requests selected together exceed it.
- **OAuth.** A refresh under way when the reload removes its upstream panics on a nil
  pointer with `m.mu` locked (`codex_oauth.go:291`; `claudecode_oauth.go:176` leaks the
  read lock): later calls block, and the next reload blocks with the router's lock held.
- **Access.** "only revoked keys can be deleted" (`handle_keys.go:253`) is raced by an
  update of the key. A key can be created active behind the removal of its member
  (`handle_keys.go:63-70`). The denylist does not always take effect "immediately"
  (`auth_middleware.go:58`): a request that has read the row before puts it back after the
  invalidation. Consents are revoked per user and client, for all projects
  at once. A maintainer can set the quota of a member who becomes an owner in between
  (`handle_projects.go:577`). `checkMembership` in `auth_middleware.go` is called by nobody.
- **Sign-in.** Two people who sign in first at the same time are both superadmin
  (`api/admin/v1/auth.go:336`). A poll that loses the race for an approved code is told
  `invalid_grant`, because "Another concurrent poll already consumed it"
  (`device_flow.go:430`), also when the row was denied in between. `ApproveDeviceCode` asks
  for no status (`store/device_codes.go:113`) and takes a denied row
  back, so that a third answer of the browser gives tokens to a device that was told there
  are none. The same follows an `access_denied` or an `expired_token` when the deletion
  before it failed (`device_flow.go:390`, `device_flow.go:397`): the row of the code is
  still there for a tab in its callback to approve, or for a poll that has read it approved.
- **Configuration.** Deleting a group sets `upstream_group_id` of its routes to NULL
  (`migrations/003_routing_redesign.sql:49`); `scanRoute` (`store/routes.go:171`) cannot
  read that, every later tick is given up (`main.go:181-185`) although
  `api/admin/v1/models.go:262` counts on it, and a restart ends at `main.go:150`.
  The triggers look at rows that other transactions are about to change, so a name can
  dangle; a later update of that row is then refused. An update of an upstream is
  validated against a row read earlier. The status of a group is never consulted by the
  router.
- **Streams.** The idle watchdog measures from the return of one Read to that of the next,
  so that a client slow to take an event trips it, although
  `idle_timeout_reader.go:25-29` says "only true upstream silence triggers it"; data that
  arrive as it fires come with the timeout. That a heartbeat "can never land in the middle of
  a partially-written SSE event" (`keepalive_writer.go:18`) holds for each Write, and not for
  an event written in several. A `response.failed` over HTTP is recorded as
  a success, over a WebSocket as an error. An error event after the output of a Gemini stream
  bills nothing (`gemini_stream.go:106`), a Messages stream interrupted before its
  `message_delta` bills no output, an image event that is too large bills nothing.
- **Metering.** The cache key of a key's own rules begins with the project, the prefix
  `PostRecord` invalidates with the key (`composite.go:46,153`): they never match.
  Classic rules per model are checked with an empty model. `PostRecord` invalidates before
  the row is written, a sum read before that is cached after it (`composite.go:65`), and
  requests admitted together are measured against one sum (line 68). The key lacks
  the window's start. A sum that fails lets the request pass. Rows of the collector
  have no `created_by` and no `is_extra_usage`. A trace that could not be inserted fails the
  pending insert, and its collector event then fails the batch with all others in it. A pending
  insert whose reply is lost leaves a row in processing beside the collector's. Rows in
  processing at exit stay so.

## 14. What is proved

Each module of proofs has one inductive invariant, `IInv` (most of them in the last section
of the module they are about, where TLC can check them), a lemma `Inductive == Spec => []IInv`
with one case for each action of `Next`, and the theorems that follow from it; `Metering` has
a second one, `SInv`, that rests on the first and is about what the sums tell. They hold for
every value of the constants that satisfies the ASSUMEs: any sets of sessions, orders,
requests, tabs, models; any amounts and limits, any budget of faults and edits.
This matters most for the budgets: what a run shows with two faults or two handlers is
proved for any number of them.

| theorem | property | why it holds |
|---|---|---|
| `TypeCorrect` | `TypeOK`, in each module | of the wallet: a status update has its type only because the handler that makes it carries an order (`OrderLocals`); elsewhere it is a part of `IInv`, or follows from it |
| `LedgerCorrect` | `LedgerExplainsBalance` | a commit writes a balance computed one statement earlier; `LockDiscipline` says that just the session inside its transaction holds the lock, and that its balance is still the committed one plus its amount |
| `CreditedOnce`, `StatusCorrect` | `AtMostOncePerOrder`, `StatusBacked` | the order is looked for under the lock, so that two deliveries cannot both miss it; `Creating` and `InProgress` say what each handler between two statements may rely on |
| `NeverReopened` | `DeliveredNeverReopened` | whoever writes an early status is the one handler that creates the order |
| `Implementation` | `ImplementsAccount` | `Amounts`: a debit that holds the lock is permitted by the row it locked; so each commit is a step of `CreditAccount`, and all else is a stutter |
| `OverLimitOnlyAfterAnother` | `OverLimitOnlyByRace` | `Snapshots`: a debit that holds the lock fits the limit with all that its snapshot has seen, and nobody edits the limit while the lock is held; so what the month has more at the commit is of debits that came after the snapshot |
| `BalanceIsSum` | the balance is what the ledger has credited less what it has taken | the first row of which that were wrong would be explained by the row before it |
| `BoughtOnce` | `DeliveredOnce` of the subscriptions | a transaction changes the whole table at once: at most one row per order before (`Deliverable`) gives one after |
| `DeliveryInPlace`, `RenewalSpared`, `Covered` | `DeliveryReplaces`, `SweepSparesRenewal`, `CoverageKept` | `Priced`: what an order names may be replaced at its price, also after other orders were delivered; `SweepDue`: what the job collected has run out and stays so |
| `CountExact` | `ConnectionsCounted` | the set of holders, finite because each step adds one at most, changes by one element whenever the count changes by one |
| `NeverBack` | `TriedOnce` | a list is drawn without repetition, and the fallbacks are drawn from what is not on it |
| `HistoryKept`, `PolicyKept` | `RetryHistoryRecorded`, `RetriesFollowPolicy` | `Remembered` and `Bounded` tie the handler's one retry status and its attempt number to all that has happened to the request |
| `Converges` | `ColdStartConverges` | `Cold`: as long as nothing disturbs the session, all requests choose from one set, a binding once installed stays, and whoever has chosen follows it |
| `NeverUnauthorized` | `RefreshTokenKept` | `Succeeded`: for each token that is used up, a later one is in the row or in hand |
| `LockKept` | `SafeUnlessDeleted` | `RowThere`: while the row is there, so are memory, the lock and what a reload has read |
| `HandedOnce`, `RefusalIsFinal` | `TokensHandedOutOnce`, `RefusedForGood` | `DeviceOver`: the row is consumed with the tokens and gone with the refusal, and nothing brings it back; `Closing`: once a poll has read the end of a code, and after every final answer, the code is not pending and unexpired again |
| `FoundedOnce` | `OneDefaultProject` | an account is founded by one insert, and only the tab that made it goes on to a default project |
| `ViewsAgree` | `ViewsMirrorMatch` | the order of routes is total, so that a finite set of them has one first (`FirstExists`); for a model that is offered, some route whose group is known matches |
| `OnlyByRace` | `DanglesOnlyByRace` | of two statements on one row just one waits for its commit (`Alone`), and what its triggers have found is true of what they have read (`Checked`); one lemma for each table says what a statement can bring to it |
| `CountedAtMostOnce` | `CountedOnce` | `OneWay`: an answer is with the collector or with the goroutine of its request, or in the row of one of them |
| `CountedOrLost` | `AnswersAreCounted` | the collector returns only when its channel is closed and empty (`Drained`), and carries the credits as billed (`AsBilled`) |
| `LimitedWhenUsedUp` | `LimitedOnlyWhenUsedUp` | `SInv`: every sum, in the hand of a request or in the cache, is at most what the plan had been used up by in some window (`Told`, `SoFar`); that never shrinks, because a row with credits keeps them, its window and who paid (`SaysWhoPaid`), and the collector has each answer once (`QueuedOnce`) |
| `OneAnswerGiven` | `OneAnswer` | `Relayed` and `Spoken`: what was copied, what the probe holds and what is unread, or queued in the socket, are the answer in pieces; a turn begins with an empty queue |
| `EndedOnce` | `EndsOnce` | `Told`: outcome and log entry are made once, with the usage of all that was seen; `Copied`: the client lacks no more than the event in hand |

**Assumptions.** The ASSUMEs are those of the modules, and TLC evaluates them. Those a
reader might not expect: upstreams and routes are finite sets (they are rows read into
memory), and so are the requests of `Metering`, of whose rows SQL takes sums; route ids are
numbers, for their order; a route that is created has a group (`upstream_group_id` is
required of the body); there is a group, and one that is not; the requests of `Metering` are
numbers in the order of arrival, and of the kinds of `Kind`. No theorem assumes fairness,
and none assumes that a budget is small.

**Sums.** A month's spend, a window's credits and the balance are folds of the community
modules, so a proof about them must know what a recursion computes. The library's theorems of
induction take operators as parameters, which these provers cannot instantiate. The lemmas
`UnitsOf` and `SumIsCount` do without: the sum of natural numbers f[x], x in a finite S, is
the number of pairs of an x and one of 1..f[x]. That number satisfies the equation by which
the fold is defined, and no other function does, since a smallest subset on which another one
differed would be the equation's counterexample (subsets of a finite set are well-founded,
`FS_StrictSubsetOrderingWellFounded`). `SumAdd`, `SumSame` and `SumMonotone` are then facts
about cardinalities. `ExtraUsageWallet_proofs` and `Metering_proofs` each have the ones they
use.

**What the proofs found.** Three properties that the runs had passed did not hold beyond their
bounds; the model or the property has been corrected:
- With three tabs, a device could be told `invalid_grant` and be handed tokens later
  (section 13); the answer of a poll that lost a race is now told apart.
- With five refresh tokens, the page of the dashboard could be saved over a
  newer token, and a late update over that: `Reauthorize` counts as a late update.
- With four edits, a route inserted for a group that another handler was about to create
  named a model its trigger had not looked at: the model had the trigger look at the row as
  it would be after the foreign keys. In Postgres it is the row as it is given.

**Only model-checked.** The twelve liveness properties: fairness and ENABLED are out of the
prover's reach. Both properties of `ProjectAccess` are among them, so that module has no
theorem; its `TypeOK` is not the invariant of a run either. `ConnectionsReturned` is violated.

## 15. Not modelled

- **Pure decisions and transformations:** the authorization table (`internal/authz/`, a
  function of role, scope and path that its tests enumerate), the translation of bodies and
  headers between providers, identities and models named in them, reassembly of logged
  streams, suggestions for a misspelt model, prices and savings.
- **Reads:** listings, usage queries, charts, the analysis of utilization. They change
  nothing and no handler decides by them.
- **Single statements:** notifications, last-used stamps, a user's profile and status.
- **Libraries and external services:** sessions, JWT and OIDC, AES, the token sources of
  Vertex, HTTP clients, the object store, the payment service's own state. What the
  code sees of them is an arbitrary outcome of the step that calls them.
- **Code that nothing reaches:** handlers that `internal/admin/routes.go` no longer mounts,
  their operations having moved to `internal/api/admin/v1/`: those of
  `handle_extra_usage.go` other than the delivery of a top-up, the writes of
  `handle_models.go`, `handle_plans.go` and `handle_notifications.go`, `handle_auth.go`, and
  the listing handlers of `handle_projects.go`.
- **One-off data migrations,** and several projects in one tick of the expiry job: the
  tick walks them one after the other and stops at the first error, which `SweepRolledBack`
  shows for one.
- **Aliases of models and request kinds** in `RoutingConfig`, as said there; the uniqueness
  of aliases is guarded by triggers with the same race as names.
- **The browser user interface, the nginx gateway and scripts.**

## 16. Running

In this directory: `tlc -config ExtraUsageWallet.cfg MCExtraUsageWallet`, and likewise
for the other configurations (the module is named in `PROJECT.json`);
`tlapm ExtraUsageWallet_proofs.tla` and likewise for the other seven modules of proofs,
each of which takes one or two minutes.

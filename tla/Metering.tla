------------------------------- MODULE Metering -------------------------------
(***************************************************************************)
(* What a request goes through on its way to an upstream and what is       *)
(* written down about it afterwards: the trace, the eligibility for the    *)
(* plan, the rate limits over cached sums, the quota of the user, the      *)
(* extra-usage guard, the row inserted as processing, and after the answer *)
(* the settlement, the completion of the row or an event of the collector, *)
(* the counters and the invalidation of the caches, and the HTTP log.      *)
(*                                                                         *)
(* One project with one key and one user.  A step is one statement or one  *)
(* visit of memory that requests share.  The upstream, which               *)
(* RequestExecution models, answers or does not; the wallet, which         *)
(* ExtraUsageWallet models, approves or refuses.                           *)
(***************************************************************************)
EXTENDS Background

CONSTANTS
  Kinds,        \* what each of the requests may be, of Kind
  Costs,        \* credits an answer may come to
  Rules,        \* credit rules of the plan, in order: scope and max
  Quota,        \* credits of a window the user may use
  ClassicMax    \* requests per minute

ASSUME RequestAssumption == Request \subseteq Nat   \* numbered as they arrive
ASSUME RuleAssumption ==
  /\ Costs \subseteq Nat /\ Quota \in Nat /\ ClassicMax \in Nat
  /\ Rules \in Seq([scope : {"key", "project"}, max : Nat])

ASSUME FiniteAssumption == IsFiniteSet(Request)     \* the rows of a table are

VARIABLES
  req,          \* the requests
  writer,       \* the goroutine that writes the row of a request
  cache,        \* creditCache, by scope
  minute        \* the requests the classic counters hold

vars == <<bvars, req, writer, cache, minute>>

----------------------------------------------------------------------------
(* State.                                                                  *)

\* A message or the like, one of a client that may not use the plan, one of
\* the Gemini API, an edit of an image, or count_tokens.
Kind  == {"messages", "restricted", "gemini", "images", "probe"}
Scope == {"key", "project", "user"}
Miss  == -1

ASSUME KindAssumption == Kinds \in [Request -> SUBSET Kind]

\* rule: the credit rule that is looked at.  sum: what the database has told.
\* hit: a credit limit has been reached.  extra: the guard has approved.
\* id: the row it goes on with is known.
Req == [at : {"idle", "rule", "sum", "set", "classic", "quota", "quota sum", "quota set", "guard",
              "upstream", "done"},
        kind : Kind, rule : Nat, sum : Nat, hit : BOOLEAN, extra : BOOLEAN,
        id : BOOLEAN, credits : Nat]
Idle == [at |-> "idle", kind |-> "messages", rule |-> 1, sum |-> 0, hit |-> FALSE, extra |-> FALSE,
         id |-> FALSE, credits |-> 0]

\* What a goroutine is about to write.
Writer == {"none", "rejected", "done", "error"}

Init ==
  /\ BackgroundInit
  /\ req = [r \in Request |-> Idle]
  /\ writer = [r \in Request |-> "none"]
  /\ cache = [s \in Scope |-> Miss]
  /\ minute = 0

Goto(r, label) == req' = [req EXCEPT ![r].at = label]

\* What is left of a request is what was billed for it.
Finish(r, credits) ==
  req' = [req EXCEPT ![r] = [Idle EXCEPT !.at = "done", !.extra = req[r].extra, !.credits = credits]]

Go(r, what)    == writer' = [writer EXCEPT ![r] = what]

\* A handler goes on whatever main does, until the process ends.
At(r, label) == Running /\ req[r].at = label

limits == <<cache, minute>>
rest   == <<row, late, queues, now, lost>>

----------------------------------------------------------------------------
(* The middlewares.                                                        *)

\* SubscriptionEligibilityMiddleware: of the client and the model it asks for.
Eligible(kind) == kind # "restricted"

\* TraceMiddleware and what it derives from the request: a trace that cannot
\* be inserted, as one the database refuses, does not stop it.
Arrive(r) ==
  /\ phase = "serving" /\ req[r].at = "idle"
  /\ \A q \in Request : q < r => req[q].at # "idle"
  /\ \E kind \in Kinds[r] :
       req' = [req EXCEPT ![r] = [Idle EXCEPT !.kind = kind,
                 !.at = IF Eligible(kind) /\ Rules # <<>> THEN "rule" ELSE "classic"]]
  /\ traced' \in {traced, traced \cup {r}}
  /\ UNCHANGED <<rest, left, writer, limits>>

\* No session can be told from the request, and the deployment requires one.
NoSession(r) ==
  /\ At(r, "idle") /\ phase = "serving"
  /\ \A q \in Request : q < r => req[q].at # "idle"
  /\ Finish(r, 0)
  /\ UNCHANGED <<bvars, writer, limits>>

\* The rules end at the first that is hit; the classic ones are asked anyway.
Decided(q, used) ==
  CASE used >= Rules[q.rule].max -> [q EXCEPT !.at = "classic", !.rule = 1, !.sum = 0, !.hit = TRUE]
    [] q.rule < Len(Rules)       -> [q EXCEPT !.at = "rule", !.rule = q.rule + 1, !.sum = 0]
    [] OTHER                     -> [q EXCEPT !.at = "classic", !.rule = 1, !.sum = 0]

\* PreCheck: cache.Get for the next rule.
CheckRule(r) ==
  LET c == cache[Rules[req[r].rule].scope] IN
  /\ At(r, "rule")
  /\ req' = [req EXCEPT ![r] = IF c = Miss THEN [@ EXCEPT !.at = "sum"] ELSE Decided(@, c)]
  /\ UNCHANGED <<bvars, writer, limits>>

\* The query fails open, past the classic rules.
SumRule(r) ==
  /\ At(r, "sum")
  /\ \/ /\ req' = [req EXCEPT ![r].at = "set",
                               ![r].sum = SumCreditsInWindow(Rules[req[r].rule].scope)]
        /\ UNCHANGED left
     \/ Fail /\ req' = [req EXCEPT ![r].at = "quota", ![r].rule = 1]
  /\ UNCHANGED <<rest, traced, writer, limits>>

\* cache.Set: whatever has been recorded since.
SetRule(r) ==
  /\ At(r, "set")
  /\ cache' = [cache EXCEPT ![Rules[req[r].rule].scope] = req[r].sum]
  /\ req' = [req EXCEPT ![r] = Decided(@, @.sum)]
  /\ UNCHANGED <<bvars, writer, minute>>

\* The row of a request that is turned away, by a goroutine of its own or not.
Reject(r) == Go(r, "rejected")

\* The classic counters, which hold the requests recorded in this minute.
CheckClassic(r) ==
  /\ At(r, "classic")
  /\ IF minute >= ClassicMax
     THEN Finish(r, 0) /\ Reject(r)
     ELSE /\ Goto(r, IF Eligible(req[r].kind) /\ ~req[r].hit THEN "quota" ELSE "guard")
          /\ UNCHANGED writer
  /\ UNCHANGED <<bvars, limits>>

QuotaDecided(r, used) ==
  IF used >= Quota
  THEN Finish(r, 0) /\ Reject(r)
  ELSE req' = [req EXCEPT ![r].at = "guard", ![r].sum = 0] /\ UNCHANGED writer

\* CheckUserQuota, only for what the plan has room for; it fails open too.
CheckUserQuota(r) ==
  /\ At(r, "quota")
  /\ IF cache["user"] = Miss THEN Goto(r, "quota sum") /\ UNCHANGED writer
     ELSE QuotaDecided(r, cache["user"])
  /\ UNCHANGED <<bvars, limits>>

SumQuota(r) ==
  /\ At(r, "quota sum")
  /\ \/ req' = [req EXCEPT ![r].at = "quota set", ![r].sum = SumCreditsInWindow("user")] /\ UNCHANGED left
     \/ Fail /\ Goto(r, "guard")
  /\ UNCHANGED <<rest, traced, writer, limits>>

SetQuota(r) ==
  /\ At(r, "quota set")
  /\ cache' = [cache EXCEPT !["user"] = req[r].sum]
  /\ QuotaDecided(r, req[r].sum)
  /\ UNCHANGED <<bvars, minute>>

\* RateLimitMiddleware has noted why the request needs extra usage, if it does.
Intent(r) == CASE ~Eligible(req[r].kind) -> "client_restriction"
               [] req[r].hit           -> "rate_limited"
               [] OTHER                -> "none"

\* count_tokens passes whatever its intent is.
Guarded(r) == Intent(r) # "none" /\ req[r].kind # "probe"

\* The wallet is off, empty or at its limit, or cannot be read, which leaves
\* no row.
GuardRefuses(r) ==
  /\ At(r, "guard") /\ Guarded(r)
  /\ Finish(r, 0)
  /\ \/ Reject(r) /\ UNCHANGED left
     \/ Fail /\ UNCHANGED writer
  /\ UNCHANGED <<rest, traced, limits>>

----------------------------------------------------------------------------
(* The handler, the upstream and what comes after.                         *)

\* A model that is unknown, disabled or not allowed is answered before the row.
RefuseModel(r) ==
  /\ At(r, "guard")
  /\ Finish(r, 0)
  /\ UNCHANGED <<bvars, writer, limits>>

\* The guard has approved, if it was asked, and the pending row is inserted:
\* it is there and known, is there and its answer is lost, or is not there.
InsertPending(r) ==
  LET sent(id) == req' = [req EXCEPT ![r].at = "upstream", ![r].extra = Guarded(r), ![r].id = id]
  IN /\ At(r, "guard")
     /\ \/ /\ Insertable(r)
           /\ CreateRequest(r, "processing")
           /\ \/ sent(TRUE) /\ UNCHANGED left
              \/ sent(FALSE) /\ Fail
        \/ /\ IF Insertable(r) THEN Fail ELSE UNCHANGED left
           /\ sent(FALSE) /\ UNCHANGED row
     /\ UNCHANGED <<late, traced, queues, now, lost, writer, limits>>

HandleProxyRequest(r) == req[r].kind \in {"messages", "restricted"} /\ InsertPending(r)
HandleGemini(r)       == req[r].kind = "gemini" /\ InsertPending(r)
HandleImagesEdits(r)  == req[r].kind = "images" /\ InsertPending(r)
HandleCountTokens(r)  == req[r].kind = "probe" /\ InsertPending(r)

\* Only handleProxyRequest turns the HTTP log on, for some publishers.
HttpLogEnabled(r) == req[r].kind \in {"messages", "restricted"}

\* finalizeEarlyError writes to the row it knows, if any.
Failed(r) ==
  /\ At(r, "upstream")
  /\ Finish(r, 0)
  /\ IF req[r].id THEN Go(r, "error") ELSE UNCHANGED writer
  /\ UNCHANGED <<bvars, limits>>

\* Fault: a row that is known is completed, and the event recorded as well.
RecordAnswerTwice(r, c) ==
  /\ IF req[r].id THEN Go(r, "done") ELSE UNCHANGED writer
  /\ Record(r, c)

\* go CompleteRequest, or the collector for a request without a row.
RecordAnswer(r, c) ==
  IF req[r].id THEN Go(r, "done") /\ UNCHANGED <<events, lost>>
  ELSE Record(r, c) /\ UNCHANGED writer

\* The counters, and the cached sums that are out of date now: the keys of a
\* key's own rules begin with the project, not with the key, and stay.
PostRecord ==
  /\ minute' = IF minute < ClassicMax THEN minute + 1 ELSE minute
  /\ cache' = [s \in Scope |-> IF s = "key" THEN cache[s] ELSE Miss]

\* The answer has been read and comes to c credits; the wallet has been debited
\* if the guard has approved.  A panic on the collector's closed channel ends
\* the handler there.
AnsweredWith(r, c) ==
  /\ Finish(r, c)
  /\ RecordAnswer(r, c)
  /\ IF ~req[r].id /\ EventsClosed THEN UNCHANGED limits ELSE PostRecord
  /\ \/ HttpLogEnabled(r) /\ req[r].id /\ Enqueue(r)
     \/ UNCHANGED logs
  /\ UNCHANGED <<records, batch, running, phase, now, left>>

\* An answer to count_tokens has no usage.
Answered(r) ==
  /\ At(r, "upstream") /\ req[r].kind # "images"
  /\ \E c \in IF req[r].kind = "probe" THEN {0} ELSE Costs : AnsweredWith(r, c)

\* Images may come without usage: nothing is billed, and the request counts.
ImageUsage == Costs \cup {0}

ImageAnswered(r) ==
  /\ At(r, "upstream") /\ req[r].kind = "images"
  /\ \E c \in ImageUsage : AnsweredWith(r, c)

\* The goroutine of CreateRequest or CompleteRequest: a failure is logged.
Write(r) ==
  /\ Running /\ writer[r] # "none"
  /\ \/ /\ IF writer[r] = "rejected"
           THEN IF Insertable(r) THEN CreateRequest(r, "rejected") ELSE UNCHANGED row
           ELSE CompleteRequest(r, writer[r], req[r].credits, req[r].extra)
        /\ UNCHANGED <<left, lost>>
     \/ /\ Fail /\ UNCHANGED row
        /\ lost' = IF writer[r] = "done" THEN lost \cup {r} ELSE lost
  /\ Go(r, "none")
  /\ UNCHANGED <<late, traced, queues, now, req, limits>>

----------------------------------------------------------------------------
(* Time.                                                                   *)

\* Fault: what is cached stays.
ExpireNever(s) == FALSE /\ UNCHANGED vars

\* The entry is older than ten seconds.
Expire(s) ==
  /\ Running /\ cache[s] # Miss
  /\ cache' = [cache EXCEPT ![s] = Miss]
  /\ UNCHANGED <<bvars, req, writer, minute>>

\* The classic counters look back a minute.
MinutePasses ==
  /\ Running /\ minute > 0
  /\ minute' = 0
  /\ UNCHANGED <<bvars, req, writer, cache>>

\* Credits that are still to be written when the process ends.
Unfinished == {r \in Request : writer[r] = "done"}

----------------------------------------------------------------------------
(* The system.                                                             *)

Handle(r) ==
  \/ CheckRule(r) \/ SumRule(r) \/ SetRule(r) \/ CheckClassic(r)
  \/ CheckUserQuota(r) \/ SumQuota(r) \/ SetQuota(r)
  \/ GuardRefuses(r) \/ RefuseModel(r)
  \/ HandleProxyRequest(r) \/ HandleGemini(r) \/ HandleImagesEdits(r) \/ HandleCountTokens(r)
  \/ Failed(r) \/ Answered(r) \/ ImageAnswered(r)

Behind == Receive \/ Flush \/ RunReturns \/ Upload \/ LoggerStopped \/ Exit(Unfinished)

Next ==
  \/ \E r \in Request : Arrive(r) \/ NoSession(r) \/ Handle(r) \/ Write(r)
  \/ \E s \in Scope : Expire(s)
  \/ MinutePasses
  \/ (Behind \/ Shutdown \/ Rollover) /\ UNCHANGED <<req, writer, limits>>

Spec == Init /\ [][Next]_vars

\* Goroutines run on, and entries grow old.  Every one of them would be
\* treated fairly; that some of each kind moves is all that is needed.
Fairness ==
  /\ WF_vars(\E r \in Request : Handle(r) \/ Write(r))
  /\ WF_vars(\E s \in Scope : Expire(s))
  /\ WF_vars(Behind /\ UNCHANGED <<req, writer, limits>>)

FairSpec == Spec /\ Fairness

----------------------------------------------------------------------------
(* Properties.                                                             *)

\* The types of the variables.
TypeOK ==
  /\ row \in [Request -> Row] /\ late \in [Request -> Row]
  /\ traced \subseteq Request
  /\ now \in 0..LastWindow
  /\ events \in Seq(Event) /\ batch \in Seq(Event) /\ running \in BOOLEAN
  /\ logs \in Seq(Request)
  /\ phase \in Phase
  /\ lost \subseteq Request
  /\ req \in [Request -> Req]
  /\ writer \in [Request -> Writer]
  /\ cache \in [Scope -> Nat \cup {Miss}]
  /\ minute \in 0..ClassicMax
  /\ left \in 0..Budget

\* No request is counted twice, though it may have two rows: the one whose
\* insert was committed and not answered, and the collector's.
CountedOnce ==
  \A r \in Request : row[r].credits + late[r].credits <= req[r].credits

\* The credits of every answer are in a row or on their way to one, by the
\* goroutine that completes it or in the collector's channel or batch, unless
\* a fault, a full buffer or the exit is to blame; when the process has ended
\* nothing is on its way any more.
OnTheWay(r) == \/ writer[r] = "done"
               \/ \E i \in DOMAIN events : events[i].request = r
               \/ r \in Batched

AnswersAreCounted ==
  \A r \in Request :
    req[r].credits > 0 => \/ row[r].status = "done" \/ late[r].status = "done"
                          \/ r \in lost
                          \/ Running /\ OnTheWay(r)

\* The credits of a window that were used up by the plan, or that the
\* collector has written without saying who paid.
ByPlan(w)   == [r \in Request |-> IF ~req[r].extra /\ row[r].window = w THEN row[r].credits ELSE 0]
ByAnyone(w) == [r \in Request |-> IF late[r].window = w THEN late[r].credits ELSE 0]
PlanCredits(w) == SumFunction(ByPlan(w)) + SumFunction(ByAnyone(w))

\* A request is sent to the wallet as rate limited only if the plan has been
\* used up in this window or in one before, when the sum was cached.
LimitedOnlyWhenUsedUp ==
  \A r \in Request :
    req[r].hit => \E i \in DOMAIN Rules, w \in 0..now : PlanCredits(w) >= Rules[i].max

\* A sum that is out of date, because it was read before the last write, or
\* because a window has begun, is not gone by for ever: when no more requests
\* come, what is cached is right, also for the key, whose sums PostRecord
\* leaves where they are.
SumsSettle ==
  <>[](phase # "exited" => \A s \in Scope : cache[s] \in {Miss, SumCreditsInWindow(s)})

----------------------------------------------------------------------------
(* Why no request is counted twice or left out: the inductive invariant.   *)
(* The values of the sums play no part in it.                              *)

\* What the variables are, but for the sums.
Shape ==
  /\ row \in [Request -> Row] /\ late \in [Request -> Row]
  /\ events \in Seq(Event) /\ batch \in Seq(Event) /\ logs \in Seq(Request)
  /\ writer \in [Request -> Writer]
  /\ lost \subseteq Request
  /\ phase \in Phase /\ running \in BOOLEAN
  /\ now \in Nat
  /\ DOMAIN req = Request
  /\ \A r \in Request : /\ DOMAIN req[r] = DOMAIN Idle /\ req[r].credits \in Nat
                        /\ req[r].id \in BOOLEAN /\ req[r].extra \in BOOLEAN

\* The collector has the answer, or has written it.
Collected(r) == \/ \E i \in DOMAIN events : events[i].request = r
                \/ \E i \in DOMAIN batch : batch[i].request = r
                \/ late[r].status # "none"

\* The goroutine of the request has the answer, or has written it.
Completed(r) == writer[r] = "done" \/ row[r].status = "done"

\* An answer goes one of the two ways, as it is, and only after it was read.
OneWay(r) ==
  /\ ~(Collected(r) /\ Completed(r))
  /\ req[r].at # "done" => /\ ~Collected(r) /\ ~Completed(r)
                           /\ writer[r] = "none" /\ req[r].credits = 0
  /\ row[r].status = "done" => writer[r] = "none"
  /\ writer[r] \in {"rejected", "error"} => req[r].credits = 0
  /\ row[r].credits = IF row[r].status = "done" THEN req[r].credits ELSE 0
  /\ late[r].status \in {"none", "done"}
  /\ late[r].credits = IF late[r].status = "done" THEN req[r].credits ELSE 0

\* The collector has the credits as they were billed.
AsBilled(queue) == \A i \in DOMAIN queue : queue[i].credits = req[queue[i].request].credits

\* The collector's goroutine returns when nothing can come any more.
Drained == ~running => EventsClosed /\ events = <<>> /\ batch = <<>>

IInv ==
  /\ Shape
  /\ \A r \in Request : OneWay(r)
  /\ AsBilled(events) /\ AsBilled(batch)
  /\ Drained
  /\ phase = "exited" => ~running
  /\ AnswersAreCounted

----------------------------------------------------------------------------
(* Why no request is sent to the wallet while the plan has room.           *)

\* What a sum has been told, cached or not: what was there in some window.
SoFar(sum) == \E w \in 0..now : sum <= PlanCredits(w)

\* A request is looked up by a rule that is there, and what it is told is so.
Told(r) ==
  /\ req[r].sum \in Nat /\ SoFar(req[r].sum)
  /\ req[r].at \in {"rule", "sum", "set"} => req[r].rule \in DOMAIN Rules

\* A row with credits says who has paid them, and the collector's says nobody.
SaysWhoPaid(r) == /\ row[r].credits > 0 => row[r].extra = req[r].extra
                  /\ ~late[r].extra

\* What the collector still has is there once, and in no row.
QueuedOnce ==
  /\ \A i \in DOMAIN events :
       /\ late[events[i].request].status = "none" /\ events[i].request \notin Batched
       /\ \A j \in DOMAIN events : events[j].request = events[i].request => i = j
  /\ \A r \in Batched : late[r].status = "none"

SInv ==
  /\ cache \in [Scope -> Nat \cup {Miss}] /\ \A s \in Scope : SoFar(cache[s])
  /\ \A r \in Request : Told(r) /\ SaysWhoPaid(r)
  /\ QueuedOnce
  /\ LimitedOnlyWhenUsedUp
============================================================================

------------------------------ MODULE Background ------------------------------
(***************************************************************************)
(* The request rows and the two queues that fill them in the background:   *)
(* the collector, which inserts in batches what could not be written to a  *)
(* row of its own, and the HTTP log, which uploads bodies and notes their  *)
(* path on the row.  Both are bounded channels that are closed when the    *)
(* process shuts down; main returns as soon as the server stops listening, *)
(* while handlers may still be running.                                    *)
(*                                                                         *)
(* Costs are whole credits, the SQL of a row is reduced to what the sums   *)
(* of the rate limiter and the foreign key on the trace look at.           *)
(***************************************************************************)
EXTENDS Integers, Sequences, FiniteSetsExt

CONSTANTS
  Request,      \* requests
  BufferSize,   \* capacity of the collector's channel
  BatchSize,    \* events per batch
  LogBuffer,    \* capacity of the HTTP log's channel
  LastWindow,   \* bound on the number of windows that follow the first
  Budget        \* bound on the statements and uploads that fail

ASSUME SizeAssumption ==
  /\ BufferSize \in Nat \ {0} /\ BatchSize \in Nat \ {0} /\ LogBuffer \in Nat
  /\ LastWindow \in Nat /\ Budget \in Nat

VARIABLES
  row,          \* requests: the row the handler inserts as processing
  late,         \* requests: the row the collector inserts
  traced,       \* requests whose trace has its row
  now,          \* the window of the rate limits
  events,       \* the channel of the collector
  batch,        \* the batch of its goroutine
  running,      \* its goroutine has not returned
  logs,         \* the channel of the HTTP log
  phase,        \* how far main is
  lost,         \* requests whose credits a fault has lost
  left          \* what is left of Budget

records == <<row, late, traced>>
queues  == <<events, batch, running, logs, phase>>
bvars   == <<records, queues, now, lost, left>>

----------------------------------------------------------------------------
(* State.                                                                  *)

\* extra: is_extra_usage.  owned: created_by is there.  window: created_at.
Row   == [status : {"none", "processing", "done", "error", "rejected"}, credits : Nat,
          extra : BOOLEAN, owned : BOOLEAN, window : Nat, logged : BOOLEAN]
NoRow == [status |-> "none", credits |-> 0, extra |-> FALSE, owned |-> FALSE,
          window |-> 0, logged |-> FALSE]

\* An event of the collector.
Event == [request : Request, credits : Nat]

\* The deferred calls of main: the HTTP log is stopped before the collector.
Phase == {"serving", "logs", "events", "exited"}

Running      == phase # "exited"
LogsClosed   == phase # "serving"
EventsClosed == phase \in {"events", "exited"}

BackgroundInit ==
  /\ row = [r \in Request |-> NoRow] /\ late = [r \in Request |-> NoRow]
  /\ traced = {}
  /\ now = 0
  /\ events = <<>> /\ batch = <<>> /\ running = TRUE
  /\ logs = <<>>
  /\ phase = "serving"
  /\ lost = {}
  /\ left = Budget

\* A statement fails, or its answer is lost.
Fail == left > 0 /\ left' = left - 1

----------------------------------------------------------------------------
(* The statements.                                                         *)

\* The foreign key on requests.trace_id.
Insertable(r) == r \in traced

\* CreateRequest, of the row a handler goes on with or of a rejection.
CreateRequest(r, status) ==
  row' = [row EXCEPT ![r] = [NoRow EXCEPT !.status = status, !.owned = TRUE, !.window = now]]

\* CompleteRequest: by id, whatever the status.
CompleteRequest(r, status, credits, extra) ==
  row' = [row EXCEPT ![r].status = status, ![r].credits = credits, ![r].extra = extra]

\* BatchCreateRequests: is_extra_usage is not among its columns, an event has
\* no created_by, and the row is of the time it is inserted.
LateRow(e) == [NoRow EXCEPT !.status = "done", !.credits = e.credits, !.window = now]

\* The sums the limits go by leave out what was billed to the wallet.
Counts(w, scope) == w.status # "none" /\ ~w.extra /\ w.window = now /\ (scope = "user" => w.owned)

Credits(rows, scope) ==
  SumFunctionOnSet([r \in Request |-> rows[r].credits], {r \in Request : Counts(rows[r], scope)})

\* Fault: the requests billed to the wallet are in the sum.
SumCreditsInWindowAll(scope) ==
  LET open(rows) == [r \in Request |-> [rows[r] EXCEPT !.extra = FALSE]]
  IN Credits(open(row), scope) + Credits(open(late), scope)

SumCreditsInWindow(scope) == Credits(row, scope) + Credits(late, scope)

----------------------------------------------------------------------------
(* The collector.                                                          *)

\* Record does not block.  Closed, the channel panics and the caller with it.
Record(r, credits) ==
  LET fits == ~EventsClosed /\ Len(events) < BufferSize IN
  /\ events' = IF fits THEN Append(events, [request |-> r, credits |-> credits]) ELSE events
  /\ lost' = IF fits THEN lost ELSE lost \cup {r}

Receive ==
  /\ running /\ events # <<>> /\ Len(batch) < BatchSize
  /\ batch' = Append(batch, Head(events))
  /\ events' = Tail(events)
  /\ UNCHANGED <<records, now, running, logs, phase, lost, left>>

Batched == {batch[i].request : i \in DOMAIN batch}

\* One transaction: an event that cannot be inserted takes the others with it.
FlushCommits ==
  /\ Batched \subseteq traced
  /\ late' = [r \in Request |->
               IF r \in Batched THEN LateRow(batch[CHOOSE i \in DOMAIN batch : batch[i].request = r])
               ELSE late[r]]
  /\ UNCHANGED <<lost, left>>

FlushFails ==
  /\ Batched \subseteq traced => left > 0
  /\ left' = IF Batched \subseteq traced THEN left - 1 ELSE left
  /\ lost' = lost \cup Batched
  /\ UNCHANGED late

\* flush, when the batch is full, at a tick of the ticker, or at the end.
Flush ==
  /\ running /\ batch # <<>>
  /\ FlushCommits \/ FlushFails
  /\ batch' = <<>>
  /\ UNCHANGED <<row, traced, now, events, running, logs, phase>>

\* Fault: what is in the batch when the channel is closed is forgotten.
RunReturnsAtOnce ==
  /\ running /\ EventsClosed /\ events = <<>>
  /\ running' = FALSE /\ batch' = <<>>
  /\ UNCHANGED <<records, now, events, logs, phase, lost, left>>

\* The channel is closed and empty, and the last batch has been flushed.
RunReturns ==
  /\ running /\ EventsClosed /\ events = <<>> /\ batch = <<>>
  /\ running' = FALSE
  /\ UNCHANGED <<records, now, events, batch, logs, phase, lost, left>>

----------------------------------------------------------------------------
(* The HTTP log.                                                           *)

\* Enqueue does not block either, and panics when the channel is closed.
Enqueue(r) == logs' = IF ~LogsClosed /\ Len(logs) < LogBuffer THEN Append(logs, r) ELSE logs

\* upload, and UpdateHttpLogPath when it has gone through.
Upload ==
  /\ logs # <<>>
  /\ \/ row' = [row EXCEPT ![Head(logs)].logged = TRUE] /\ UNCHANGED left
     \/ Fail /\ UNCHANGED row
  /\ logs' = Tail(logs)
  /\ UNCHANGED <<late, traced, now, events, batch, running, phase, lost>>

----------------------------------------------------------------------------
(* main: Shutdown, the deferred calls in their order, and the exit.        *)

Shutdown ==
  /\ phase = "serving"
  /\ phase' = "logs"
  /\ UNCHANGED <<records, now, events, batch, running, logs, lost, left>>

\* Logger.Stop has waited for its workers; Collector.Stop closes the channel.
LoggerStopped ==
  /\ phase = "logs" /\ logs = <<>>
  /\ phase' = "events"
  /\ UNCHANGED <<records, now, events, batch, running, logs, lost, left>>

\* Collector.Stop has waited for its goroutine; what still runs ends with
\* the process.
Exit(unfinished) ==
  /\ phase = "events" /\ ~running
  /\ phase' = "exited"
  /\ lost' = lost \cup unfinished
  /\ UNCHANGED <<records, now, events, batch, running, logs, left>>

\* A window begins.
Rollover ==
  /\ now < LastWindow
  /\ now' = now + 1
  /\ UNCHANGED <<records, queues, lost, left>>
============================================================================

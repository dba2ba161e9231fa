----------------------------- MODULE StreamRelay -----------------------------
(***************************************************************************)
(* How one streamed answer gets from an upstream to a client: the probe of *)
(* a Codex answer, the idle watchdog, the interceptor that looks for the   *)
(* usage, the tee of the HTTP log, the copy loop, and the keepalive writer *)
(* that shares the client's connection with it.                            *)
(*                                                                         *)
(* The handler runs in one goroutine; the watchdog's timer and the         *)
(* heartbeat's timer each start goroutines of their own.  A step of the    *)
(* handler is one Read, one Write or one Close, and a Write begins and     *)
(* ends in steps of its own, because the client may be slow.  A timer may  *)
(* fire at any time while it is armed.                                     *)
(*                                                                         *)
(* An answer is a sequence of events; a Read hands out one of them.  What  *)
(* the code tells apart of an event is its kind:                           *)
(*   meta      no generated output        final   the end, with the usage  *)
(*   output    generated output           error   an error without usage   *)
(*   overload  a failure that names the model as being at capacity         *)
(***************************************************************************)
EXTENDS Naturals, Sequences

CONSTANTS
  Formats,       \* formats of the answers: a subset of Format
  Serials,       \* how many answers one behaviour has at most
  MaxEvents,     \* bound on the events of one answer
  ProbeLimit,    \* codexCapacityProbeMaxBytes, in events
  RestoreLimit,  \* bytes of a refused answer that are kept, in events
  TeeLimit,      \* MaxResponseBody of the HTTP log, in events
  MaxBeats       \* bound on heartbeat goroutines that wait for the mutex

Kind   == {"meta", "output", "final", "error", "overload"}
Format == {"messages", "responses", "codex", "socket"}
Error  == {"none", "eof", "broken", "idle", "write"}

ASSUME RelayAssumption ==
  /\ Formats \subseteq Format
  /\ {Serials, MaxEvents, ProbeLimit, RestoreLimit, TeeLimit, MaxBeats} \subseteq Nat \ {0}

VARIABLES
  format,    \* messages stands for every format whose interceptor always finishes
  at,        \* where the handler is
  serial,    \* number of the answer: of the upstream tried, or of the turn
  made,      \* events the upstream has sent, for each answer
  body,      \* the upstream's body as the gateway sees it
  dog,       \* idleTimeoutReader
  seen,      \* events the interceptor has read
  chunk,     \* what the copy loop has in hand: an event and an error
  keep,      \* keepaliveWriter
  client,    \* "here" or "gone"
  got,       \* events the client has received
  cut,       \* interruptErr
  outcomes,  \* what completeStreamingRequest has recorded
  logged     \* records handed to the HTTP log

relayVars == <<format, at, serial, made, body, dog, seen, chunk, keep, client, got, cut,
               outcomes, logged>>

----------------------------------------------------------------------------
(* State.                                                                  *)

Nothing == [of |-> 0, kind |-> "none"]   \* no event

\* replay and pending are what the probe has consumed; rest is FALSE if only
\* they can still be read; saturated if a refusal is the answer.  unread is on
\* its way, end is how it ends.
NoBody  == [replay |-> <<>>, pending |-> "none", rest |-> TRUE, saturated |-> FALSE,
            unread |-> <<>>, end |-> "open", closed |-> FALSE]
NoDog   == [timer |-> FALSE, goroutine |-> "none", tripped |-> FALSE]
NoKeep  == [timer |-> FALSE, waiting |-> 0, mutex |-> "free", closed |-> FALSE]
NoChunk == [event |-> Nothing, error |-> "none"]

RelayInit ==
  /\ format \in Formats
  /\ serial = 1
  /\ made = [i \in 1..Serials |-> <<>>]
  /\ body = NoBody /\ dog = NoDog /\ keep = NoKeep /\ chunk = NoChunk
  /\ seen = <<>> /\ got = <<>> /\ outcomes = <<>> /\ logged = <<>>
  /\ client = "here" /\ cut = "none"

Event(kind) == [of |-> serial, kind |-> kind]
Overloads(event) == event.kind = "overload"
Terminal(kind) == kind \in {"final", "error", "overload"}
Kinds(events) == {events[i].kind : i \in 1..Len(events)}

Goto(label) == at' = label

----------------------------------------------------------------------------
(* The upstream and the client.                                            *)

Streaming == format # "socket" /\ at # "call" /\ body.end = "open" /\ ~body.closed

Produce(kind) ==
  /\ Streaming
  /\ Len(made[serial]) < MaxEvents
  /\ \A k \in Kinds(made[serial]) : ~Terminal(k)
  /\ made' = [made EXCEPT ![serial] = Append(@, Event(kind))]
  /\ body' = [body EXCEPT !.unread = Append(@, Event(kind))]
  /\ UNCHANGED <<format, at, serial, dog, seen, chunk, keep, client, got, cut, outcomes, logged>>

BodyEnds(end) ==
  /\ Streaming
  /\ body' = [body EXCEPT !.end = end]
  /\ UNCHANGED <<format, at, serial, made, dog, seen, chunk, keep, client, got, cut, outcomes, logged>>

\* The context of the request is cancelled with it.
ClientLeaves ==
  /\ client = "here"
  /\ client' = "gone"
  /\ UNCHANGED <<format, at, serial, made, body, dog, seen, chunk, keep, got, cut, outcomes, logged>>

----------------------------------------------------------------------------
(* idleTimeoutReader.                                                      *)

\* Fault: the watchdog notes the timeout and leaves the body open.
DogTripsOnly ==
  /\ dog.goroutine = "locking"
  /\ dog' = [dog EXCEPT !.goroutine = "none", !.tripped = TRUE]
  /\ UNCHANGED <<format, at, serial, made, body, seen, chunk, keep, client, got, cut, outcomes, logged>>

DogFires ==
  /\ dog.timer /\ dog.goroutine = "none"
  /\ dog' = [dog EXCEPT !.timer = FALSE, !.goroutine = "locking"]
  /\ UNCHANGED <<format, at, serial, made, body, seen, chunk, keep, client, got, cut, outcomes, logged>>

DogTrips ==
  /\ dog.goroutine = "locking"
  /\ dog' = [dog EXCEPT !.goroutine = IF dog.tripped THEN "none" ELSE "closing", !.tripped = TRUE]
  /\ UNCHANGED <<format, at, serial, made, body, seen, chunk, keep, client, got, cut, outcomes, logged>>

DogCloses ==
  /\ dog.goroutine = "closing"
  /\ dog' = [dog EXCEPT !.goroutine = "none"]
  /\ body' = [body EXCEPT !.closed = TRUE]
  /\ UNCHANGED <<format, at, serial, made, seen, chunk, keep, client, got, cut, outcomes, logged>>

\* What a Read of the upstream's body, or of the adapter that turns a Bedrock
\* event stream into events, may return: an event, an event together with the
\* end, or an error.  Nothing is returned while nothing has come.
Reads ==
  (IF body.unread # <<>> /\ ~body.closed
   THEN {[event |-> Head(body.unread), error |-> "none"]} ELSE {})
  \cup (IF Len(body.unread) = 1 /\ ~body.closed /\ body.end = "eof"
        THEN {[event |-> Head(body.unread), error |-> "eof"]} ELSE {})
  \cup (IF body.unread = <<>> /\ ~body.closed /\ body.end = "eof"
        THEN {[event |-> Nothing, error |-> "eof"]} ELSE {})
  \cup (IF body.closed \/ body.end = "broken" \/ client = "gone"
        THEN {[event |-> Nothing, error |-> "broken"]} ELSE {})

\* The watchdog's Read: its error takes precedence once it has tripped.
Watched(read) == IF dog.tripped THEN [read EXCEPT !.error = "idle"] ELSE read

\* What a Read leaves behind; an event in time starts the timer anew.
Taken(read)  == IF read.event = Nothing THEN body ELSE [body EXCEPT !.unread = Tail(@)]
Petted(read) == IF read.event = Nothing \/ dog.tripped THEN dog ELSE [dog EXCEPT !.timer = TRUE]

----------------------------------------------------------------------------
(* probeCodexCapacityStream, before anything is sent to the client.        *)

\* An answer arrives.  A Codex answer is probed under the watchdog.
Answer ==
  /\ at = "call"
  /\ dog' = [dog EXCEPT !.timer = format = "codex"]
  /\ Goto(IF format = "codex" THEN "probe" ELSE "commit")
  /\ UNCHANGED <<format, serial, made, body, seen, chunk, keep, client, got, cut, outcomes, logged>>

\* Fault: generated output does not end the look-ahead.
AllowsCommitTerminal(kind) == kind \in {"final", "error"}

\* codexStreamEventAllowsCommit.
AllowsCommit(kind) == kind \in {"output", "final", "error"}

\* The events held back, with the one just read.
Held(read) == IF read.event = Nothing THEN body.replay ELSE Append(body.replay, read.event)

\* The model is at capacity and nothing has been generated: the body is closed.
ProbeOverload(read) ==
  /\ Overloads(read.event)
  /\ body' = [NoBody EXCEPT !.replay = Held(read), !.rest = FALSE, !.closed = TRUE]
  /\ dog' = NoDog
  /\ Goto("overloaded")

\* The answer has begun: what was read is replayed, then the error that came
\* with it, then the rest.
ProbeCommits(read) ==
  /\ read.event # Nothing /\ AllowsCommit(read.event.kind)
  /\ body' = [Taken(read) EXCEPT !.replay = Held(read), !.pending = read.error]
  /\ dog' = Petted(read)
  /\ Goto("commit")

HeldBack(event) == event # Nothing /\ ~Overloads(event) /\ ~AllowsCommit(event.kind)

\* Too much has been held back; an error that came with it will be read again.
ProbeFull(read) ==
  /\ HeldBack(read.event)
  /\ Len(Held(read)) >= ProbeLimit
  /\ body' = [Taken(read) EXCEPT !.replay = Held(read)]
  /\ dog' = Petted(read)
  /\ Goto("commit")

HoldsBack(read) ==
  \/ read.event = Nothing
  \/ HeldBack(read.event) /\ Len(Held(read)) < ProbeLimit

ProbeGoesOn(read) ==
  /\ HoldsBack(read) /\ read.error = "none"
  /\ body' = [Taken(read) EXCEPT !.replay = Held(read)]
  /\ dog' = Petted(read)
  /\ UNCHANGED at

\* The body has ended before anything was generated.
ProbeFails(read) ==
  /\ HoldsBack(read) /\ read.error # "none"
  /\ IF read.error = "eof"
       THEN /\ body' = [NoBody EXCEPT !.replay = Held(read), !.rest = FALSE, !.closed = TRUE]
            /\ dog' = NoDog
       ELSE /\ body' = [Taken(read) EXCEPT !.replay = Held(read), !.pending = read.error]
            /\ dog' = Petted(read)
  /\ Goto("commit")

Probe ==
  /\ at = "probe"
  /\ \E r \in Reads :
       LET read == Watched(r)
       IN  \/ ProbeOverload(read) \/ ProbeCommits(read) \/ ProbeFull(read)
           \/ ProbeGoesOn(read) \/ ProbeFails(read)
  /\ UNCHANGED <<format, serial, made, seen, chunk, keep, client, got, cut, outcomes, logged>>

\* Another upstream is tried ...
TryNext ==
  /\ at = "overloaded"
  /\ serial < Serials
  /\ serial' = serial + 1
  /\ body' = NoBody
  /\ Goto("call")
  /\ UNCHANGED <<format, made, dog, seen, chunk, keep, client, got, cut, outcomes, logged>>

\* ... or there is none, and the refusal is the answer, as far as it is kept.
NoneLeft ==
  /\ at = "overloaded"
  /\ body' = [body EXCEPT !.replay = SubSeq(@, 1, IF Len(@) < RestoreLimit THEN Len(@) ELSE RestoreLimit),
                          !.saturated = TRUE]
  /\ Goto("commit")
  /\ UNCHANGED <<format, serial, made, dog, seen, chunk, keep, client, got, cut, outcomes, logged>>

----------------------------------------------------------------------------
(* commitStreamingResponse.                                                *)

\* The watchdog is put under the interceptor unless the probe has done so, and
\* the keepalive starts.
Commit ==
  /\ at = "commit"
  /\ dog' = IF format = "socket" \/ (format = "codex" /\ body.rest) THEN dog
            ELSE [NoDog EXCEPT !.timer = TRUE]
  /\ keep' = [NoKeep EXCEPT !.timer = TRUE]
  /\ Goto("read")
  /\ UNCHANGED <<format, serial, made, body, seen, chunk, client, got, cut, outcomes, logged>>

\* Whether the interceptor of this format calls back, once the stream is over.
CallsBack(events) ==
  \/ format = "messages"
  \/ "final" \in Kinds(events)
  \/ format = "codex" /\ "overload" \in Kinds(events)

\* What the interceptors have counted of the events they have read: the tokens
\* of the input and those of the output.  Messages names the input at the start
\* and the output at the end; the others name both at the end, except that
\* Gemini repeats the counts, and takes those of the last event, whatever it is.
MessagesUsage(events) ==
  {tokens \in {"input", "output"} :
     (IF tokens = "input" THEN "meta" ELSE "final") \in Kinds(events)}

ChatCompletionsUsage(events) ==
  IF "final" \in Kinds(events) THEN {"input", "output"} ELSE {}

\* An event too large for the parser is left out.
ImageUsage(events) == IF "final" \in Kinds(events) THEN {"input", "output"} ELSE {}

GeminiUsage(events) ==
  IF events # <<>> /\ events[Len(events)].kind \in {"output", "final"}
  THEN {"input", "output"} ELSE {}

Usage(events) ==
  [messages |-> MessagesUsage(events), chat |-> ChatCompletionsUsage(events),
   image |-> ImageUsage(events), gemini |-> GeminiUsage(events)]

\* The status completeStreamingRequest gives the request, and what it bills.
Status(events) ==
  IF cut # "none" THEN "interrupted"
  ELSE IF body.saturated \/ (format = "codex" /\ "overload" \in Kinds(events)) THEN "capacity"
  ELSE "success"

Outcome(events) == [status |-> Status(events), usage |-> Usage(events)]

\* Fault: nothing remembers that the stream has been completed.
FinishedAgain(events) ==
  IF CallsBack(events) THEN Append(outcomes, Outcome(events)) ELSE outcomes

\* finish, once.
Finished(events) ==
  IF outcomes = <<>> /\ CallsBack(events) THEN <<Outcome(events)>> ELSE outcomes

\* copyWithFlush: what follows a Read or a Write.
GoOnAfter(error) ==
  /\ Goto(IF error = "none" THEN "read" ELSE "close")
  /\ cut' = IF error \in {"none", "eof"} THEN cut ELSE error

\* The copy loop has read: the interceptor and the tee have seen the event.
Deliver(read) ==
  /\ chunk' = read
  /\ IF read.event = Nothing
       THEN GoOnAfter(read.error) /\ UNCHANGED seen
       ELSE /\ seen' = Append(seen, read.event)
            /\ Goto("write")
            /\ UNCHANGED cut

\* What has been held back comes first.
BodyReads ==
  IF body.replay # <<>>
  THEN LET read == [event |-> Head(body.replay), error |-> "none"]
       IN  {IF body.rest THEN read ELSE Watched(read)}
  ELSE IF body.pending # "none" THEN {[event |-> Nothing, error |-> body.pending]}
  ELSE IF ~body.rest THEN {Watched([event |-> Nothing, error |-> "eof"])}
  ELSE {Watched(read) : read \in Reads}

Read ==
  /\ at = "read" /\ format # "socket"
  /\ \E read \in BodyReads :
       /\ Deliver(read)
       /\ body' = IF body.replay # <<>> THEN [body EXCEPT !.replay = Tail(@)]
                  ELSE IF body.pending # "none" THEN [body EXCEPT !.pending = "none"]
                  ELSE Taken(read)
       /\ dog' = IF body.replay # <<>> \/ body.pending # "none" THEN dog ELSE Petted(read)
       /\ outcomes' = IF read.error = "eof" THEN Finished(seen') ELSE outcomes
  /\ UNCHANGED <<format, serial, made, keep, client, got, logged>>

BeginWrite ==
  /\ at = "write" /\ keep.mutex = "free"
  /\ keep' = [keep EXCEPT !.mutex = "copy"]
  /\ Goto("writing")
  /\ UNCHANGED <<format, serial, made, body, dog, seen, chunk, client, got, cut, outcomes, logged>>

\* The client takes the event, which starts the heartbeat's timer anew ...
Written ==
  /\ at = "writing" /\ client = "here"
  /\ got' = Append(got, chunk.event)
  /\ keep' = [keep EXCEPT !.mutex = "free", !.timer = TRUE]
  /\ GoOnAfter(chunk.error)
  /\ UNCHANGED <<format, serial, made, body, dog, seen, chunk, client, outcomes, logged>>

\* ... or has gone.
WriteFails ==
  /\ at = "writing" /\ client = "gone"
  /\ keep' = [keep EXCEPT !.mutex = "free"]
  /\ GoOnAfter("write")
  /\ UNCHANGED <<format, serial, made, body, dog, seen, chunk, client, got, outcomes, logged>>

\* TeeReadCloser, when it is closed.
Record == [events |-> SubSeq(seen, 1, IF Len(seen) < TeeLimit THEN Len(seen) ELSE TeeLimit),
           truncated |-> Len(seen) > TeeLimit]

\* The interceptor, the watchdog and the body are closed, then the record of the
\* HTTP log is handed over.
CloseStream ==
  /\ at = "close" /\ format # "socket"
  /\ outcomes' = Finished(seen)
  /\ dog' = [dog EXCEPT !.timer = FALSE]
  /\ body' = [body EXCEPT !.closed = TRUE]
  /\ logged' = Append(logged, Record)
  /\ Goto("quiet")
  /\ UNCHANGED <<format, serial, made, seen, chunk, keep, client, got, cut>>

----------------------------------------------------------------------------
(* keepaliveWriter.                                                        *)

\* Close, and the handler returns.
CloseKeepalive ==
  /\ at = "quiet" /\ keep.mutex = "free"
  /\ keep' = [keep EXCEPT !.closed = TRUE, !.timer = FALSE]
  /\ Goto("returned")
  /\ UNCHANGED <<format, serial, made, body, dog, seen, chunk, client, got, cut, outcomes, logged>>

BeatFires ==
  /\ keep.timer /\ keep.waiting < MaxBeats
  /\ keep' = [keep EXCEPT !.timer = FALSE, !.waiting = @ + 1]
  /\ UNCHANGED <<format, at, serial, made, body, dog, seen, chunk, client, got, cut, outcomes, logged>>

BeatLocks ==
  /\ keep.waiting > 0 /\ keep.mutex = "free"
  /\ keep' = [keep EXCEPT !.waiting = @ - 1, !.mutex = IF keep.closed THEN "free" ELSE "beat"]
  /\ UNCHANGED <<format, at, serial, made, body, dog, seen, chunk, client, got, cut, outcomes, logged>>

BeatWritten ==
  /\ keep.mutex = "beat"
  /\ keep' = [keep EXCEPT !.mutex = "free", !.timer = TRUE]
  /\ UNCHANGED <<format, at, serial, made, body, dog, seen, chunk, client, got, cut, outcomes, logged>>

----------------------------------------------------------------------------
Handler ==
  \/ Answer \/ Probe \/ TryNext \/ NoneLeft
  \/ Commit \/ Read \/ BeginWrite \/ Written \/ WriteFails \/ CloseStream \/ CloseKeepalive

Timers == DogFires \/ DogTrips \/ DogCloses \/ BeatFires \/ BeatLocks \/ BeatWritten

Outside ==
  \/ \E kind \in Kind : (kind = "overload" => format = "codex") /\ Produce(kind)
  \/ \E end \in {"eof", "broken"} : BodyEnds(end)
  \/ ClientLeaves
=============================================================================

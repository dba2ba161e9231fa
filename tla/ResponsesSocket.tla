--------------------------- MODULE ResponsesSocket ---------------------------
(***************************************************************************)
(* Responses over WebSocket, on top of the relay.  A client's connection   *)
(* owns one connection to an upstream.  Each response.create is a turn: it *)
(* passes the whole admission chain as a POST would, and its answer goes   *)
(* through commitStreamingResponse with the socket as its body.            *)
(*                                                                         *)
(* For the other formats there is one request, whose answers the relay     *)
(* numbers by the upstreams that are tried; here they are the turns.  The  *)
(* upstream ends the answer to a turn with one terminal event.  The event  *)
(* with the hints of the handshake, and dials that are repeated with       *)
(* another upstream or a new token, are left out.                          *)
(***************************************************************************)
EXTENDS StreamRelay

VARIABLES
  socket,  \* responsesWebsocketSession and responsesWebsocketBody
  inbox,   \* a frame of the client waits for the loop of the handler
  asked,   \* frames the client has sent
  sent     \* how often the request of each turn has been written

socketVars == <<socket, inbox, asked, sent>>
vars == <<relayVars, socketVars>>

\* done and failure are those of the body of this turn.
NoSocket == [conn |-> "none", fatal |-> FALSE, queue |-> <<>>,
             turns |-> 0, done |-> FALSE, failure |-> "none"]

Init ==
  /\ RelayInit
  /\ at = IF format = "socket" THEN "idle" ELSE "call"
  /\ socket = NoSocket
  /\ inbox = FALSE /\ asked = 0
  /\ sent = [i \in 1..Serials |-> 0]

----------------------------------------------------------------------------
(* The client's side.                                                      *)

\* The reading goroutine queues one frame; another is refused with an error.
Ask ==
  /\ format = "socket" /\ at # "over" /\ client = "here"
  /\ asked < Serials
  /\ asked' = asked + 1
  /\ inbox' = TRUE
  /\ UNCHANGED <<relayVars, socket, sent>>

\* A frame that is no response.create is answered with an error.
BadFrame ==
  /\ format = "socket" /\ at = "idle" /\ inbox /\ client = "here"
  /\ inbox' = FALSE
  /\ UNCHANGED <<relayVars, socket, asked, sent>>

\* The next turn begins, with nothing of the last one but the session.
TakeTurn ==
  /\ format = "socket" /\ at = "idle" /\ inbox /\ client = "here"
  /\ inbox' = FALSE
  /\ socket' = [socket EXCEPT !.turns = @ + 1, !.done = FALSE, !.failure = "none"]
  /\ serial' = socket.turns + 1
  /\ Goto("admit")
  /\ body' = NoBody /\ dog' = NoDog /\ keep' = NoKeep /\ chunk' = NoChunk
  /\ seen' = <<>> /\ got' = <<>> /\ outcomes' = <<>> /\ logged' = <<>> /\ cut' = "none"
  /\ UNCHANGED <<format, made, client, asked, sent>>

Admit(label, s) ==
  /\ format = "socket" /\ at = "admit"
  /\ Goto(label)
  /\ socket' = s
  /\ UNCHANGED <<format, serial, made, body, dog, seen, chunk, keep, client, got, cut, outcomes,
                 logged, inbox, asked, sent>>

\* A limit, the catalog or the guard refuses the turn, no upstream speaks the
\* protocol, or the one in use is full.
TurnRefused == Admit("returned", socket)

\* The model has changed, or the configuration of the upstream in use: the
\* connection is given up, so that the client opens another.
TurnMoved == socket.conn # "none" /\ Admit("returned", [socket EXCEPT !.fatal = TRUE])

TurnAdmitted == Admit(IF socket.conn = "none" THEN "dial" ELSE "send", socket)

----------------------------------------------------------------------------
(* roundTrip.                                                              *)

Dialled(label, conn) ==
  /\ at = "dial"
  /\ Goto(label)
  /\ socket' = [socket EXCEPT !.conn = conn]
  /\ UNCHANGED <<format, serial, made, body, dog, seen, chunk, keep, client, got, cut, outcomes,
                 logged, inbox, asked, sent>>

Dial == client = "here" /\ Dialled("send", "open")

\* Nothing has been sent: the session goes on without an upstream.
DialFails == Dialled("returned", "none")

Wrote(label, s) ==
  /\ at = "send"
  /\ sent' = [sent EXCEPT ![serial] = @ + 1]
  /\ socket' = s
  /\ Goto(label)
  /\ UNCHANGED <<format, serial, made, body, dog, seen, chunk, keep, client, got, cut, outcomes,
                 logged, inbox, asked>>

Send == Wrote("commit", socket)

\* The frame may have reached the model: the turn ends as a stream that broke.
SendFails ==
  /\ socket.conn = "dead" \/ client = "gone"
  /\ Wrote("commit", [socket EXCEPT !.done = TRUE, !.failure = "broken", !.fatal = TRUE])

----------------------------------------------------------------------------
(* The upstream's side.                                                    *)

Answering ==
  /\ socket.conn = "open"
  /\ sent[serial] > 0
  /\ \A kind \in Kinds(made[serial]) : ~Terminal(kind)

SocketProduces(kind) ==
  /\ format = "socket" /\ Answering
  /\ Len(made[serial]) < MaxEvents
  /\ made' = [made EXCEPT ![serial] = Append(@, Event(kind))]
  /\ socket' = [socket EXCEPT !.queue = Append(@, Event(kind))]
  /\ UNCHANGED <<format, at, serial, body, dog, seen, chunk, keep, client, got, cut, outcomes,
                 logged, inbox, asked, sent>>

SocketBreaks ==
  /\ socket.conn = "open"
  /\ socket' = [socket EXCEPT !.conn = "dead"]
  /\ UNCHANGED <<relayVars, inbox, asked, sent>>

----------------------------------------------------------------------------
(* responsesWebsocketBody.                                                 *)

\* The turn ends before its terminal event, and the connection with it.
GivenUp(error) == [socket EXCEPT !.done = TRUE, !.failure = error, !.fatal = TRUE]

\* What a Read returns, and what it makes of the session.
SocketReads ==
  IF socket.done
  THEN {[event |-> Nothing, error |-> IF socket.fatal THEN socket.failure ELSE "eof", next |-> socket]}
  ELSE {[event |-> Nothing, error |-> "idle", next |-> GivenUp("idle")]}
       \cup (IF socket.queue = <<>> THEN {}
             ELSE LET event == Head(socket.queue)
                  IN  {[event |-> event, error |-> "none",
                        next |-> [socket EXCEPT !.queue = Tail(@), !.done = Terminal(event.kind),
                                    !.failure = IF event.kind \in {"error", "overload"}
                                                THEN "broken" ELSE "none"]]})
       \cup (IF (socket.conn = "dead" /\ socket.queue = <<>>) \/ client = "gone"
             THEN {[event |-> Nothing, error |-> "broken", next |-> GivenUp("broken")]} ELSE {})

SocketRead ==
  /\ at = "read" /\ format = "socket"
  /\ \E read \in SocketReads :
       /\ Deliver([event |-> read.event, error |-> read.error])
       /\ socket' = read.next
  /\ UNCHANGED <<format, serial, made, body, dog, keep, client, got, outcomes, logged, inbox,
                 asked, sent>>

SocketStatus ==
  IF cut # "none" THEN "interrupted"
  ELSE IF "overload" \in Kinds(seen) THEN "capacity"
  ELSE IF socket.failure # "none" THEN "interrupted" ELSE "success"

\* responsesWebsocketStream: it calls back whether the usage was seen or not.
SocketClose ==
  /\ at = "close" /\ format = "socket"
  /\ socket' = IF ~socket.done \/ socket.fatal
               THEN [socket EXCEPT !.conn = "dead", !.fatal = TRUE] ELSE socket
  /\ outcomes' = Append(outcomes, [status |-> SocketStatus, usage |-> Usage(seen)])
  /\ logged' = Append(logged, Record)
  /\ Goto("quiet")
  /\ UNCHANGED <<format, serial, made, body, dog, seen, chunk, keep, client, got, cut, inbox,
                 asked, sent>>

\* The turn's handler has returned: the session goes on or ends.
EndTurn ==
  /\ format = "socket" /\ at = "returned"
  /\ Goto(IF cut = "write" \/ socket.fatal \/ client = "gone" THEN "over" ELSE "idle")
  /\ UNCHANGED <<format, serial, made, body, dog, seen, chunk, keep, client, got, cut, outcomes,
                 logged, socketVars>>

\* Between turns the client leaves, or the hour is over.
HangUp ==
  /\ format = "socket" /\ at = "idle" /\ client = "gone"
  /\ Goto("over")
  /\ UNCHANGED <<format, serial, made, body, dog, seen, chunk, keep, client, got, cut, outcomes,
                 logged, socketVars>>

----------------------------------------------------------------------------
Turn ==
  \/ BadFrame \/ TakeTurn \/ TurnRefused \/ TurnMoved \/ TurnAdmitted
  \/ Dial \/ DialFails \/ Send \/ SendFails \/ SocketRead \/ SocketClose \/ EndTurn \/ HangUp

\* Everything is over, or a client with a socket says nothing more.
Quiescent == at \in {"returned", "over", "idle"} /\ UNCHANGED vars

Next ==
  \/ (Handler \/ Timers \/ Outside) /\ UNCHANGED socketVars
  \/ Turn
  \/ Ask \/ SocketBreaks \/ \E kind \in Kind : SocketProduces(kind)
  \/ Quiescent

Spec == Init /\ [][Next]_vars

\* The handler runs on and is given the mutex in its turn; timers fire; a Write
\* ends, by the client or by its connection.
Fairness ==
  /\ SF_vars(Handler /\ UNCHANGED socketVars)
  /\ WF_vars(Turn)
  /\ WF_vars((DogFires \/ DogTrips \/ DogCloses) /\ UNCHANGED socketVars)
  /\ WF_vars((BeatLocks \/ BeatWritten) /\ UNCHANGED socketVars)

FairSpec == Spec /\ Fairness

----------------------------------------------------------------------------
(* Properties.                                                             *)

IsPrefix(s, t) == Len(s) <= Len(t) /\ s = SubSeq(t, 1, Len(s))

\* One request, one answer: what a client gets is what one upstream sent for
\* this request and no other, in order and from its beginning, although the
\* probe holds events back and replays them and a socket serves one turn after
\* another.  An answer that was given up for another upstream's had nothing
\* generated in it, and no turn is sent twice.
OneAnswer ==
  /\ IsPrefix(got, made[serial])
  /\ format # "socket" => \A i \in 1..(serial - 1) : "output" \notin Kinds(made[i])
  /\ \A i \in 1..Serials : sent[i] <= 1

\* When the handler has returned, the stream has been completed exactly once,
\* whatever was closed, timed out or broken on the way, and nobody writes to the
\* client's connection any more.  (A stream in the Responses format whose usage
\* was not seen is not completed at all.)  It is a success only if the client
\* got everything, unless the last event came together with the end; and what
\* the client was shown as used is billed, unless a later event of a Gemini
\* stream has taken it back.
Committed   == at = "returned" /\ keep.closed
LastWithEnd == chunk.event # Nothing /\ chunk.error = "eof"

EndsOnce ==
  Committed =>
    /\ Len(outcomes) = IF format = "socket" \/ CallsBack(seen) THEN 1 ELSE 0
    /\ Len(logged) = 1
    /\ keep.mutex = "free"
    /\ \A i \in 1..Len(outcomes) :
         /\ outcomes[i].status = "success" => got = seen \/ LastWithEnd
         /\ \A f \in {"messages", "chat", "image"} : Usage(got)[f] \subseteq outcomes[i].usage[f]

\* A stream ends: when the upstream falls silent, the watchdog ends it, however
\* its timers race with the last event and the heartbeats with the handler.
StreamEnds == []<>(at \in {"returned", "idle", "over"})

----------------------------------------------------------------------------
(* Why an answer is whole and ends once: the inductive invariant.          *)

Events  == [of : 1..Serials, kind : Kind]
Body    == [replay : Seq(Events), pending : Error, rest : BOOLEAN, saturated : BOOLEAN,
            unread : Seq(Events), end : {"open", "eof", "broken"}, closed : BOOLEAN]
Keep    == [timer : BOOLEAN, waiting : Nat, mutex : {"free", "copy", "beat"}, closed : BOOLEAN]
Chunk   == [event : Events \cup {Nothing}, error : Error]
Session == [conn : {"none", "open", "dead"}, fatal : BOOLEAN, queue : Seq(Events),
            turns : Nat, done : BOOLEAN, failure : Error]

\* Where the handler is before it copies and while it does.
Early == {"call", "probe", "overloaded", "admit", "dial", "send", "commit"}
Loop  == {"read", "write", "writing", "close"}
Places(f) == Loop \cup {"commit", "quiet", "returned"}
             \cup IF f = "socket" THEN {"idle", "admit", "dial", "send", "over"}
                  ELSE {"call", "probe", "overloaded"}

\* The types of the variables.
TypeOK ==
  /\ format \in Format /\ at \in Places(format)
  /\ serial \in 1..Serials
  /\ made \in [1..Serials -> Seq(Events)]
  /\ seen \in Seq(Events) /\ got \in Seq(Events)
  /\ body \in Body /\ keep \in Keep /\ chunk \in Chunk
  /\ socket \in Session
  /\ inbox \in BOOLEAN /\ asked \in 0..Serials
  /\ sent \in [1..Serials -> Nat]

\* s is a part of t, after the first n events.
Part(s, t, n) == n + Len(s) <= Len(t) /\ \A i \in 1..Len(s) : s[i] = t[n + i]

\* An answer has one terminal event, its last.
Terminated == \A i \in 1..Serials : \A j \in 1..Len(made[i]) : Terminal(made[i][j].kind) => j = Len(made[i])

\* The copy loop has the beginning of the answer; held back and unread follow.
\* What the probe has held back was not generated, and an answer that was given
\* up ended with the refusal.
Relayed ==
  format # "socket" =>
    /\ Part(body.replay, made[serial], Len(seen))
    /\ IF body.rest
       THEN /\ Part(body.unread, made[serial], Len(seen) + Len(body.replay))
            /\ Len(seen) + Len(body.replay) + Len(body.unread) = Len(made[serial])
       ELSE body.unread = <<>> /\ body.closed
    /\ at \in {"call", "probe"} =>
         body.rest /\ \A i \in 1..Len(body.replay) : body.replay[i].kind = "meta"
    /\ at = "overloaded" => ~body.rest /\ "output" \notin Kinds(made[serial])
    /\ \A i \in 1..Serials : /\ i < serial => "output" \notin Kinds(made[i])
                             /\ i > serial => made[i] = <<>>

\* What is queued is the rest of the answer to this turn.  A turn that was begun
\* ends with the terminal event, or the session does; so the next turn finds
\* the queue empty and its own answer not begun.
Spoken ==
  format = "socket" =>
    /\ Part(socket.queue, made[serial], Len(seen))
    /\ Len(seen) + Len(socket.queue) = Len(made[serial])
    /\ socket.done /\ ~socket.fatal =>
         seen # <<>> /\ socket.queue = <<>> /\ Terminal(made[serial][Len(seen)].kind)
    /\ at \in {"idle", "quiet", "returned"} /\ ~socket.fatal => socket.done \/ sent[serial] = 0
    /\ at = "idle" => ~socket.fatal
    /\ at \in {"admit", "dial", "send"} => sent[serial] = 0 /\ socket.turns # 0
    /\ serial = IF socket.turns = 0 THEN 1 ELSE socket.turns
    /\ socket.turns + (IF inbox THEN 1 ELSE 0) <= asked
    /\ \A i \in 1..Serials : /\ i > socket.turns => sent[i] = 0
                             /\ sent[i] = 0 => made[i] = <<>>

\* What the client has is the beginning of what the loop has seen, and lacks
\* the event in hand at most, unless the stream was cut.
Copied ==
  /\ Part(got, seen, 0) /\ Part(seen, made[serial], 0)
  /\ at \in Early => seen = <<>>
  /\ at \in Early \cup {"read"} => Len(got) = Len(seen) /\ outcomes = <<>>
  /\ at \in Early \cup {"read", "write", "writing"} => cut = "none"
  /\ at \in {"write", "writing"} =>
       chunk.event # Nothing /\ Len(seen) = Len(got) + 1 /\ seen[Len(seen)] = chunk.event
  /\ at = "close" /\ cut = "none" => Len(got) = Len(seen)
  /\ at \in Early \cup Loop => logged = <<>> /\ ~keep.closed

\* The outcome is told once and of the whole stream.
Told ==
  /\ outcomes = <<>> \/ Len(outcomes) = 1
  /\ \A i \in 1..Len(outcomes) :
       /\ outcomes[i].usage = Usage(seen)
       /\ outcomes[i].status = "success" => Len(got) = Len(seen) \/ LastWithEnd
  /\ format # "socket" /\ outcomes # <<>> => CallsBack(seen)
  /\ format = "socket" /\ at \in Loop => outcomes = <<>>
  /\ at \in {"write", "writing"} /\ outcomes # <<>> => chunk.error = "eof"
  /\ keep.closed => keep.mutex = "free" /\ at \in {"returned", "idle", "over"}
  /\ keep.closed \/ at = "quiet" =>
       /\ Len(logged) = 1
       /\ format = "socket" \/ CallsBack(seen) => Len(outcomes) = 1

IInv ==
  /\ TypeOK /\ Terminated /\ Relayed /\ Spoken /\ Copied /\ Told
  /\ \A i \in 1..Serials : sent[i] <= 1 /\ (format # "socket" => sent[i] = 0)
=============================================================================

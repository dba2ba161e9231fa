------------------------- MODULE ResponsesSocket_proofs -------------------------
(***************************************************************************)
(* Theorems about ResponsesSocket and the relay it composes, for any       *)
(* number of upstreams or turns, answers of any length and any limits: a   *)
(* client gets one answer, whole and in order, and its end is told once.   *)
(***************************************************************************)
EXTENDS ResponsesSocket, TLAPS

----------------------------------------------------------------------------
(* Parts of a sequence.                                                    *)

\* The head of a part comes first, and its tail is a part one further on.
LEMMA PartTail ==
  ASSUME NEW S, NEW s \in Seq(S), NEW t \in Seq(S), NEW n \in Nat, Part(s, t, n), s # <<>>
  PROVE  /\ n + 1 <= Len(t) /\ Head(s) = t[n + 1] /\ Head(s) \in S
         /\ Tail(s) \in Seq(S) /\ Len(Tail(s)) = Len(s) - 1 /\ Len(s) > 0
         /\ Part(Tail(s), t, n + 1)
<1>1. /\ Len(s) \in Nat \ {0} /\ Tail(s) \in Seq(S) /\ Len(Tail(s)) = Len(s) - 1
      /\ Head(s) = s[1] /\ Head(s) \in S
      /\ \A i \in 1..Len(s) - 1 : Tail(s)[i] = s[i + 1]
  OBVIOUS
<1>2. ASSUME NEW i \in 1..Len(s) - 1 PROVE Tail(s)[i] = t[(n + 1) + i]
  <2>1. i + 1 \in 1..Len(s) /\ n + (i + 1) = (n + 1) + i
    BY <1>1
  <2>2. QED
    BY <1>1, <2>1 DEF Part
<1>3. n + 1 <= Len(t) /\ (n + 1) + Len(Tail(s)) <= Len(t) /\ Len(t) \in Nat
  BY <1>1 DEF Part
<1>4. 1 \in 1..Len(s)
  BY <1>1
<1>5. QED
  BY <1>1, <1>2, <1>3, <1>4 DEF Part

\* The tail of the rest of a sequence is the rest from one further on.
LEMMA RestTail ==
  ASSUME NEW S, NEW s \in Seq(S), NEW t \in Seq(S), NEW n \in Nat, n + Len(s) = Len(t), s # <<>>
  PROVE  (n + 1) + Len(Tail(s)) = Len(t) /\ (n + 1 = Len(t) => Tail(s) = <<>>)
<1>1. Len(s) \in Nat \ {0} /\ Tail(s) \in Seq(S) /\ Len(Tail(s)) = Len(s) - 1 /\ Len(t) \in Nat
  OBVIOUS
<1>2. QED
  BY <1>1

\* A part goes on with what comes next.
LEMMA PartAppend ==
  ASSUME NEW S, NEW s \in Seq(S), NEW t \in Seq(S), NEW n \in Nat, Part(s, t, n),
         NEW x \in S, n + Len(s) + 1 <= Len(t), x = t[n + Len(s) + 1]
  PROVE  /\ Append(s, x) \in Seq(S) /\ Len(Append(s, x)) = Len(s) + 1
         /\ Append(s, x)[Len(s) + 1] = x /\ Append(s, x) # <<>>
         /\ Part(Append(s, x), t, n)
<1>1. /\ Append(s, x) \in Seq(S) /\ Len(Append(s, x)) = Len(s) + 1 /\ Len(s) \in Nat
      /\ Append(s, x)[Len(s) + 1] = x /\ \A i \in 1..Len(s) : Append(s, x)[i] = s[i]
  OBVIOUS
<1>2. ASSUME NEW i \in 1..Len(s) + 1 PROVE Append(s, x)[i] = t[n + i]
  BY <1>1 DEF Part
<1>3. QED
  BY <1>1, <1>2 DEF Part

\* What is a part stays one when more is sent.
LEMMA PartGrows ==
  ASSUME NEW S, NEW s \in Seq(S), NEW t \in Seq(S), NEW n \in Nat, Part(s, t, n), NEW x \in S
  PROVE  /\ Part(s, Append(t, x), n) /\ Append(t, x) \in Seq(S)
         /\ Len(Append(t, x)) = Len(t) + 1 /\ Append(t, x)[Len(t) + 1] = x
         /\ \A i \in 1..Len(t) : Append(t, x)[i] = t[i]
<1>1. /\ Append(t, x) \in Seq(S) /\ Len(Append(t, x)) = Len(t) + 1 /\ Len(t) \in Nat /\ Len(s) \in Nat
      /\ Append(t, x)[Len(t) + 1] = x /\ \A i \in 1..Len(t) : Append(t, x)[i] = t[i]
  OBVIOUS
<1>2. ASSUME NEW i \in 1..Len(s) PROVE s[i] = Append(t, x)[n + i]
  BY <1>1 DEF Part
<1>3. QED
  BY <1>1, <1>2 DEF Part

\* The rest of a sequence and the new item are its rest when it has grown.
LEMMA RestGrows ==
  ASSUME NEW S, NEW s \in Seq(S), NEW t \in Seq(S), NEW n \in Nat, Part(s, t, n),
         n + Len(s) = Len(t), NEW x \in S
  PROVE  /\ Append(s, x) \in Seq(S) /\ Part(Append(s, x), Append(t, x), n)
         /\ n + Len(Append(s, x)) = Len(Append(t, x))
<1>1. /\ Append(t, x) \in Seq(S) /\ Len(Append(t, x)) = Len(t) + 1 /\ Len(t) \in Nat /\ Len(s) \in Nat
      /\ Append(t, x)[Len(t) + 1] = x /\ \A i \in 1..Len(t) : Append(t, x)[i] = t[i]
  OBVIOUS
<1>2. /\ Append(s, x) \in Seq(S) /\ Len(Append(s, x)) = Len(s) + 1
      /\ Append(s, x)[Len(s) + 1] = x /\ \A i \in 1..Len(s) : Append(s, x)[i] = s[i]
  OBVIOUS
<1>3. ASSUME NEW i \in 1..Len(s) + 1 PROVE Append(s, x)[i] = Append(t, x)[n + i]
  <2>1. CASE i = Len(s) + 1
    BY <1>1, <1>2, <2>1
  <2>2. CASE i \in 1..Len(s)
    BY <1>1, <1>2, <2>2 DEF Part
  <2>3. QED
    BY <1>1, <2>1, <2>2
<1>4. QED
  BY <1>1, <1>2, <1>3 DEF Part

\* The beginning of a part is one.
LEMMA PartBegins ==
  ASSUME NEW S, NEW s \in Seq(S), NEW t \in Seq(S), NEW n \in Nat, Part(s, t, n),
         NEW k \in 0..Len(s)
  PROVE  SubSeq(s, 1, k) \in Seq(S) /\ Part(SubSeq(s, 1, k), t, n)
<1>1. /\ SubSeq(s, 1, k) \in Seq(S) /\ Len(SubSeq(s, 1, k)) = k /\ Len(s) \in Nat
      /\ \A i \in 1..k : SubSeq(s, 1, k)[i] = s[i]
  OBVIOUS
<1>2. QED
  BY <1>1 DEF Part

\* A part from the beginning is a prefix.
LEMMA PartIsPrefix ==
  ASSUME NEW S, NEW s \in Seq(S), NEW t \in Seq(S), Part(s, t, 0)
  PROVE  IsPrefix(s, t)
<1>1. Len(s) \in Nat /\ Len(s) <= Len(t) /\ \A i \in 1..Len(s) : s[i] = t[i]
  BY DEF Part
<1>2. /\ SubSeq(t, 1, Len(s)) \in Seq(S) /\ Len(SubSeq(t, 1, Len(s))) = Len(s)
      /\ \A i \in 1..Len(s) : SubSeq(t, 1, Len(s))[i] = t[i]
  BY <1>1
<1>3. s = SubSeq(t, 1, Len(s))
  BY <1>1, <1>2
<1>4. QED
  BY <1>1, <1>3 DEF IsPrefix

\* Parts that begin together and are as long are the same.
LEMMA SamePart ==
  ASSUME NEW S, NEW s \in Seq(S), NEW t \in Seq(S), Part(s, t, 0), Len(s) = Len(t)
  PROVE  s = t
<1>1. \A i \in 1..Len(s) : s[i] = t[i]
  BY DEF Part
<1>2. QED
  BY <1>1

\* The beginning of what begins a sequence begins it.
LEMMA PartOfPart ==
  ASSUME NEW S, NEW s \in Seq(S), NEW t \in Seq(S), NEW u \in Seq(S), Part(s, t, 0), Part(t, u, 0)
  PROVE  Part(s, u, 0)
BY DEF Part

\* What a part holds, the whole does.
LEMMA KindsOfPart ==
  ASSUME NEW S, NEW s \in Seq(S), NEW t \in Seq(S), NEW n \in Nat, Part(s, t, n)
  PROVE  Kinds(s) \subseteq Kinds(t)
<1>1. ASSUME NEW i \in 1..Len(s) PROVE n + i \in 1..Len(t) /\ s[i] = t[n + i]
  BY DEF Part
<1>2. QED
  BY <1>1 DEF Kinds

----------------------------------------------------------------------------
(* The steps of the others: timers, the client, the upstream.              *)

\* What the answers begin with, and what is no event.
LEMMA Constants ==
  /\ Serials \in Nat \ {0} /\ RestoreLimit \in Nat \ {0}
  /\ NoBody \in Body /\ NoKeep \in Keep /\ NoChunk \in Chunk /\ NoSocket \in Session
  /\ NoBody.replay = <<>> /\ NoBody.unread = <<>> /\ NoBody.rest = TRUE
  /\ NoKeep.closed = FALSE /\ NoKeep.mutex = "free"
  /\ <<>> \in Seq(Events) /\ Len(<<>>) = 0
  /\ \A e \in Events : e # Nothing
  /\ \A t, n : n \in Nat /\ n <= Len(t) => Part(<<>>, t, n)
<1>1. Serials \in Nat \ {0} /\ RestoreLimit \in Nat \ {0}
  BY RelayAssumption
<1>2. <<>> \in Seq(Events) /\ Len(<<>>) = 0
  OBVIOUS
<1>3. NoBody \in Body /\ NoKeep \in Keep /\ NoChunk \in Chunk /\ NoSocket \in Session
  BY <1>2 DEF NoBody, Body, NoKeep, Keep, NoChunk, Chunk, NoSocket, Session, Error
<1>4. \A e \in Events : e # Nothing
  BY DEF Events, Kind, Nothing
<1>5. \A t, n : n \in Nat /\ n <= Len(t) => Part(<<>>, t, n)
  BY DEF Part
<1>6. QED
  BY <1>1, <1>2, <1>3, <1>4, <1>5 DEF NoBody, NoKeep

\* An event of this answer.
LEMMA EventType ==
  ASSUME TypeOK, NEW kind \in Kind
  PROVE  Event(kind) \in Events /\ Event(kind).kind = kind
BY DEF TypeOK, Event, Events

\* What is told of a stream depends on what was seen of it.
LEMMA SameSeen ==
  ASSUME seen' = seen
  PROVE  Usage(seen)' = Usage(seen) /\ (format' = format => (CallsBack(seen)' <=> CallsBack(seen)))
BY DEF Usage, MessagesUsage, ChatCompletionsUsage, ImageUsage, GeminiUsage, CallsBack, Kinds

\* A timer, the end of a body, the client that leaves: the handler, the answer
\* and what is known of it stay.
LEMMA QuietStep ==
  ASSUME IInv,
         UNCHANGED <<format, at, serial, made, seen, chunk, got, cut, outcomes, logged, socketVars>>,
         body' \in Body, body'.replay = body.replay, body'.unread = body.unread,
         body'.rest = body.rest, body.closed => body'.closed,
         keep' \in Keep, keep'.closed = keep.closed, keep.closed => keep'.mutex = "free"
  PROVE  IInv'
<1>1. TypeOK /\ Terminated /\ Relayed /\ Spoken /\ Copied /\ Told
  BY DEF IInv
<1>2. UNCHANGED <<socket, inbox, asked, sent>>
  BY DEF socketVars
<1>3. TypeOK'
  BY <1>1, <1>2 DEF TypeOK
<1>4. Terminated' /\ Relayed'
  BY <1>1 DEF Terminated, Relayed
<1>5. Spoken'
  BY <1>1, <1>2 DEF Spoken
<1>6. Copied'
  BY <1>1 DEF Copied
<1>7. Told'
  <2>1. Usage(seen)' = Usage(seen) /\ (CallsBack(seen)' <=> CallsBack(seen))
    BY SameSeen
  <2>2. QED
    BY <1>1, <2>1 DEF Told, LastWithEnd
<1>8. QED
  BY <1>2, <1>3, <1>4, <1>5, <1>6, <1>7 DEF IInv

\* Every timer, and what the client does by itself.
LEMMA TimersStep ==
  ASSUME IInv, UNCHANGED socketVars,
         Timers \/ ClientLeaves \/ (\E end \in {"eof", "broken"} : BodyEnds(end))
  PROVE  IInv'
<1>1. TypeOK /\ body \in Body /\ keep \in Keep /\ (keep.closed => keep.mutex = "free")
  BY DEF IInv, TypeOK, Told
<1>2. CASE DogFires \/ DogTrips \/ ClientLeaves
  <2>1. UNCHANGED <<format, at, serial, made, seen, chunk, got, cut, outcomes, logged, body, keep>>
    BY <1>2 DEF DogFires, DogTrips, ClientLeaves
  <2>2. QED
    BY <1>1, <2>1, QuietStep
<1>3. CASE DogCloses \/ \E end \in {"eof", "broken"} : BodyEnds(end)
  <2>1. /\ UNCHANGED <<format, at, serial, made, seen, chunk, got, cut, outcomes, logged, keep>>
        /\ \/ body' = [body EXCEPT !.closed = TRUE]
           \/ \E end \in {"eof", "broken"} : body' = [body EXCEPT !.end = end]
    BY <1>3 DEF DogCloses, BodyEnds
  <2>2. /\ body' \in Body /\ body'.replay = body.replay /\ body'.unread = body.unread
        /\ body'.rest = body.rest /\ (body.closed => body'.closed)
    BY <1>1, <2>1 DEF Body
  <2>3. QED
    BY <1>1, <2>1, <2>2, QuietStep
<1>4. CASE BeatFires \/ BeatLocks \/ BeatWritten
  <2>1. /\ UNCHANGED <<format, at, serial, made, seen, chunk, got, cut, outcomes, logged, body>>
        /\ \/ keep' = [keep EXCEPT !.timer = FALSE, !.waiting = keep.waiting + 1]
           \/ /\ keep.waiting > 0
              /\ keep' = [keep EXCEPT !.waiting = keep.waiting - 1,
                                      !.mutex = IF keep.closed THEN "free" ELSE "beat"]
           \/ keep' = [keep EXCEPT !.mutex = "free", !.timer = TRUE]
    BY <1>4 DEF BeatFires, BeatLocks, BeatWritten
  <2>2. keep.waiting > 0 => keep.waiting - 1 \in Nat
    BY <1>1 DEF Keep
  <2>3. keep.waiting + 1 \in Nat
    BY <1>1 DEF Keep
  <2>4. keep' \in Keep /\ keep'.closed = keep.closed /\ (keep.closed => keep'.mutex = "free")
    <3>1. CASE keep' = [keep EXCEPT !.timer = FALSE, !.waiting = keep.waiting + 1]
      BY <1>1, <2>3, <3>1 DEF Keep
    <3>2. CASE /\ keep.waiting > 0
               /\ keep' = [keep EXCEPT !.waiting = keep.waiting - 1,
                                       !.mutex = IF keep.closed THEN "free" ELSE "beat"]
      BY <1>1, <2>2, <3>2 DEF Keep
    <3>3. CASE keep' = [keep EXCEPT !.mutex = "free", !.timer = TRUE]
      BY <1>1, <3>3 DEF Keep
    <3>4. QED
      BY <2>1, <3>1, <3>2, <3>3
  <2>5. QED
    BY <1>1, <2>1, <2>4, QuietStep
<1>5. QED
  BY <1>2, <1>3, <1>4 DEF Timers

\* One more event keeps its order: it is the last, and the one before it was
\* not terminal.
LEMMA TerminatedStep ==
  ASSUME TypeOK, Terminated, NEW kind \in Kind,
         \A k \in Kinds(made[serial]) : ~Terminal(k),
         made' = [made EXCEPT ![serial] = Append(made[serial], Event(kind))]
  PROVE  /\ Terminated' /\ made' \in [1..Serials -> Seq(Events)]
         /\ made'[serial] = Append(made[serial], Event(kind))
         /\ \A i \in 1..Serials \ {serial} : made'[i] = made[i]
<1> DEFINE m == made[serial]
           n == Append(m, Event(kind))
<1>1. m \in Seq(Events) /\ Event(kind) \in Events /\ serial \in 1..Serials
  BY EventType DEF TypeOK
<1>2. /\ n \in Seq(Events) /\ Len(n) = Len(m) + 1 /\ Len(m) \in Nat
      /\ \A i \in 1..Len(m) : n[i] = m[i]
  BY <1>1
<1>3. /\ made' \in [1..Serials -> Seq(Events)] /\ made'[serial] = n
      /\ \A i \in 1..Serials \ {serial} : made'[i] = made[i]
  <2>1. made' = [made EXCEPT ![serial] = n] /\ made \in [1..Serials -> Seq(Events)]
    BY DEF TypeOK
  <2> HIDE DEF n
  <2>2. QED
    BY <1>1, <1>2, <2>1
<1>4. ASSUME NEW j \in 1..Len(n), j # Len(n) PROVE ~Terminal(n[j].kind)
  <2>1. j \in 1..Len(m)
    BY <1>2, <1>4
  <2>2. m[j].kind \in Kinds(m)
    BY <2>1 DEF Kinds
  <2>3. QED
    BY <1>2, <2>1, <2>2
<1> HIDE DEF n
<1>5. Terminated'
  <2> SUFFICES ASSUME NEW i \in 1..Serials, NEW j \in 1..Len(made'[i]), Terminal(made'[i][j].kind)
               PROVE  j = Len(made'[i])
    BY DEF Terminated
  <2>1. CASE i = serial
    BY <1>3, <1>4, <2>1
  <2>2. CASE i # serial
    BY <1>3, <2>2 DEF Terminated
  <2>3. QED
    BY <2>1, <2>2
<1>6. QED
  BY <1>3, <1>5 DEF n

\* The upstream sends an event, to a body or over a socket.
LEMMA ProduceStep ==
  ASSUME IInv, UNCHANGED socketVars, NEW kind \in Kind, Produce(kind)
  PROVE  IInv'
<1>1. TypeOK /\ Terminated /\ Relayed /\ Spoken /\ Copied /\ Told
  BY DEF IInv
<1>2. /\ format # "socket" /\ at # "call" /\ ~body.closed
      /\ \A k \in Kinds(made[serial]) : ~Terminal(k)
      /\ made' = [made EXCEPT ![serial] = Append(made[serial], Event(kind))]
      /\ body' = [body EXCEPT !.unread = Append(body.unread, Event(kind))]
      /\ UNCHANGED <<format, at, serial, seen, chunk, keep, got, cut, outcomes, logged>>
  BY DEF Produce, Streaming
<1> DEFINE e == Event(kind)
           m == made[serial]
<1>3. /\ e \in Events /\ m \in Seq(Events) /\ serial \in 1..Serials
      /\ seen \in Seq(Events) /\ got \in Seq(Events) /\ body \in Body
      /\ body.replay \in Seq(Events) /\ body.unread \in Seq(Events)
      /\ Len(seen) \in Nat /\ Len(body.replay) \in Nat
  BY <1>1, EventType DEF TypeOK, Body
<1>4. /\ Terminated' /\ made' \in [1..Serials -> Seq(Events)] /\ made'[serial] = Append(m, e)
      /\ \A i \in 1..Serials \ {serial} : made'[i] = made[i]
  BY <1>1, <1>2, TerminatedStep
<1>5. /\ body.rest /\ Part(body.replay, m, Len(seen)) /\ Part(seen, m, 0)
      /\ Part(body.unread, m, Len(seen) + Len(body.replay))
      /\ Len(seen) + Len(body.replay) + Len(body.unread) = Len(m)
  BY <1>1, <1>2 DEF Relayed, Copied
<1> HIDE DEF e, m
<1>6. /\ body' \in Body /\ body'.replay = body.replay /\ body'.rest = body.rest
      /\ body'.unread = Append(body.unread, e)
  <2>1. Append(body.unread, e) \in Seq(Events)
    BY <1>3
  <2>2. body' = [body EXCEPT !.unread = Append(body.unread, e)]
    BY <1>2 DEF e
  <2>3. QED
    BY <1>3, <2>1, <2>2 DEF Body
<1>7. /\ Part(body'.replay, made'[serial], Len(seen)) /\ Part(seen, made'[serial], 0)
      /\ Part(body'.unread, made'[serial], Len(seen) + Len(body.replay))
      /\ Len(seen) + Len(body.replay) + Len(body'.unread) = Len(made'[serial])
  <2>1. Part(body.replay, Append(m, e), Len(seen)) /\ Part(seen, Append(m, e), 0)
    BY <1>3, <1>5, PartGrows
  <2>2. PICK k \in Nat : k = Len(seen) + Len(body.replay)
    BY <1>3
  <2>3. Part(body.unread, m, k) /\ k + Len(body.unread) = Len(m)
    BY <1>5, <2>2
  <2>4. /\ Part(Append(body.unread, e), Append(m, e), k)
        /\ k + Len(Append(body.unread, e)) = Len(Append(m, e))
    <3>1. body.unread \in Seq(Events) /\ m \in Seq(Events) /\ e \in Events
      BY <1>3
    <3>2. PICK u \in Seq(Events) : u = body.unread
      BY <3>1
    <3>3. Part(u, m, k) /\ k + Len(u) = Len(m)
      BY <2>3, <3>2
    <3>4. Part(Append(u, e), Append(m, e), k) /\ k + Len(Append(u, e)) = Len(Append(m, e))
      BY <3>1, <3>3, RestGrows
    <3>5. QED
      BY <3>2, <3>4
  <2>5. QED
    BY <1>4, <1>6, <2>1, <2>2, <2>4
<1>8. TypeOK'
  BY <1>1, <1>2, <1>4, <1>6 DEF TypeOK, socketVars
<1>9. at \notin {"call", "overloaded"}
  BY <1>1, <1>2, <1>5 DEF Relayed
<1>10. Relayed'
  <2>1. ASSUME NEW i \in 1..Serials
        PROVE  /\ i < serial => "output" \notin Kinds(made'[i])
               /\ i > serial => made'[i] = <<>>
    <3>1. i # serial => made'[i] = made[i]
      BY <1>4
    <3>2. /\ i < serial => "output" \notin Kinds(made[i])
          /\ i > serial => made[i] = <<>>
      BY <1>1, <1>2 DEF Relayed
    <3>3. i < serial \/ i > serial => i # serial
      BY <1>3
    <3>4. QED
      BY <3>1, <3>2, <3>3
  <2>2. at = "probe" => \A i \in 1..Len(body.replay) : body.replay[i].kind = "meta"
    BY <1>1, <1>2 DEF Relayed
  <2>3. Kinds(made[serial])' = Kinds(made'[serial]) /\ \A i : Kinds(made[i])' = Kinds(made'[i])
    BY <1>2 DEF Kinds
  <2>4. QED
    BY <1>2, <1>5, <1>6, <1>7, <1>9, <2>1, <2>2, <2>3 DEF Relayed
<1>11. Spoken'
  BY <1>2 DEF Spoken
<1>12. Usage(seen)' = Usage(seen) /\ (CallsBack(seen)' <=> CallsBack(seen))
  BY <1>2, SameSeen
<1>13. Copied' /\ Told'
  <2>1. Copied'
    BY <1>1, <1>2, <1>7 DEF Copied
  <2>2. Told'
    BY <1>1, <1>2, <1>12 DEF Told, LastWithEnd
  <2>3. QED
    BY <2>1, <2>2
<1>14. QED
  BY <1>2, <1>4, <1>8, <1>10, <1>11, <1>13 DEF IInv, socketVars

\* The upstream sends an event of the answer to the turn over the socket.
LEMMA SocketProducesStep ==
  ASSUME IInv, NEW kind \in Kind, SocketProduces(kind)
  PROVE  IInv'
<1>1. TypeOK /\ Terminated /\ Relayed /\ Spoken /\ Copied /\ Told
  BY DEF IInv
<1>2. /\ format = "socket" /\ sent[serial] > 0
      /\ \A k \in Kinds(made[serial]) : ~Terminal(k)
      /\ made' = [made EXCEPT ![serial] = Append(made[serial], Event(kind))]
      /\ socket' = [socket EXCEPT !.queue = Append(socket.queue, Event(kind))]
      /\ UNCHANGED <<format, at, serial, body, seen, chunk, keep, got, cut, outcomes, logged,
                     inbox, asked, sent>>
  BY DEF SocketProduces, Answering
<1> DEFINE e == Event(kind)
           m == made[serial]
<1>3. /\ e \in Events /\ m \in Seq(Events) /\ serial \in 1..Serials
      /\ seen \in Seq(Events) /\ got \in Seq(Events) /\ socket \in Session
      /\ socket.queue \in Seq(Events) /\ Len(seen) \in Nat
  <2>1. e \in Events
    BY <1>1, EventType
  <2>2. /\ m \in Seq(Events) /\ serial \in 1..Serials /\ socket \in Session
        /\ seen \in Seq(Events) /\ got \in Seq(Events)
    BY <1>1 DEF TypeOK
  <2>3. QED
    BY <2>1, <2>2 DEF Session
<1>4. /\ Terminated' /\ made' \in [1..Serials -> Seq(Events)] /\ made'[serial] = Append(m, e)
      /\ \A i \in 1..Serials \ {serial} : made'[i] = made[i]
  BY <1>1, <1>2, TerminatedStep
<1>5. /\ Part(socket.queue, m, Len(seen)) /\ Part(seen, m, 0)
      /\ Len(seen) + Len(socket.queue) = Len(m)
  BY <1>1, <1>2 DEF Spoken, Copied
\* An answer that has ended is not continued.
<1>6. ~(socket.done /\ ~socket.fatal)
  <2> SUFFICES ASSUME socket.done, ~socket.fatal PROVE FALSE
    OBVIOUS
  <2>1. seen # <<>> /\ Terminal(m[Len(seen)].kind)
    BY <1>1, <1>2 DEF Spoken
  <2>2. Len(seen) \in 1..Len(m)
    BY <1>3, <1>5, <2>1 DEF Part
  <2>3. m[Len(seen)].kind \in Kinds(m)
    BY <2>2 DEF Kinds
  <2>4. QED
    BY <1>2, <2>1, <2>3
<1> HIDE DEF e, m
<1>7. /\ socket' \in Session /\ socket'.queue = Append(socket.queue, e)
      /\ socket'.done = socket.done /\ socket'.fatal = socket.fatal /\ socket'.turns = socket.turns
  <2>1. Append(socket.queue, e) \in Seq(Events)
    BY <1>3
  <2>2. socket' = [socket EXCEPT !.queue = Append(socket.queue, e)]
    BY <1>2 DEF e
  <2>3. QED
    BY <1>3, <2>1, <2>2 DEF Session
<1>8. /\ Part(socket'.queue, made'[serial], Len(seen)) /\ Part(seen, made'[serial], 0)
      /\ Len(seen) + Len(socket'.queue) = Len(made'[serial])
  <2>1. Part(seen, Append(m, e), 0)
    BY <1>3, <1>5, PartGrows
  <2>2. PICK k \in Nat : k = Len(seen)
    BY <1>3
  <2>3. Part(socket.queue, m, k) /\ k + Len(socket.queue) = Len(m)
    BY <1>5, <2>2
  <2>4. /\ Part(Append(socket.queue, e), Append(m, e), k)
        /\ k + Len(Append(socket.queue, e)) = Len(Append(m, e))
    <3>1. socket.queue \in Seq(Events) /\ m \in Seq(Events) /\ e \in Events
      BY <1>3
    <3>2. PICK q \in Seq(Events) : q = socket.queue
      BY <3>1
    <3>3. Part(q, m, k) /\ k + Len(q) = Len(m)
      BY <2>3, <3>2
    <3>4. Part(Append(q, e), Append(m, e), k) /\ k + Len(Append(q, e)) = Len(Append(m, e))
      BY <3>1, <3>3, RestGrows
    <3>5. QED
      BY <3>2, <3>4
  <2>5. QED
    BY <1>4, <1>7, <2>1, <2>2, <2>4
<1>9. TypeOK'
  BY <1>1, <1>2, <1>4, <1>7 DEF TypeOK
<1>10. Spoken'
  <2>1. sent \in [1..Serials -> Nat] /\ sent[serial] # 0
    BY <1>1, <1>2, <1>3 DEF TypeOK
  <2>2. \A i \in 1..Serials : sent[i] = 0 => made'[i] = <<>>
    BY <1>1, <1>2, <1>4, <2>1 DEF Spoken
  <2>3. QED
    BY <1>1, <1>2, <1>6, <1>7, <1>8, <2>1, <2>2 DEF Spoken
<1>11. Relayed' /\ Copied'
  BY <1>1, <1>2, <1>8 DEF Relayed, Copied
<1>12. Usage(seen)' = Usage(seen) /\ (CallsBack(seen)' <=> CallsBack(seen))
  BY <1>2, SameSeen
<1>13. Told'
  BY <1>1, <1>2, <1>12 DEF Told, LastWithEnd
<1>14. \A i \in 1..Serials : sent'[i] <= 1 /\ (format' # "socket" => sent'[i] = 0)
  BY <1>2 DEF IInv
<1>15. QED
  BY <1>4, <1>9, <1>10, <1>11, <1>13, <1>14 DEF IInv

----------------------------------------------------------------------------
(* The turns of a socket.                                                  *)

\* The handler goes on within a turn, or between two: what the client has and
\* what was recorded stay.
LEMMA TurnStep ==
  ASSUME IInv, format = "socket",
         UNCHANGED <<format, serial, made, body, seen, chunk, keep, got, cut, outcomes, logged>>,
         at' \in Places("socket"), socket' \in Session,
         inbox' \in BOOLEAN, asked' \in 0..Serials,
         sent' \in [1..Serials -> Nat], \A i \in 1..Serials : sent'[i] <= 1,
         Spoken',
         at' = at \/ (at \in Early /\ at' \in {"dial", "send", "commit", "returned"})
           \/ (at \in {"idle", "returned"} /\ at' \in {"idle", "over"})
  PROVE  IInv'
<1>1. TypeOK /\ Terminated /\ Relayed /\ Copied /\ Told
  BY DEF IInv
<1>2. TypeOK' /\ Terminated' /\ Relayed'
  BY <1>1 DEF TypeOK, Terminated, Relayed
<1>3. at' \in Early => at \in Early
  BY DEF Early
<1>4. at' \in Loop => at' = at
  BY DEF Loop
<1>5. at' = "quiet" => at = "quiet"
  OBVIOUS
<1>6. keep.closed => at' \in {"returned", "idle", "over"}
  BY <1>1 DEF Told, Copied, Early
<1>7. Copied'
  BY <1>1, <1>3, <1>4 DEF Copied, Early, Loop
<1>8. Usage(seen)' = Usage(seen) /\ (CallsBack(seen)' <=> CallsBack(seen))
  BY SameSeen
<1>9. Told'
  <2>1. keep.closed \/ at' = "quiet" => keep.closed \/ at = "quiet"
    BY <1>5
  <2>2. at' \in {"write", "writing"} => at' = at
    OBVIOUS
  <2>3. QED
    BY <1>1, <1>4, <1>6, <1>8, <2>1, <2>2 DEF Told, LastWithEnd
<1>10. QED
  BY <1>2, <1>7, <1>9 DEF IInv

\* Frames, connections and refusals: what changes of the session.
LEMMA SessionStep ==
  ASSUME IInv,
         \/ BadFrame \/ TurnRefused \/ TurnMoved \/ TurnAdmitted \/ Dial \/ DialFails
         \/ Send \/ SendFails \/ EndTurn \/ HangUp \/ Ask \/ (SocketBreaks /\ format = "socket")
  PROVE  IInv'
<1>1. /\ TypeOK /\ Spoken /\ socket \in Session /\ sent \in [1..Serials -> Nat]
      /\ serial \in 1..Serials /\ inbox \in BOOLEAN /\ asked \in 0..Serials /\ Serials \in Nat
      /\ at \in Places(format) /\ socket.turns \in Nat
      /\ \A i \in 1..Serials : sent[i] <= 1
  BY Constants DEF IInv, TypeOK, Session
<1>2. format = "socket"
  <2>1. at \in {"dial", "send"} => format = "socket"
    BY <1>1 DEF Places, Loop
  <2>2. QED
    BY <2>1 DEF BadFrame, TurnRefused, TurnMoved, TurnAdmitted, Admit, Dial, DialFails, Dialled,
                Send, SendFails, Wrote, EndTurn, HangUp, Ask
<1>3. Places("socket") = {"read", "write", "writing", "close", "commit", "quiet", "returned", "idle",
                          "admit", "dial", "send", "over"}
  BY DEF Places, Loop
<1>4. /\ Part(socket.queue, made[serial], Len(seen))
      /\ Len(seen) + Len(socket.queue) = Len(made[serial])
      /\ socket.done /\ ~socket.fatal =>
           seen # <<>> /\ socket.queue = <<>> /\ Terminal(made[serial][Len(seen)].kind)
      /\ at \in {"idle", "quiet", "returned"} /\ ~socket.fatal => socket.done \/ sent[serial] = 0
      /\ at = "idle" => ~socket.fatal
      /\ at \in {"admit", "dial", "send"} => sent[serial] = 0 /\ socket.turns # 0
      /\ serial = IF socket.turns = 0 THEN 1 ELSE socket.turns
      /\ socket.turns + (IF inbox THEN 1 ELSE 0) <= asked
      /\ \A i \in 1..Serials : /\ i > socket.turns => sent[i] = 0
                               /\ sent[i] = 0 => made[i] = <<>>
  BY <1>1, <1>2 DEF Spoken
<1>5. CASE BadFrame \/ Ask
  <2>1. /\ UNCHANGED <<format, at, serial, made, body, seen, chunk, keep, got, cut, outcomes, logged,
                       socket, sent>>
        /\ \/ inbox /\ inbox' = FALSE /\ asked' = asked
           \/ inbox' = TRUE /\ asked < Serials /\ asked' = asked + 1
    BY <1>5 DEF BadFrame, Ask, relayVars
  <2>2. inbox' \in BOOLEAN /\ asked' \in 0..Serials /\ socket.turns + (IF inbox' THEN 1 ELSE 0) <= asked'
    <3>1. CASE inbox /\ inbox' = FALSE /\ asked' = asked
      <4>1. socket.turns + 1 <= asked
        BY <1>4, <3>1
      <4>2. QED
        <5>1. (IF inbox' THEN 1 ELSE 0) = 0 /\ inbox' \in BOOLEAN
          BY <3>1
        <5>2. socket.turns \in Nat /\ asked \in 0..Serials /\ asked \in Nat /\ asked' = asked
          BY <1>1, <3>1
        <5>3. socket.turns + 0 <= asked
          BY <4>1, <5>2
        <5>4. QED
          BY <5>1, <5>2, <5>3
    <3>2. CASE inbox' = TRUE /\ asked < Serials /\ asked' = asked + 1
      <4>1. socket.turns <= asked
        BY <1>1, <1>4
      <4>2. QED
        BY <1>1, <3>2, <4>1
    <3>3. QED
      BY <2>1, <3>1, <3>2
  <2>3. Spoken'
    BY <1>2, <1>4, <2>1, <2>2 DEF Spoken
  <2>4. QED
    BY <1>1, <1>2, <2>1, <2>2, <2>3, TurnStep
<1>6. CASE TurnRefused \/ TurnMoved \/ TurnAdmitted
  <2>1. /\ at = "admit" /\ at' \in {"returned", "dial", "send"}
        /\ \/ socket' = socket
           \/ socket' = [socket EXCEPT !.fatal = TRUE] /\ at' = "returned"
        /\ UNCHANGED <<format, serial, made, body, seen, chunk, keep, got, cut, outcomes, logged,
                       inbox, asked, sent>>
    BY <1>6 DEF TurnRefused, TurnMoved, TurnAdmitted, Admit, Goto
  <2>2. /\ socket' \in Session /\ socket'.queue = socket.queue /\ socket'.done = socket.done
        /\ socket'.turns = socket.turns /\ (socket.fatal => socket'.fatal)
    BY <1>1, <2>1 DEF Session
  <2>3. Spoken'
    BY <1>2, <1>4, <2>1, <2>2 DEF Spoken
  <2>4. QED
    BY <1>1, <1>2, <1>3, <2>1, <2>2, <2>3, TurnStep DEF Early
<1>7. CASE Dial \/ DialFails
  <2>1. /\ at = "dial" /\ at' \in {"send", "returned"}
        /\ \E conn \in {"open", "none"} : socket' = [socket EXCEPT !.conn = conn]
        /\ UNCHANGED <<format, serial, made, body, seen, chunk, keep, got, cut, outcomes, logged,
                       inbox, asked, sent>>
    BY <1>7 DEF Dial, DialFails, Dialled, Goto
  <2>2. /\ socket' \in Session /\ socket'.queue = socket.queue /\ socket'.done = socket.done
        /\ socket'.turns = socket.turns /\ socket'.fatal = socket.fatal
    BY <1>1, <2>1 DEF Session
  <2>3. Spoken'
    BY <1>2, <1>4, <2>1, <2>2 DEF Spoken
  <2>4. QED
    BY <1>1, <1>2, <1>3, <2>1, <2>2, <2>3, TurnStep DEF Early
<1>8. CASE Send \/ SendFails
  <2>1. /\ at = "send" /\ at' = "commit"
        /\ \/ socket' = socket
           \/ socket' = [socket EXCEPT !.done = TRUE, !.failure = "broken", !.fatal = TRUE]
        /\ sent' = [sent EXCEPT ![serial] = sent[serial] + 1]
        /\ UNCHANGED <<format, serial, made, body, seen, chunk, keep, got, cut, outcomes, logged,
                       inbox, asked>>
    BY <1>8 DEF Send, SendFails, Wrote, Goto
  <2>2. /\ socket' \in Session /\ socket'.queue = socket.queue
        /\ socket'.turns = socket.turns
        /\ (socket'.fatal \/ (socket'.done = socket.done /\ socket'.fatal = socket.fatal))
    BY <1>1, <2>1 DEF Session, Error
  <2>3. /\ sent[serial] = 0 /\ socket.turns = serial
        /\ sent' \in [1..Serials -> Nat] /\ sent'[serial] = 1
        /\ \A i \in 1..Serials \ {serial} : sent'[i] = sent[i]
    BY <1>1, <1>4, <2>1
  <2>4. \A i \in 1..Serials : /\ i > socket.turns => sent'[i] = 0
                              /\ sent'[i] = 0 => made[i] = <<>>
                              /\ sent'[i] <= 1
    BY <1>1, <1>4, <2>3
  <2>5. Spoken'
    BY <1>2, <1>4, <2>1, <2>2, <2>3, <2>4 DEF Spoken
  <2>6. QED
    BY <1>1, <1>2, <1>3, <2>1, <2>2, <2>3, <2>4, <2>5, TurnStep DEF Early
<1>9. CASE EndTurn \/ HangUp
  <2>1. /\ at \in {"returned", "idle"} /\ at' \in {"idle", "over"}
        /\ at' = "idle" => at = "returned" /\ ~socket.fatal
        /\ UNCHANGED <<format, serial, made, body, seen, chunk, keep, got, cut, outcomes, logged,
                       socket, inbox, asked, sent>>
    BY <1>9 DEF EndTurn, HangUp, Goto, socketVars
  <2>2. Spoken'
    BY <1>2, <1>4, <2>1 DEF Spoken
  <2>3. QED
    BY <1>1, <1>2, <1>3, <2>1, <2>2, TurnStep
<1>10. CASE SocketBreaks
  <2>1. /\ UNCHANGED <<format, at, serial, made, body, seen, chunk, keep, got, cut, outcomes, logged,
                       inbox, asked, sent>>
        /\ socket' = [socket EXCEPT !.conn = "dead"]
    BY <1>10 DEF SocketBreaks, relayVars
  <2>2. /\ socket' \in Session /\ socket'.queue = socket.queue /\ socket'.done = socket.done
        /\ socket'.turns = socket.turns /\ socket'.fatal = socket.fatal
    BY <1>1, <2>1 DEF Session
  <2>3. Spoken'
    BY <1>2, <1>4, <2>1, <2>2 DEF Spoken
  <2>4. QED
    BY <1>1, <1>2, <2>1, <2>2, <2>3, TurnStep
<1>11. QED
  BY <1>5, <1>6, <1>7, <1>8, <1>9, <1>10

\* The next turn begins with nothing of the last: the queue is empty, because
\* the last answer has been read to its end.
LEMMA TakeTurnStep ==
  ASSUME IInv, TakeTurn
  PROVE  IInv'
<1>1. /\ TypeOK /\ Terminated /\ Spoken
      /\ \A i \in 1..Serials : sent[i] <= 1
  BY DEF IInv
<1>2. /\ format = "socket" /\ at = "idle" /\ inbox
      /\ inbox' = FALSE /\ at' = "admit"
      /\ socket' = [socket EXCEPT !.turns = socket.turns + 1, !.done = FALSE, !.failure = "none"]
      /\ serial' = socket.turns + 1
      /\ body' = NoBody /\ keep' = NoKeep /\ chunk' = NoChunk
      /\ seen' = <<>> /\ got' = <<>> /\ outcomes' = <<>> /\ logged' = <<>> /\ cut' = "none"
      /\ UNCHANGED <<format, made, asked, sent>>
  BY DEF TakeTurn, Goto
<1>3. /\ socket \in Session /\ socket.turns \in Nat /\ asked \in 0..Serials /\ Serials \in Nat
      /\ made \in [1..Serials -> Seq(Events)] /\ serial \in 1..Serials
      /\ seen \in Seq(Events) /\ socket.queue \in Seq(Events)
  BY <1>1, Constants DEF TypeOK, Session
<1>4. /\ ~socket.fatal /\ (socket.done \/ sent[serial] = 0)
      /\ socket.turns + 1 <= asked
      /\ \A i \in 1..Serials : /\ i > socket.turns => sent[i] = 0
                               /\ sent[i] = 0 => made[i] = <<>>
      /\ socket.done => socket.queue = <<>>
      /\ Len(seen) + Len(socket.queue) = Len(made[serial])
  BY <1>1, <1>2, <1>3 DEF Spoken
<1>5. socket.queue = <<>>
  <2>1. CASE socket.done
    BY <1>4, <2>1
  <2>2. CASE sent[serial] = 0
    <3>1. made[serial] = <<>>
      BY <1>3, <1>4, <2>2
    <3>2. Len(socket.queue) = 0
      BY <1>3, <1>4, <3>1
    <3>3. QED
      BY <1>3, <3>2
  <2>3. QED
    BY <1>4, <2>1, <2>2
<1>6. /\ serial' \in 1..Serials /\ sent[serial'] = 0 /\ made[serial'] = <<>>
  BY <1>2, <1>3, <1>4, SMTT(30)
<1>7. /\ socket' \in Session /\ socket'.turns = socket.turns + 1 /\ socket'.done = FALSE
      /\ socket'.queue = <<>> /\ socket'.fatal = FALSE
  <2>1. socket.turns + 1 \in Nat /\ "none" \in Error
    BY <1>3 DEF Error
  <2>2. socket.fatal \in BOOLEAN /\ ~socket.fatal
    BY <1>3, <1>4 DEF Session
  <2>3. QED
    BY <1>2, <1>3, <1>5, <2>1, <2>2 DEF Session
<1>8. TypeOK'
  <2>1. "admit" \in Places("socket")
    BY DEF Places
  <2>2. QED
    BY <1>1, <1>2, <1>6, <1>7, <2>1, Constants DEF TypeOK
<1>9. Terminated' /\ Relayed'
  BY <1>1, <1>2 DEF Terminated, Relayed
<1>10. Spoken'
  <2>1. /\ Part(socket'.queue, made'[serial'], Len(seen'))
        /\ Len(seen') + Len(socket'.queue) = Len(made'[serial'])
    BY <1>2, <1>6, <1>7, Constants
  <2>2. /\ serial' = IF socket'.turns = 0 THEN 1 ELSE socket'.turns
        /\ socket'.turns # 0 /\ socket'.turns + 0 <= asked'
        /\ \A i \in 1..Serials : i > socket'.turns => i > socket.turns
    BY <1>2, <1>3, <1>4, <1>7
  <2>3. QED
    BY <1>2, <1>4, <1>6, <1>7, <2>1, <2>2 DEF Spoken
<1>11. Copied'
  <2>1. Part(got', seen', 0) /\ Part(seen', made'[serial'], 0) /\ Len(got') = Len(seen')
    BY <1>2, <1>6, Constants
  <2>2. QED
    BY <1>2, <2>1, Constants DEF Copied
<1>12. Told'
  BY <1>2, Constants DEF Told
<1>13. QED
  BY <1>1, <1>2, <1>8, <1>9, <1>10, <1>11, <1>12 DEF IInv

\* What the copy loop does with an event or an error that it has read.
LEMMA DeliverStep ==
  ASSUME TypeOK, Copied, at = "read", NEW read \in Chunk, Deliver(read),
         UNCHANGED <<serial, made, got, logged, keep>>,
         outcomes' = outcomes \/ read.error = "eof",
         read.event # Nothing =>
           Len(seen) + 1 <= Len(made[serial]) /\ read.event = made[serial][Len(seen) + 1]
  PROVE  /\ Copied' /\ chunk' \in Chunk /\ at' \in Loop /\ seen' \in Seq(Events)
         /\ read.event = Nothing => seen' = seen /\ at' \in {"read", "close"}
         /\ read.event # Nothing => /\ seen' = Append(seen, read.event) /\ at' = "write"
                                    /\ Len(seen') = Len(seen) + 1
                                    /\ seen'[Len(seen) + 1] = read.event
         /\ chunk' = read /\ cut = "none"
         /\ at' = "read" => outcomes' = <<>>
         /\ outcomes = <<>> /\ logged = <<>> /\ ~keep.closed
<1>1. /\ seen \in Seq(Events) /\ got \in Seq(Events) /\ Len(seen) \in Nat /\ Len(got) = Len(seen)
      /\ made[serial] \in Seq(Events) /\ Part(got, seen, 0) /\ Part(seen, made[serial], 0)
      /\ cut = "none" /\ outcomes = <<>> /\ logged = <<>> /\ ~keep.closed
  BY DEF TypeOK, Copied, Loop
<1>2. read.event \in Events \cup {Nothing} /\ chunk' = read
  BY DEF Deliver, Chunk
<1>3. CASE read.event = Nothing
  <2>1. /\ seen' = seen
        /\ \/ at' = "read" /\ cut' = "none" /\ read.error = "none"
           \/ at' = "close" /\ (cut' = "none" => Len(got) = Len(seen))
    BY <1>1, <1>3 DEF Deliver, GoOnAfter, Goto
  <2>2. at' \in {"read", "close"} /\ (at' = "read" => outcomes' = <<>>)
    BY <1>1, <2>1
  <2>3. Copied'
    BY <1>1, <1>3, <2>1, <2>2 DEF Copied, Early
  <2>4. QED
    BY <1>1, <1>2, <1>3, <2>1, <2>2, <2>3 DEF Loop
<1>4. CASE read.event # Nothing
  <2>1. seen' = Append(seen, read.event) /\ at' = "write" /\ cut' = "none" /\ read.event \in Events
    BY <1>1, <1>2, <1>4 DEF Deliver, Goto
  <2>2. /\ seen' \in Seq(Events) /\ Len(seen') = Len(seen) + 1 /\ seen'[Len(seen) + 1] = read.event
        /\ Part(seen', made[serial], 0)
    <3>1. 0 \in Nat /\ 0 + Len(seen) + 1 <= Len(made[serial])
          /\ read.event = made[serial][0 + Len(seen) + 1]
      BY <1>1, <1>4
    <3>2. QED
      BY <1>1, <2>1, <3>1, PartAppend
  <2>3. Part(got', seen', 0)
    <3>1. Part(got, Append(seen, read.event), 0)
      BY <1>1, <2>1, PartGrows
    <3>2. QED
      BY <2>1, <3>1
  <2>4. Copied'
    BY <1>1, <1>2, <1>4, <2>1, <2>2, <2>3 DEF Copied, Early
  <2>5. QED
    BY <1>1, <1>2, <1>4, <2>1, <2>2, <2>4 DEF Loop
<1>5. QED
  BY <1>3, <1>4

\* A turn reads from the queue, or is told of its end.
LEMMA SocketReadStep ==
  ASSUME IInv, SocketRead
  PROVE  IInv'
<1>1. /\ TypeOK /\ Terminated /\ Spoken /\ Copied /\ Told
      /\ \A i \in 1..Serials : sent[i] <= 1
  BY DEF IInv
<1>2. PICK r \in SocketReads :
        Deliver([event |-> r.event, error |-> r.error]) /\ socket' = r.next
  BY DEF SocketRead
<1>3. /\ at = "read" /\ format = "socket"
      /\ UNCHANGED <<format, serial, made, body, keep, got, outcomes, logged, inbox, asked, sent>>
  BY DEF SocketRead
<1>4. /\ socket \in Session /\ socket.queue \in Seq(Events) /\ seen \in Seq(Events)
      /\ made[serial] \in Seq(Events) /\ Len(seen) \in Nat /\ serial \in 1..Serials
  BY <1>1 DEF TypeOK, Session
<1>5. /\ Part(socket.queue, made[serial], Len(seen))
      /\ Len(seen) + Len(socket.queue) = Len(made[serial])
      /\ socket.done /\ ~socket.fatal =>
           seen # <<>> /\ socket.queue = <<>> /\ Terminal(made[serial][Len(seen)].kind)
      /\ serial = IF socket.turns = 0 THEN 1 ELSE socket.turns
      /\ socket.turns + (IF inbox THEN 1 ELSE 0) <= asked
      /\ \A i \in 1..Serials : /\ i > socket.turns => sent[i] = 0
                               /\ sent[i] = 0 => made[i] = <<>>
  BY <1>1, <1>3 DEF Spoken
<1> DEFINE q == socket.queue
           h == Head(q)
<1>6. \/ r.event = Nothing /\ r.error \in Error /\ r.next = socket
      \/ r.event = Nothing /\ r.error \in Error /\ \E e \in {"idle", "broken"} : r.next = GivenUp(e)
      \/ /\ q # <<>> /\ r.event = h /\ r.error = "none"
         /\ \E f \in {"broken", "none"} :
              r.next = [socket EXCEPT !.queue = Tail(q), !.done = Terminal(h.kind), !.failure = f]
  <2>1. CASE socket.done
    <3>1. socket.failure \in Error
      BY <1>4 DEF Session
    <3>2. QED
      BY <2>1, <3>1 DEF SocketReads, Error
  <2>2. CASE ~socket.done
    <3>1. \/ r = [event |-> Nothing, error |-> "idle", next |-> GivenUp("idle")]
          \/ r = [event |-> Nothing, error |-> "broken", next |-> GivenUp("broken")]
          \/ /\ q # <<>>
             /\ r = [event |-> h, error |-> "none",
                     next |-> [socket EXCEPT !.queue = Tail(q), !.done = Terminal(h.kind),
                                 !.failure = IF h.kind \in {"error", "overload"}
                                             THEN "broken" ELSE "none"]]
      BY <2>2 DEF SocketReads
    <3>2. CASE \E e \in {"idle", "broken"} :
                 r = [event |-> Nothing, error |-> e, next |-> GivenUp(e)]
      BY <3>2 DEF Error
    <3>3. CASE /\ q # <<>>
               /\ r = [event |-> h, error |-> "none",
                       next |-> [socket EXCEPT !.queue = Tail(q), !.done = Terminal(h.kind),
                                   !.failure = IF h.kind \in {"error", "overload"}
                                               THEN "broken" ELSE "none"]]
      <4>1. CASE h.kind \in {"error", "overload"}
        BY <3>3, <4>1
      <4>2. CASE h.kind \notin {"error", "overload"}
        BY <3>3, <4>2
      <4>3. QED
        BY <4>1, <4>2
    <3>4. QED
      BY <3>1, <3>2, <3>3
  <2>3. QED
    BY <2>1, <2>2
<1>7. q # <<>> =>
        /\ Len(seen) + 1 <= Len(made[serial]) /\ h = made[serial][Len(seen) + 1] /\ h \in Events
        /\ Tail(q) \in Seq(Events) /\ Len(Tail(q)) = Len(q) - 1 /\ Len(q) > 0
        /\ Part(Tail(q), made[serial], Len(seen) + 1)
        /\ (Len(seen) + 1) + Len(Tail(q)) = Len(made[serial])
        /\ Len(seen) + 1 = Len(made[serial]) => Tail(q) = <<>>
  <2>1. PICK n \in Nat : n = Len(seen)
    BY <1>4
  <2>2. /\ Part(q, made[serial], n) /\ n + Len(q) = Len(made[serial])
        /\ q \in Seq(Events) /\ made[serial] \in Seq(Events)
    BY <1>4, <1>5, <2>1
  <2> HIDE DEF q
  <2>3. q # <<>> =>
          /\ n + 1 <= Len(made[serial]) /\ Head(q) = made[serial][n + 1] /\ Head(q) \in Events
          /\ Tail(q) \in Seq(Events) /\ Len(Tail(q)) = Len(q) - 1 /\ Len(q) > 0
          /\ Part(Tail(q), made[serial], n + 1)
          /\ (n + 1) + Len(Tail(q)) = Len(made[serial])
          /\ n + 1 = Len(made[serial]) => Tail(q) = <<>>
    <3>1. SUFFICES ASSUME q # <<>>
                   PROVE  /\ n + 1 <= Len(made[serial]) /\ Head(q) = made[serial][n + 1] /\ Head(q) \in Events
                          /\ Tail(q) \in Seq(Events) /\ Len(Tail(q)) = Len(q) - 1 /\ Len(q) > 0
                          /\ Part(Tail(q), made[serial], n + 1)
                          /\ (n + 1) + Len(Tail(q)) = Len(made[serial])
                          /\ n + 1 = Len(made[serial]) => Tail(q) = <<>>
      OBVIOUS
    <3>2. PICK m : m = made[serial]
      OBVIOUS
    <3>3. Part(q, m, n) /\ n + Len(q) = Len(m) /\ q \in Seq(Events) /\ m \in Seq(Events)
      BY <2>2, <3>2
    <3>4. /\ n + 1 <= Len(m) /\ Head(q) = m[n + 1] /\ Head(q) \in Events
          /\ Tail(q) \in Seq(Events) /\ Len(Tail(q)) = Len(q) - 1 /\ Len(q) > 0
          /\ Part(Tail(q), m, n + 1)
          /\ (n + 1) + Len(Tail(q)) = Len(m)
          /\ n + 1 = Len(m) => Tail(q) = <<>>
      BY <2>1, <3>1, <3>3, PartTail, RestTail
    <3>5. QED
      BY <3>2, <3>4
  <2>4. QED
    BY <2>1, <2>3
<1> DEFINE read == [event |-> r.event, error |-> r.error]
<1>8. read \in Chunk /\ read.event = r.event /\ Deliver(read)
  <2>1. r.event \in Events \cup {Nothing} /\ r.error \in Error
    BY <1>6, <1>7 DEF Error
  <2>2. QED
    BY <1>2, <2>1 DEF Chunk
<1>9. read.event # Nothing =>
        Len(seen) + 1 <= Len(made[serial]) /\ read.event = made[serial][Len(seen) + 1]
  BY <1>6, <1>7, <1>8
<1> HIDE DEF read
<1>10. /\ Copied' /\ chunk' \in Chunk /\ at' \in Loop /\ seen' \in Seq(Events)
       /\ r.event = Nothing => seen' = seen
       /\ r.event # Nothing => Len(seen') = Len(seen) + 1
       /\ outcomes = <<>> /\ ~keep.closed
  BY <1>1, <1>3, <1>8, <1>9, DeliverStep
<1>11. Spoken' /\ socket' \in Session
  <2>1. CASE r.event = Nothing /\ r.next = socket
    <3>1. UNCHANGED <<socket, seen>>
      BY <1>2, <1>10, <2>1
    <3>2. at' \notin {"idle", "quiet", "returned", "admit", "dial", "send"}
      BY <1>10 DEF Loop
    <3>3. QED
      BY <1>3, <1>4, <1>5, <3>1, <3>2 DEF Spoken
  <2>2. CASE r.event = Nothing /\ \E e \in {"idle", "broken"} : r.next = GivenUp(e)
    <3>1. /\ seen' = seen /\ socket' \in Session /\ socket'.queue = socket.queue /\ socket'.fatal
          /\ socket'.turns = socket.turns
      BY <1>2, <1>4, <1>10, <2>2 DEF GivenUp, Session, Error
    <3>2. at' \notin {"idle", "quiet", "returned", "admit", "dial", "send"}
      BY <1>10 DEF Loop
    <3>3. QED
      BY <1>3, <1>4, <1>5, <3>1, <3>2 DEF Spoken
  <2>3. CASE /\ q # <<>> /\ r.event = h
             /\ \E f \in {"broken", "none"} :
                  r.next = [socket EXCEPT !.queue = Tail(q), !.done = Terminal(h.kind), !.failure = f]
    <3>1. h \in Events /\ h # Nothing /\ Terminal(h.kind) \in BOOLEAN
      <4>1. h \in Events /\ h # Nothing
        BY <1>7, <2>3, Constants
      <4>2. QED
        BY <4>1 DEF Terminal
    <3>2. /\ socket' \in Session /\ socket'.queue = Tail(q) /\ socket'.fatal = socket.fatal
          /\ socket'.turns = socket.turns /\ socket'.done = Terminal(h.kind)
      BY <1>2, <1>4, <1>7, <2>3, <3>1 DEF Session, Error
    <3>3. Len(seen') = Len(seen) + 1 /\ seen' # <<>>
      BY <1>4, <1>10, <2>3, <3>1
    <3>4. /\ Part(socket'.queue, made'[serial'], Len(seen'))
          /\ Len(seen') + Len(socket'.queue) = Len(made'[serial'])
      <4>1. (Len(seen) + 1) + Len(Tail(q)) = Len(made[serial])
        BY <1>7, <2>3
      <4>2. QED
        BY <1>3, <1>7, <2>3, <3>2, <3>3, <4>1
    \* The terminal event is the last, so that nothing is queued after it.
    <3>5. socket'.done => socket'.queue = <<>> /\ Terminal(made'[serial'][Len(seen')].kind)
      <4> SUFFICES ASSUME Terminal(h.kind)
                   PROVE  Tail(q) = <<>> /\ Terminal(made[serial][Len(seen) + 1].kind)
        BY <1>3, <3>2, <3>3
      <4>1. Len(seen) + 1 \in 1..Len(made[serial]) /\ Terminal(made[serial][Len(seen) + 1].kind)
        <5>1. Len(seen) + 1 <= Len(made[serial]) /\ h = made[serial][Len(seen) + 1]
          BY <1>7, <2>3
        <5>2. Len(made[serial]) \in Nat
          BY <1>4
        <5>3. Len(seen) + 1 \in 1..Len(made[serial])
          BY <1>4, <5>1, <5>2
        <5>4. QED
          BY <5>1, <5>3
      <4>2. Len(seen) + 1 = Len(made[serial])
        BY <1>1, <1>4, <4>1 DEF Terminated
      <4>3. QED
        BY <1>7, <2>3, <4>1, <4>2
    <3>6. at' \notin {"idle", "quiet", "returned", "admit", "dial", "send"}
      BY <1>10 DEF Loop
    <3>7. QED
      BY <1>3, <1>5, <3>2, <3>3, <3>4, <3>5, <3>6 DEF Spoken
  <2>4. QED
    BY <1>6, <2>1, <2>2, <2>3
<1>12. TypeOK'
  <2>1. at' \in Places(format)
    BY <1>10 DEF Places
  <2>2. QED
    BY <1>1, <1>3, <1>10, <1>11, <2>1 DEF TypeOK
<1>13. Told'
  <2>1. at' # "quiet" /\ outcomes' = <<>> /\ Len(outcomes') = 0 /\ ~keep'.closed
    BY <1>3, <1>10 DEF Loop
  <2>2. QED
    BY <1>3, <2>1 DEF Told
<1>14. Terminated' /\ Relayed'
  BY <1>1, <1>3 DEF Terminated, Relayed
<1>15. QED
  BY <1>1, <1>3, <1>10, <1>11, <1>12, <1>13, <1>14 DEF IInv

\* The outcome is told: of what was seen, with what was written.
LEMMA ToldStep ==
  ASSUME IInv, at = "close", at' = "quiet", NEW o,
         UNCHANGED <<format, seen, got, chunk, cut, keep>>,
         o.usage = Usage(seen), o.status = "success" => cut = "none",
         IF format = "socket" THEN outcomes' = Append(outcomes, o)
         ELSE outcomes' = IF outcomes = <<>> /\ CallsBack(seen) THEN <<o>> ELSE outcomes,
         logged' = Append(logged, Record)
  PROVE  Told'
<1>1. /\ Told /\ Copied /\ logged = <<>> /\ ~keep.closed
      /\ cut = "none" => Len(got) = Len(seen)
      /\ format = "socket" => outcomes = <<>>
  BY DEF IInv, Copied, Told, Loop
<1>2. Len(logged') = 1
  BY <1>1
<1>3. Usage(seen)' = Usage(seen) /\ (CallsBack(seen)' <=> CallsBack(seen))
  BY SameSeen
<1>4. outcomes' = outcomes \/ outcomes' = <<o>>
  BY <1>1
<1>5. \A i \in 1..Len(outcomes') :
        /\ outcomes'[i].usage = Usage(seen)
        /\ outcomes'[i].status = "success" => Len(got) = Len(seen) \/ LastWithEnd
  <2>1. CASE outcomes' = outcomes
    BY <1>1, <2>1 DEF Told
  <2>2. CASE outcomes' = <<o>>
    BY <1>1, <2>2
  <2>3. QED
    BY <1>4, <2>1, <2>2
<1>6. /\ outcomes' = <<>> \/ Len(outcomes') = 1
      /\ format # "socket" /\ outcomes' # <<>> => CallsBack(seen)
      /\ format = "socket" \/ CallsBack(seen) => Len(outcomes') = 1
  <2>1. CASE format = "socket"
    BY <1>1, <2>1
  <2>2. CASE format # "socket"
    <3>1. outcomes = <<>> \/ Len(outcomes) = 1
      BY <1>1 DEF Told
    <3>2. outcomes # <<>> => CallsBack(seen)
      BY <1>1, <2>2 DEF Told
    <3>3. Len(<<o>>) = 1
      OBVIOUS
    <3>4. QED
      BY <2>2, <3>1, <3>2, <3>3
  <2>3. QED
    BY <2>1, <2>2
<1>7. QED
  BY <1>1, <1>2, <1>3, <1>5, <1>6 DEF Told, LastWithEnd, Loop

\* The connection of a turn that did not end is given up.
LEMMA SocketCloseStep ==
  ASSUME IInv, SocketClose
  PROVE  IInv'
<1>1. /\ TypeOK /\ Terminated /\ Spoken /\ Copied
      /\ \A i \in 1..Serials : sent[i] <= 1
  BY DEF IInv
<1>2. /\ at = "close" /\ at' = "quiet" /\ format = "socket"
      /\ socket' = IF ~socket.done \/ socket.fatal
                   THEN [socket EXCEPT !.conn = "dead", !.fatal = TRUE] ELSE socket
      /\ outcomes' = Append(outcomes, [status |-> SocketStatus, usage |-> Usage(seen)])
      /\ logged' = Append(logged, Record)
      /\ UNCHANGED <<format, serial, made, body, seen, chunk, keep, got, cut, inbox, asked, sent>>
  BY DEF SocketClose, Goto
<1>3. Told'
  <2>1. SocketStatus = "success" => cut = "none"
    BY DEF SocketStatus
  <2>2. PICK o : o = [status |-> SocketStatus, usage |-> Usage(seen)]
    OBVIOUS
  <2>3. o.status = SocketStatus /\ o.usage = Usage(seen)
    BY <2>2
  <2>4. outcomes' = Append(outcomes, o)
    BY <1>2, <2>2
  <2>5. QED
    BY <1>2, <2>1, <2>3, <2>4, ToldStep
<1>4. /\ socket' \in Session /\ socket'.queue = socket.queue /\ socket'.turns = socket.turns
      /\ socket'.done = socket.done /\ (~socket'.fatal => socket.done /\ ~socket.fatal)
  <2>1. socket \in Session
    BY <1>1 DEF TypeOK
  <2>2. QED
    BY <1>2, <2>1 DEF Session
<1>5. Spoken'
  BY <1>1, <1>2, <1>4 DEF Spoken
<1>6. TypeOK'
  BY <1>1, <1>2, <1>4 DEF TypeOK, Places
<1>7. Terminated' /\ Relayed'
  BY <1>1, <1>2 DEF Terminated, Relayed
<1>8. Copied'
  BY <1>1, <1>2 DEF Copied, Early, Loop
<1>9. QED
  BY <1>1, <1>2, <1>3, <1>5, <1>6, <1>7, <1>8 DEF IInv

----------------------------------------------------------------------------
(* The copy loop and the keepalive.                                        *)

\* Between reads neither the body nor the session changes.
LEMMA WriterFrame ==
  ASSUME IInv, UNCHANGED <<format, serial, made, body, seen, chunk, socketVars>>,
         at \in {"commit", "write", "writing", "quiet"},
         at' \in {"read", "write", "writing", "close"} \/ (at = "quiet" /\ at' = "returned"),
         keep' \in Keep, got' \in Seq(Events)
  PROVE  /\ TypeOK' /\ Terminated' /\ Relayed' /\ Spoken'
         /\ \A i \in 1..Serials : sent'[i] <= 1 /\ (format' # "socket" => sent'[i] = 0)
<1>1. TypeOK /\ Terminated /\ Relayed /\ Spoken
  BY DEF IInv
<1>2. UNCHANGED <<socket, inbox, asked, sent>>
  BY DEF socketVars
<1>3. at' \in Places(format)
  BY DEF Places, Loop
<1>4. TypeOK'
  BY <1>1, <1>2, <1>3 DEF TypeOK
<1>5. Terminated' /\ Relayed'
  BY <1>1 DEF Terminated, Relayed
<1>6. Spoken'
  BY <1>1, <1>2 DEF Spoken
<1>7. QED
  BY <1>2, <1>4, <1>5, <1>6 DEF IInv

\* The stream is committed, each event is written, and the keepalive closed.
LEMMA WriterStep ==
  ASSUME IInv, UNCHANGED socketVars,
         Commit \/ BeginWrite \/ Written \/ WriteFails \/ CloseKeepalive
  PROVE  IInv'
<1>1. /\ TypeOK /\ Copied /\ Told /\ keep \in Keep /\ got \in Seq(Events) /\ seen \in Seq(Events)
      /\ made[serial] \in Seq(Events) /\ chunk \in Chunk
      /\ Part(got, seen, 0) /\ Part(seen, made[serial], 0)
  BY DEF IInv, TypeOK, Copied
<1>2. UNCHANGED <<format, serial, made, body, seen, chunk>>
  BY DEF Commit, BeginWrite, Written, WriteFails, CloseKeepalive
<1>3. Usage(seen)' = Usage(seen) /\ (CallsBack(seen)' <=> CallsBack(seen))
  BY <1>2, SameSeen
<1>4. CASE Commit
  <2>1. /\ at = "commit" /\ at' = "read" /\ keep' = [NoKeep EXCEPT !.timer = TRUE]
        /\ UNCHANGED <<got, cut, outcomes, logged>>
    BY <1>4 DEF Commit, Goto
  <2>2. keep' \in Keep /\ ~keep'.closed
    BY <2>1, Constants DEF NoKeep, Keep
  <2>3. Copied' /\ Told'
    BY <1>1, <1>2, <2>1, <2>2 DEF Copied, Told, Early, Loop
  <2>4. QED
    BY <1>1, <1>2, <2>1, <2>2, <2>3, WriterFrame DEF IInv
<1>5. CASE BeginWrite
  <2>1. /\ at = "write" /\ at' = "writing" /\ keep' = [keep EXCEPT !.mutex = "copy"]
        /\ UNCHANGED <<got, cut, outcomes, logged>>
    BY <1>5 DEF BeginWrite, Goto
  <2>2. keep' \in Keep /\ keep'.closed = keep.closed /\ ~keep.closed
    BY <1>1, <2>1 DEF Keep, Copied, Loop
  <2>3. Copied'
    BY <1>1, <1>2, <2>1, <2>2 DEF Copied, Early, Loop
  <2>4. Told'
    BY <1>1, <1>2, <1>3, <2>1, <2>2 DEF Told, LastWithEnd, Loop
  <2>5. QED
    BY <1>1, <1>2, <2>1, <2>2, <2>3, <2>4, WriterFrame DEF IInv
<1>6. CASE Written \/ WriteFails
  <2>1. /\ at = "writing" /\ at' \in {"read", "close"}
        /\ UNCHANGED <<outcomes, logged>>
        /\ \/ /\ got' = Append(got, chunk.event)
              /\ keep' = [keep EXCEPT !.mutex = "free", !.timer = TRUE]
              /\ at' = "read" => chunk.error = "none" /\ cut' = cut
           \/ /\ got' = got /\ at' = "close" /\ cut' = "write"
              /\ keep' = [keep EXCEPT !.mutex = "free"]
    BY <1>6 DEF Written, WriteFails, GoOnAfter, Goto
  <2>2. /\ cut = "none" /\ chunk.event # Nothing /\ Len(seen) = Len(got) + 1
        /\ seen[Len(seen)] = chunk.event /\ logged = <<>> /\ ~keep.closed
    BY <1>1, <2>1 DEF Copied, Loop
  <2>3. keep' \in Keep /\ keep'.closed = keep.closed
    BY <1>1, <2>1 DEF Keep
  <2>4. CASE got' = Append(got, chunk.event)
    <3>1. chunk.event \in Events
      BY <1>1, <2>2 DEF Chunk
    <3>2. 0 \in Nat /\ 0 + Len(got) + 1 <= Len(seen) /\ chunk.event = seen[0 + Len(got) + 1]
      BY <1>1, <2>2
    <3>3. /\ Append(got, chunk.event) \in Seq(Events)
          /\ Len(Append(got, chunk.event)) = Len(got) + 1
          /\ Part(Append(got, chunk.event), seen, 0)
      BY <1>1, <3>1, <3>2, PartAppend
    <3>4. got' \in Seq(Events) /\ Part(got', seen, 0) /\ Len(got') = Len(seen)
      BY <2>2, <2>4, <3>3
    <3>5. at' = "read" => cut' = "none" /\ chunk.error = "none"
      BY <1>1, <2>1, <2>2, <2>4
    <3>6. at' = "read" => outcomes = <<>>
      <4>1. outcomes # <<>> => chunk.error = "eof"
        BY <1>1, <2>1 DEF Told
      <4>2. QED
        BY <3>5, <4>1
    <3>7. Copied'
      BY <1>1, <1>2, <2>1, <2>2, <2>3, <3>4, <3>5, <3>6 DEF Copied, Early
    <3>8. Told'
      BY <1>1, <1>2, <1>3, <2>1, <2>2, <2>3, <3>4 DEF Told, LastWithEnd, Loop
    <3>9. QED
      BY <1>1, <1>2, <2>1, <2>3, <3>4, <3>7, <3>8, WriterFrame DEF IInv
  <2>5. CASE got' = got /\ at' = "close" /\ cut' = "write"
    <3>1. Copied'
      BY <1>1, <1>2, <2>1, <2>2, <2>3, <2>5 DEF Copied, Early
    <3>2. Told'
      BY <1>1, <1>2, <1>3, <2>1, <2>2, <2>3, <2>5 DEF Told, LastWithEnd, Loop
    <3>3. QED
      BY <1>1, <1>2, <2>1, <2>3, <2>5, <3>1, <3>2, WriterFrame DEF IInv
  <2>6. QED
    BY <2>1, <2>4, <2>5
<1>7. CASE CloseKeepalive
  <2>1. /\ at = "quiet" /\ at' = "returned" /\ keep.mutex = "free"
        /\ keep' = [keep EXCEPT !.closed = TRUE, !.timer = FALSE]
        /\ UNCHANGED <<got, cut, outcomes, logged>>
    BY <1>7 DEF CloseKeepalive, Goto
  <2>2. keep' \in Keep /\ keep'.mutex = "free" /\ keep'.closed = TRUE
    BY <1>1, <2>1 DEF Keep
  <2>3. Copied'
    BY <1>1, <1>2, <2>1, <2>2 DEF Copied, Early, Loop
  <2>4. Told'
    BY <1>1, <1>2, <1>3, <2>1, <2>2 DEF Told, LastWithEnd, Loop
  <2>5. QED
    BY <1>1, <1>2, <2>1, <2>2, <2>3, <2>4, WriterFrame DEF IInv
<1>8. QED
  BY <1>4, <1>5, <1>6, <1>7

----------------------------------------------------------------------------
(* An upstream's answer: the probe, another upstream, the copy loop.       *)

\* Before anything is copied, the rest of the invariant follows from what is
\* held back and unread.
LEMMA HeldStep ==
  ASSUME IInv, format # "socket", at \in {"call", "probe", "overloaded"},
         at' \in {"call", "probe", "overloaded", "commit"},
         UNCHANGED <<format, made, seen, chunk, keep, got, cut, outcomes, logged, socketVars>>,
         serial' \in 1..Serials, body' \in Body, Relayed'
  PROVE  IInv'
<1>1. TypeOK /\ Terminated /\ Copied /\ Told
  BY DEF IInv
<1>2. UNCHANGED <<socket, inbox, asked, sent>>
  BY DEF socketVars
<1>3. TypeOK'
  BY <1>1, <1>2 DEF TypeOK, Places
<1>4. Terminated' /\ Spoken'
  BY <1>1 DEF Terminated, Spoken
<1>5. seen = <<>> /\ Len(got) = Len(seen) /\ outcomes = <<>> /\ cut = "none" /\ logged = <<>> /\ ~keep.closed
  BY <1>1 DEF Copied, Early
<1>6. Copied'
  <2>1. Len(made'[serial']) \in Nat
    BY <1>3 DEF TypeOK
  <2>2. Part(seen', made'[serial'], 0)
    BY <1>5, <2>1, Constants
  <2>3. Part(got', seen', 0)
    BY <1>1 DEF Copied
  <2>4. QED
    BY <1>5, <2>2, <2>3 DEF Copied, Loop
<1>7. Told'
  BY <1>5, Constants DEF Told
<1>8. QED
  BY <1>2, <1>3, <1>4, <1>6, <1>7 DEF IInv

\* What a Read of the body takes from it.
LEMMA ReadsStep ==
  ASSUME TypeOK, NEW r \in Reads, NEW n \in Nat, body.rest,
         Part(body.unread, made[serial], n), n + Len(body.unread) = Len(made[serial])
  PROVE  /\ Watched(r) \in Chunk /\ Watched(r).event = r.event
         /\ Taken(Watched(r)) \in Body /\ Taken(Watched(r)).replay = body.replay
         /\ Taken(Watched(r)).rest = body.rest
         /\ r.event = Nothing => Taken(Watched(r)).unread = body.unread
         /\ r.event # Nothing =>
              /\ r.event \in Events /\ n + 1 <= Len(made[serial]) /\ r.event = made[serial][n + 1]
              /\ Part(Taken(Watched(r)).unread, made[serial], n + 1)
              /\ (n + 1) + Len(Taken(Watched(r)).unread) = Len(made[serial])
<1>1. /\ body \in Body /\ body.unread \in Seq(Events) /\ made[serial] \in Seq(Events)
  BY DEF TypeOK, Body
<1>2. /\ r.error \in Error
      /\ \/ r = [event |-> Nothing, error |-> r.error]
         \/ body.unread # <<>> /\ r = [event |-> Head(body.unread), error |-> r.error]
  BY DEF Reads, Error
<1>3. body.unread # <<>> =>
        /\ n + 1 <= Len(made[serial]) /\ Head(body.unread) = made[serial][n + 1]
        /\ Head(body.unread) \in Events /\ Tail(body.unread) \in Seq(Events)
        /\ Part(Tail(body.unread), made[serial], n + 1)
        /\ (n + 1) + Len(Tail(body.unread)) = Len(made[serial])
  <2> DEFINE u == body.unread
             m == made[serial]
  <2>1. u \in Seq(Events) /\ m \in Seq(Events) /\ Part(u, m, n) /\ n + Len(u) = Len(m)
    BY <1>1
  <2> HIDE DEF u, m
  <2>2. u # <<>> =>
          /\ n + 1 <= Len(m) /\ Head(u) = m[n + 1] /\ Head(u) \in Events
          /\ Tail(u) \in Seq(Events) /\ Part(Tail(u), m, n + 1) /\ (n + 1) + Len(Tail(u)) = Len(m)
    BY <2>1, PartTail, RestTail
  <2>3. QED
    BY <2>2 DEF u, m
<1>4. r \in Chunk
  <2>1. CASE r = [event |-> Nothing, error |-> r.error]
    BY <1>2, <2>1 DEF Chunk
  <2>2. CASE body.unread # <<>> /\ r = [event |-> Head(body.unread), error |-> r.error]
    <3>1. PICK h \in Events : h = Head(body.unread)
      BY <1>3, <2>2
    <3>2. r = [event |-> h, error |-> r.error]
      BY <2>2, <3>1
    <3>3. QED
      BY <1>2, <3>1, <3>2 DEF Chunk
  <2>3. QED
    BY <1>2, <2>1, <2>2
<1>5. Watched(r) \in Chunk /\ Watched(r).event = r.event
  BY <1>4 DEF Watched, Chunk, Error
<1>6. CASE r.event = Nothing
  BY <1>1, <1>5, <1>6 DEF Taken
<1>7. CASE r.event # Nothing
  <2>1. body.unread # <<>> /\ r.event = Head(body.unread)
    BY <1>2, <1>7
  <2>2. Taken(Watched(r)) = [body EXCEPT !.unread = Tail(body.unread)]
    BY <1>5, <1>7 DEF Taken
  <2>3. /\ Taken(Watched(r)) \in Body /\ Taken(Watched(r)).replay = body.replay
        /\ Taken(Watched(r)).rest = body.rest /\ Taken(Watched(r)).unread = Tail(body.unread)
    BY <1>1, <1>3, <2>1, <2>2 DEF Body
  <2>4. QED
    BY <1>3, <1>5, <1>7, <2>1, <2>3
<1>8. QED
  BY <1>6, <1>7

\* The probe reads.  What it holds back follows in order, with nothing generated
\* in it unless it commits, and a refusal is the end of the answer.
LEMMA ProbeStep ==
  ASSUME IInv, UNCHANGED socketVars, Probe
  PROVE  IInv'
<1>1. TypeOK /\ Terminated /\ Relayed /\ Copied
  BY DEF IInv
<1>2. /\ at = "probe"
      /\ UNCHANGED <<format, serial, made, seen, chunk, keep, got, cut, outcomes, logged>>
  BY DEF Probe
<1>3. format # "socket" /\ seen = <<>>
  BY <1>1, <1>2 DEF TypeOK, Places, Loop, Copied, Early
<1> DEFINE m == made[serial]
           p == body.replay
<1>4. /\ body \in Body /\ p \in Seq(Events) /\ body.unread \in Seq(Events) /\ m \in Seq(Events)
      /\ serial \in 1..Serials /\ Len(p) \in Nat /\ Len(seen) = 0
  BY <1>1, <1>3 DEF TypeOK, Body
<1>5. /\ body.rest /\ Part(p, m, 0) /\ Part(body.unread, m, Len(p))
      /\ Len(p) + Len(body.unread) = Len(m)
      /\ \A i \in 1..Len(p) : p[i].kind = "meta"
      /\ \A i \in 1..Serials : /\ i < serial => "output" \notin Kinds(made[i])
                               /\ i > serial => made[i] = <<>>
  <2>1. /\ body.rest /\ Part(p, m, Len(seen)) /\ Part(body.unread, m, Len(seen) + Len(p))
        /\ Len(seen) + Len(p) + Len(body.unread) = Len(m)
        /\ \A i \in 1..Len(p) : p[i].kind = "meta"
        /\ \A i \in 1..Serials : /\ i < serial => "output" \notin Kinds(made[i])
                                 /\ i > serial => made[i] = <<>>
    BY <1>1, <1>2, <1>3 DEF Relayed
  <2>2. PICK k \in Nat : k = Len(p)
    BY <1>4
  <2>3. Len(seen) + k = k /\ Len(body.unread) \in Nat
    BY <1>4
  <2>4. QED
    BY <1>4, <2>1, <2>2, <2>3
<1>6. PICK r \in Reads :
        LET read == Watched(r)
        IN  \/ ProbeOverload(read) \/ ProbeCommits(read) \/ ProbeFull(read)
            \/ ProbeGoesOn(read) \/ ProbeFails(read)
  BY DEF Probe
<1> DEFINE read == Watched(r)
           t == Taken(read)
           k == Held(read)
<1>7. /\ read \in Chunk /\ read.event = r.event /\ t \in Body /\ t.replay = p /\ t.rest
      /\ r.event = Nothing => t.unread = body.unread
      /\ r.event # Nothing =>
           /\ r.event \in Events /\ Len(p) + 1 <= Len(m) /\ r.event = m[Len(p) + 1]
           /\ Part(t.unread, m, Len(p) + 1) /\ (Len(p) + 1) + Len(t.unread) = Len(m)
  <2>1. PICK n \in Nat : n = Len(p)
    BY <1>4
  <2>2. Part(body.unread, made[serial], n) /\ n + Len(body.unread) = Len(made[serial])
    BY <1>5, <2>1
  <2>3. QED
    BY <1>1, <1>5, <2>1, <2>2, ReadsStep
\* With the event read, what is held back and what is unread are the answer.
<1>8. /\ k \in Seq(Events) /\ Part(k, m, 0) /\ Part(t.unread, m, Len(k))
      /\ Len(k) + Len(t.unread) = Len(m) /\ t.unread \in Seq(Events)
      /\ r.event = Nothing => k = p
      /\ r.event # Nothing => /\ Len(k) = Len(p) + 1 /\ k[Len(k)] = r.event
                              /\ \A i \in 1..Len(p) : k[i] = p[i]
  <2>1. t.unread \in Seq(Events)
    BY <1>7 DEF Body
  <2>2. CASE r.event = Nothing
    BY <1>4, <1>5, <1>7, <2>1, <2>2 DEF Held
  <2>3. CASE r.event # Nothing
    <3>1. k = Append(p, r.event) /\ r.event \in Events
      BY <1>7, <2>3 DEF Held
    <3>2. 0 \in Nat /\ 0 + Len(p) + 1 <= Len(m) /\ r.event = m[0 + Len(p) + 1]
      <4>1. Len(p) + 1 <= Len(m) /\ r.event = m[Len(p) + 1]
        BY <1>7, <2>3
      <4>2. 0 + Len(p) + 1 = Len(p) + 1
        BY <1>4
      <4>3. QED
        BY <4>1, <4>2
    <3>3. /\ Append(p, r.event) \in Seq(Events) /\ Len(Append(p, r.event)) = Len(p) + 1
          /\ Append(p, r.event)[Len(p) + 1] = r.event
          /\ Part(Append(p, r.event), m, 0)
      BY <1>4, <1>5, <3>1, <3>2, PartAppend, SMTT(30)
    <3>4. \A i \in 1..Len(p) : Append(p, r.event)[i] = p[i]
      BY <1>4, <3>1
    <3>5. QED
      BY <1>4, <1>7, <2>1, <2>3, <3>1, <3>3, <3>4
  <2>4. QED
    BY <2>2, <2>3
<1> HIDE DEF k, t, read, m, p
<1>9. ASSUME \/ body' = [t EXCEPT !.replay = k]
             \/ \E e \in Error : body' = [t EXCEPT !.replay = k, !.pending = e]
      PROVE  body' \in Body /\ body'.replay = k /\ body'.unread = t.unread /\ body'.rest
  <2>1. CASE body' = [t EXCEPT !.replay = k]
    BY <1>7, <1>8, <2>1 DEF Body
  <2>2. CASE \E e \in Error : body' = [t EXCEPT !.replay = k, !.pending = e]
    BY <1>7, <1>8, <2>2 DEF Body
  <2>3. QED
    BY <1>9, <2>1, <2>2
<1>10. ASSUME body' = [NoBody EXCEPT !.replay = k, !.rest = FALSE, !.closed = TRUE]
       PROVE  /\ body' \in Body /\ body'.replay = k /\ body'.unread = <<>> /\ ~body'.rest /\ body'.closed
  BY <1>8, <1>10, Constants DEF NoBody, Body
<1>11. \A i : Kinds(made[i])' = Kinds(made[i])
  BY <1>2 DEF Kinds
<1>12. read.error \in Error
  BY <1>7 DEF Chunk
<1>13. read.event \in Events \cup {Nothing} /\ Nothing.kind = "none"
  BY <1>7 DEF Chunk, Nothing
<1>14. CASE ProbeOverload(read)
  <2>1. /\ read.event.kind = "overload" /\ at' = "overloaded"
        /\ body' = [NoBody EXCEPT !.replay = k, !.rest = FALSE, !.closed = TRUE]
    BY <1>14 DEF ProbeOverload, Overloads, Goto, k
  <2>2. r.event # Nothing
    BY <1>7, <1>13, <2>1
  <2>3. "output" \notin Kinds(m)
    <3>1. Len(p) + 1 \in 1..Len(m) /\ Terminal(m[Len(p) + 1].kind)
      <4>1. Len(p) + 1 <= Len(m) /\ read.event = m[Len(p) + 1]
        BY <1>7, <2>2
      <4>2. Len(p) + 1 \in 1..Len(m)
        BY <1>4, <4>1
      <4>3. QED
        BY <2>1, <4>1, <4>2 DEF Terminal
    <3>2. Len(p) + 1 = Len(m)
      BY <1>1, <1>4, <3>1 DEF Terminated, m
    <3>3. ASSUME NEW i \in 1..Len(m) PROVE m[i].kind # "output"
      <4>1. CASE i = Len(m)
        BY <1>7, <2>1, <2>2, <3>2, <4>1
      <4>2. CASE i # Len(m)
        <5>1. i \in 1..Len(p)
          BY <1>4, <3>2, <4>2
        <5>2. m[i] = p[i]
          BY <1>5, <5>1, <1>4 DEF Part
        <5>3. QED
          BY <1>5, <5>1, <5>2
      <4>3. QED
        BY <4>1, <4>2
    <3>4. QED
      BY <3>3 DEF Kinds
  <2>4. Relayed'
    BY <1>2, <1>3, <1>4, <1>5, <1>8, <1>10, <1>11, <2>1, <2>3 DEF Relayed, m
  <2>5. QED
    BY <1>2, <1>3, <1>4, <1>10, <2>1, <2>4, HeldStep
<1>15. ASSUME at' \in {"commit", "probe"}, body' \in Body, body'.replay = k,
              body'.unread = t.unread, body'.rest,
              at' = "probe" => \A i \in 1..Len(k) : k[i].kind = "meta"
       PROVE  IInv'
  <2>1. Relayed'
    BY <1>2, <1>3, <1>4, <1>5, <1>8, <1>11, <1>15 DEF Relayed, m
  <2>2. QED
    BY <1>2, <1>3, <1>4, <1>15, <2>1, HeldStep
<1>16. CASE ProbeCommits(read)
  <2>1. at' = "commit" /\ body' = [t EXCEPT !.replay = k, !.pending = read.error]
    BY <1>16 DEF ProbeCommits, Goto, k, t
  <2>2. QED
    BY <1>9, <1>12, <1>15, <2>1
<1>17. CASE ProbeFull(read)
  <2>1. at' = "commit" /\ body' = [t EXCEPT !.replay = k]
    BY <1>17 DEF ProbeFull, Goto, k, t
  <2>2. QED
    BY <1>9, <1>15, <2>1
<1>18. CASE ProbeGoesOn(read)
  <2>1. at' = at /\ body' = [t EXCEPT !.replay = k] /\ HoldsBack(read)
    BY <1>18 DEF ProbeGoesOn, k, t
  <2>2. read.event # Nothing => read.event.kind = "meta"
    BY <1>13, <2>1 DEF HoldsBack, HeldBack, Overloads, AllowsCommit, Events, Kind
  <2>3. ASSUME NEW i \in 1..Len(k) PROVE k[i].kind = "meta"
    <3>1. CASE r.event = Nothing
      BY <1>5, <1>8, <3>1
    <3>2. CASE r.event # Nothing
      <4>1. i = Len(k) \/ i \in 1..Len(p)
        BY <1>4, <1>8, <3>2
      <4>2. QED
        BY <1>5, <1>7, <1>8, <2>2, <3>2, <4>1
    <3>3. QED
      BY <3>1, <3>2
  <2>4. QED
    BY <1>2, <1>9, <1>15, <2>1, <2>3
<1>19. CASE ProbeFails(read)
  <2>1. /\ at' = "commit"
        /\ \/ body' = [NoBody EXCEPT !.replay = k, !.rest = FALSE, !.closed = TRUE]
           \/ body' = [t EXCEPT !.replay = k, !.pending = read.error]
    BY <1>19 DEF ProbeFails, Goto, k, t
  <2>2. CASE body' = [NoBody EXCEPT !.replay = k, !.rest = FALSE, !.closed = TRUE]
    <3>1. Relayed'
      BY <1>2, <1>3, <1>4, <1>5, <1>8, <1>10, <1>11, <2>1, <2>2 DEF Relayed, m
    <3>2. QED
      BY <1>2, <1>3, <1>4, <1>10, <2>1, <2>2, <3>1, HeldStep
  <2>3. CASE body' = [t EXCEPT !.replay = k, !.pending = read.error]
    BY <1>9, <1>12, <1>15, <2>1, <2>3
  <2>4. QED
    BY <2>1, <2>2, <2>3
<1>20. QED
  BY <1>6, <1>14, <1>16, <1>17, <1>18, <1>19 DEF read

\* An upstream is called, another one is tried, or the refusal is the answer.
LEMMA TriedStep ==
  ASSUME IInv, UNCHANGED socketVars, Answer \/ TryNext \/ NoneLeft
  PROVE  IInv'
<1>1. /\ TypeOK /\ Relayed /\ Copied /\ body \in Body /\ serial \in 1..Serials /\ Serials \in Nat
      /\ made[serial] \in Seq(Events)
  BY Constants DEF IInv, TypeOK
<1>2. UNCHANGED <<format, made, seen, chunk, keep, got, cut, outcomes, logged>>
  BY DEF Answer, TryNext, NoneLeft
<1>3. at \in {"call", "overloaded"} /\ format # "socket" /\ seen = <<>>
  <2>1. at \in {"call", "overloaded"}
    BY DEF Answer, TryNext, NoneLeft
  <2>2. QED
    BY <1>1, <2>1 DEF TypeOK, Places, Loop, Copied, Early
<1>4. \A i : Kinds(made[i])' = Kinds(made[i])
  BY <1>2 DEF Kinds
<1>5. CASE Answer
  <2>1. at = "call" /\ at' \in {"probe", "commit"} /\ UNCHANGED <<serial, body>>
    BY <1>5 DEF Answer, Goto
  <2>2. Relayed'
    BY <1>1, <1>2, <1>3, <1>4, <2>1 DEF Relayed
  <2>3. QED
    BY <1>1, <1>2, <1>3, <2>1, <2>2, HeldStep
<1>6. CASE TryNext
  <2>1. /\ at = "overloaded" /\ at' = "call" /\ serial < Serials
        /\ serial' = serial + 1 /\ body' = NoBody
    BY <1>6 DEF TryNext, Goto
  <2>2. serial' \in 1..Serials /\ serial' > serial
    BY <1>1, <2>1
  <2>3. /\ "output" \notin Kinds(made[serial]) /\ made[serial'] = <<>>
        /\ \A i \in 1..Serials : /\ i < serial => "output" \notin Kinds(made[i])
                                 /\ i > serial => made[i] = <<>>
    BY <1>1, <1>3, <2>1, <2>2 DEF Relayed
  <2>4. \A i \in 1..Serials : /\ i < serial' => "output" \notin Kinds(made[i])
                              /\ i > serial' => made[i] = <<>>
    <3>1. ASSUME NEW i \in 1..Serials, i < serial' PROVE i < serial \/ i = serial
      BY <1>1, <2>1, <3>1
    <3>2. ASSUME NEW i \in 1..Serials, i > serial' PROVE i > serial
      BY <1>1, <2>1, <3>2
    <3>3. QED
      BY <2>3, <3>1, <3>2
  <2>5. /\ Part(body'.replay, made'[serial'], Len(seen')) /\ body'.rest
        /\ Part(body'.unread, made'[serial'], Len(seen') + Len(body'.replay))
        /\ Len(seen') + Len(body'.replay) + Len(body'.unread) = Len(made'[serial'])
        /\ Len(body'.replay) = 0
    <3>1. body' = NoBody /\ NoBody.replay = <<>> /\ NoBody.unread = <<>> /\ Len(<<>>) = 0
          /\ seen' = <<>> /\ made'[serial'] = <<>> /\ NoBody.rest
      BY <1>2, <1>3, <2>1, <2>3, Constants
    <3>2. Part(<<>>, <<>>, 0)
      BY Constants
    <3>3. QED
      BY <3>1, <3>2
  <2>6. Relayed'
    BY <1>2, <1>3, <1>4, <2>1, <2>4, <2>5 DEF Relayed
  <2>7. QED
    BY <1>2, <1>3, <2>1, <2>2, <2>6, Constants, HeldStep
<1>7. CASE NoneLeft
  <2>1. PICK k \in 0..Len(body.replay) :
          /\ at = "overloaded" /\ at' = "commit" /\ UNCHANGED serial
          /\ body' = [body EXCEPT !.replay = SubSeq(body.replay, 1, k), !.saturated = TRUE]
    <3>1. Len(body.replay) \in Nat /\ RestoreLimit \in Nat
      BY <1>1, Constants DEF Body
    <3>2. (IF Len(body.replay) < RestoreLimit THEN Len(body.replay) ELSE RestoreLimit)
            \in 0..Len(body.replay)
      BY <3>1
    <3>3. QED
      BY <1>7, <3>2 DEF NoneLeft, Goto
  <2>2. /\ ~body.rest /\ body.unread = <<>> /\ body.closed
        /\ Part(body.replay, made[serial], Len(seen))
        /\ \A i \in 1..Serials : /\ i < serial => "output" \notin Kinds(made[i])
                                 /\ i > serial => made[i] = <<>>
    BY <1>1, <1>3, <2>1 DEF Relayed
  <2>3. /\ SubSeq(body.replay, 1, k) \in Seq(Events)
        /\ Part(SubSeq(body.replay, 1, k), made[serial], Len(seen))
    <3>1. body.replay \in Seq(Events) /\ Len(seen) \in Nat
      BY <1>1, <1>3, Constants DEF Body
    <3>2. PICK n \in Nat : n = Len(seen)
      BY <3>1
    <3>3. Part(body.replay, made[serial], n)
      BY <2>2, <3>2
    <3>4. QED
      BY <1>1, <3>1, <3>2, <3>3, PartBegins
  <2>4. /\ body' \in Body /\ body'.replay = SubSeq(body.replay, 1, k) /\ body'.unread = <<>>
        /\ ~body'.rest /\ body'.closed
    BY <1>1, <2>1, <2>2, <2>3 DEF Body
  <2>5. Relayed'
    BY <1>2, <1>3, <1>4, <2>1, <2>2, <2>3, <2>4 DEF Relayed
  <2>6. QED
    BY <1>1, <1>2, <1>3, <2>1, <2>4, <2>5, HeldStep
<1>8. QED
  BY <1>5, <1>6, <1>7

\* What the interceptor makes of the end: nothing was told before, and it is of
\* what it has seen until now.
LEMMA ReadTold ==
  ASSUME Told, at = "read", format' = format, format # "socket", outcomes = <<>>, cut = "none",
         ~keep.closed, keep' = keep, NEW read \in Chunk, chunk' = read,
         outcomes' = IF read.error = "eof" THEN Finished(seen') ELSE outcomes,
         read.event # Nothing => at' = "write",
         read.event = Nothing => at' \in {"read", "close"} /\ seen' = seen /\ got' = got /\ Len(got) = Len(seen)
  PROVE  Told'
<1>1. at' # "quiet" /\ ~keep'.closed
  OBVIOUS
<1>2. CASE outcomes' = <<>>
  BY <1>1, <1>2, Constants DEF Told
<1>3. CASE outcomes' # <<>>
  <2>1. read.error = "eof" /\ CallsBack(seen') /\ outcomes' = <<Outcome(seen')>>
    BY <1>3 DEF Finished
  <2>2. Len(outcomes') = 1 /\ outcomes'[1] = Outcome(seen')
    BY <2>1
  <2>3. outcomes'[1].usage = Usage(seen')
    BY <2>2 DEF Outcome
  <2>4. Usage(seen)' = Usage(seen') /\ (CallsBack(seen)' <=> CallsBack(seen'))
    BY DEF Usage, MessagesUsage, ChatCompletionsUsage, ImageUsage, GeminiUsage, CallsBack, Kinds
  <2>5. LastWithEnd' \/ Len(got') = Len(seen')
    BY <2>1 DEF LastWithEnd
  <2>6. \A i \in 1..Len(outcomes') :
          /\ outcomes'[i].usage = Usage(seen)'
          /\ outcomes'[i].status = "success" => Len(got') = Len(seen') \/ LastWithEnd'
    BY <2>2, <2>3, <2>4, <2>5
  <2>7. QED
    BY <1>1, <2>1, <2>2, <2>4, <2>6 DEF Told
<1>4. QED
  BY <1>2, <1>3

\* The copy loop reads: what was held back, the error that came with it, the
\* rest of the body.
LEMMA ReadStep ==
  ASSUME IInv, UNCHANGED socketVars, Read
  PROVE  IInv'
<1>1. TypeOK /\ Terminated /\ Relayed /\ Copied /\ Told
  BY DEF IInv
<1>2. /\ at = "read" /\ format # "socket"
      /\ UNCHANGED <<format, serial, made, keep, got, logged>>
  BY DEF Read
<1> DEFINE m == made[serial]
           p == body.replay
           u == body.unread
<1>3. /\ body \in Body /\ p \in Seq(Events) /\ u \in Seq(Events) /\ m \in Seq(Events)
      /\ seen \in Seq(Events) /\ Len(seen) \in Nat /\ Len(p) \in Nat /\ serial \in 1..Serials
      /\ body.pending \in Error
  BY <1>1 DEF TypeOK, Body
<1>4. /\ Part(p, m, Len(seen))
      /\ IF body.rest
         THEN /\ Part(u, m, Len(seen) + Len(p))
              /\ Len(seen) + Len(p) + Len(u) = Len(m)
         ELSE u = <<>> /\ body.closed
      /\ \A i \in 1..Serials : /\ i < serial => "output" \notin Kinds(made[i])
                               /\ i > serial => made[i] = <<>>
  BY <1>1, <1>2 DEF Relayed
<1>5. PICK read \in BodyReads :
        /\ Deliver(read)
        /\ body' = IF p # <<>> THEN [body EXCEPT !.replay = Tail(p)]
                   ELSE IF body.pending # "none" THEN [body EXCEPT !.pending = "none"]
                   ELSE Taken(read)
        /\ outcomes' = IF read.error = "eof" THEN Finished(seen') ELSE outcomes
  BY DEF Read
<1>6. \A i : Kinds(made[i])' = Kinds(made[i])
  BY <1>2 DEF Kinds
<1>7. /\ outcomes = <<>> /\ cut = "none" /\ ~keep.closed /\ Len(got) = Len(seen)
  BY <1>1, <1>2 DEF Copied, Loop
\* What each kind of read makes of the copy loop.
<1>8. ASSUME read \in Chunk,
             read.event # Nothing => Len(seen) + 1 <= Len(m) /\ read.event = m[Len(seen) + 1]
      PROVE  /\ Copied' /\ Told' /\ chunk' \in Chunk /\ at' \in Loop /\ seen' \in Seq(Events)
             /\ read.event = Nothing => seen' = seen
             /\ read.event # Nothing => Len(seen') = Len(seen) + 1
  <2>1. /\ Copied' /\ chunk' \in Chunk /\ at' \in Loop /\ seen' \in Seq(Events) /\ chunk' = read
        /\ read.event = Nothing => seen' = seen /\ at' \in {"read", "close"}
        /\ read.event # Nothing => at' = "write" /\ Len(seen') = Len(seen) + 1
    BY <1>1, <1>2, <1>5, <1>8, DeliverStep
  <2>2. Told'
    BY <1>1, <1>2, <1>5, <1>7, <1>8, <2>1, ReadTold
  <2>3. QED
    BY <2>1, <2>2
<1>9. ASSUME Copied', Told', chunk' \in Chunk, at' \in Loop, seen' \in Seq(Events), body' \in Body, Relayed'
      PROVE  IInv'
  <2>1. UNCHANGED <<socket, inbox, asked, sent>>
    BY DEF socketVars
  <2>2. at' \in Places(format)
    BY <1>9 DEF Places
  <2>3. TypeOK'
    BY <1>1, <1>2, <1>9, <2>1, <2>2 DEF TypeOK
  <2>4. Terminated' /\ Spoken'
    BY <1>1, <1>2 DEF Terminated, Spoken
  <2>5. \A i \in 1..Serials : sent'[i] <= 1 /\ (format' # "socket" => sent'[i] = 0)
    BY <1>2, <2>1 DEF IInv
  <2>6. QED
    BY <1>9, <2>3, <2>4, <2>5 DEF IInv
<1>10. CASE p # <<>>
  <2>1. \/ read = [event |-> Head(p), error |-> "none"]
        \/ read = Watched([event |-> Head(p), error |-> "none"])
    BY <1>5, <1>10 DEF BodyReads
  <2>2. read.event = Head(p) /\ read.error \in Error /\ read = [event |-> read.event, error |-> read.error]
    BY <2>1 DEF Watched, Error
  <2>3. PICK n \in Nat : n = Len(seen)
    BY <1>3
  <2> HIDE DEF p, m, u
  <2>4. /\ n + 1 <= Len(m) /\ Head(p) = m[n + 1] /\ Head(p) \in Events
        /\ Tail(p) \in Seq(Events) /\ Len(Tail(p)) = Len(p) - 1 /\ Part(Tail(p), m, n + 1)
    BY <1>3, <1>4, <1>10, <2>3, PartTail, RestTail
  <2>5. read \in Chunk /\ read.event # Nothing
    BY <2>2, <2>4, Constants DEF Chunk
  <2>6. /\ Copied' /\ Told' /\ chunk' \in Chunk /\ at' \in Loop /\ seen' \in Seq(Events)
        /\ Len(seen') = n + 1
    BY <1>8, <2>2, <2>3, <2>4, <2>5
  <2>7. /\ body' \in Body /\ body'.replay = Tail(p) /\ body'.unread = u /\ body'.rest = body.rest
        /\ body'.closed = body.closed
    <3>1. body' = [body EXCEPT !.replay = Tail(p)]
      BY <1>5, <1>10
    <3>2. QED
      BY <1>3, <2>4, <3>1 DEF Body, u
  <2>8. body.rest => /\ Part(u, m, (n + 1) + Len(Tail(p)))
                     /\ (n + 1) + Len(Tail(p)) + Len(u) = Len(m)
    <3>1. PICK l \in Nat : l = Len(p)
      BY <1>3
    <3>2. PICK l1 : l1 = Len(Tail(p))
      OBVIOUS
    <3>3. l1 = l - 1
      BY <2>4, <3>1, <3>2
    <3>4. (n + 1) + l1 = n + l
      BY <3>1, <3>3
    <3>5. body.rest => Part(u, m, n + l) /\ n + l + Len(u) = Len(m)
      BY <1>4, <2>3, <3>1
    <3>6. QED
      BY <3>2, <3>4, <3>5
  <2>9. Relayed'
    BY <1>2, <1>4, <1>6, <2>4, <2>6, <2>7, <2>8 DEF Relayed, Loop, m
  <2>10. QED
    BY <1>9, <2>6, <2>7, <2>9
<1>11. CASE p = <<>> /\ (body.pending # "none" \/ ~body.rest)
  <2>1. read.event = Nothing /\ read.error \in Error /\ read = [event |-> read.event, error |-> read.error]
    BY <1>3, <1>5, <1>11 DEF BodyReads, Watched, Error
  <2>2. read \in Chunk
    BY <2>1 DEF Chunk
  <2>3. /\ Copied' /\ Told' /\ chunk' \in Chunk /\ at' \in Loop /\ seen' \in Seq(Events) /\ seen' = seen
    BY <1>8, <2>1, <2>2
  <2>4. body' \in {[body EXCEPT !.pending = "none"], body}
    BY <1>5, <1>11, <2>1 DEF Taken
  <2>5. /\ body' \in Body /\ body'.replay = p /\ body'.unread = u /\ body'.rest = body.rest
        /\ body'.closed = body.closed
    BY <1>3, <2>4 DEF Body, Error
  <2>6. Relayed'
    BY <1>2, <1>4, <1>6, <2>3, <2>5 DEF Relayed, Loop
  <2>7. QED
    BY <1>9, <2>3, <2>5, <2>6
<1>12. CASE p = <<>> /\ body.pending = "none" /\ body.rest
  <2>1. PICK r \in Reads : read = Watched(r)
    BY <1>5, <1>12 DEF BodyReads
  <2>2. PICK n \in Nat : n = Len(seen)
    BY <1>3
  <2>3. Part(u, m, n) /\ n + Len(u) = Len(m)
    <3>1. Len(p) = 0 /\ n + 0 = n
      BY <1>12, <2>2
    <3>2. Part(u, m, n + Len(p)) /\ n + Len(p) + Len(u) = Len(m)
      BY <1>4, <1>12, <2>2
    <3>3. QED
      BY <3>1, <3>2
  <2>4. /\ read \in Chunk /\ read.event = r.event
        /\ Taken(read) \in Body /\ Taken(read).replay = <<>> /\ Taken(read).rest
        /\ r.event = Nothing => Taken(read).unread = u
        /\ r.event # Nothing =>
             /\ n + 1 <= Len(m) /\ r.event = m[n + 1]
             /\ Part(Taken(read).unread, m, n + 1)
             /\ (n + 1) + Len(Taken(read).unread) = Len(m)
    BY <1>1, <1>12, <2>1, <2>2, <2>3, ReadsStep
  <2>5. /\ Copied' /\ Told' /\ chunk' \in Chunk /\ at' \in Loop /\ seen' \in Seq(Events)
        /\ read.event = Nothing => seen' = seen
        /\ read.event # Nothing => Len(seen') = n + 1
    BY <1>8, <2>2, <2>4
  <2>6. body' = Taken(read)
    BY <1>5, <1>12
  <2>7. /\ Part(body'.unread, m, Len(seen')) /\ Len(seen') + Len(body'.unread) = Len(m)
        /\ Len(seen') <= Len(m) /\ Len(seen') \in Nat
    <3>1. CASE r.event = Nothing
      <4>1. Len(m) \in Nat /\ Len(u) \in Nat
        BY <1>3
      <4>2. n <= Len(m)
        BY <2>3, <4>1
      <4>3. QED
        BY <2>2, <2>3, <2>4, <2>5, <2>6, <3>1, <4>2
    <3>2. CASE r.event # Nothing
      <4>1. read.event # Nothing /\ Len(seen') = n + 1
        BY <2>4, <2>5, <3>2
      <4>2. PICK k \in Nat : k = n + 1
        BY <2>2
      <4>3. Part(body'.unread, m, k) /\ k + Len(body'.unread) = Len(m) /\ k <= Len(m)
        BY <2>4, <2>6, <3>2, <4>2
      <4>4. Len(seen') = k
        BY <4>1, <4>2
      <4>5. QED
        BY <4>2, <4>3, <4>4
    <3>3. QED
      BY <3>1, <3>2
  <2>8. Relayed'
    <3>1. PICK l \in Nat : l = Len(seen')
      BY <2>7
    <3>2. body'.replay = <<>> /\ Len(<<>>) = 0 /\ l + 0 = l /\ body'.rest
      BY <2>4, <2>6, <3>1
    <3>3. Part(<<>>, m, l) /\ Part(body'.unread, m, l) /\ l + Len(body'.unread) = Len(m)
      BY <2>7, <3>1, Constants
    <3>4. QED
      BY <1>2, <1>4, <1>6, <2>5, <3>1, <3>2, <3>3 DEF Relayed, Loop
  <2>9. QED
    BY <1>9, <2>4, <2>5, <2>6, <2>8
<1>13. QED
  BY <1>10, <1>11, <1>12

\* The stream is closed, whatever has ended it.
LEMMA CloseStreamStep ==
  ASSUME IInv, UNCHANGED socketVars, CloseStream
  PROVE  IInv'
<1>1. TypeOK /\ Terminated /\ Relayed /\ Copied
  BY DEF IInv
<1>2. /\ at = "close" /\ at' = "quiet" /\ format # "socket"
      /\ body' = [body EXCEPT !.closed = TRUE]
      /\ outcomes' = IF outcomes = <<>> /\ CallsBack(seen) THEN <<Outcome(seen)>> ELSE outcomes
      /\ logged' = Append(logged, Record)
      /\ UNCHANGED <<format, serial, made, seen, chunk, keep, got, cut, socket, inbox, asked, sent>>
  BY DEF CloseStream, Goto, Finished, socketVars
<1>3. Told'
  <2>1. Outcome(seen).status = Status(seen) /\ Outcome(seen).usage = Usage(seen)
    BY DEF Outcome
  <2>2. Status(seen) = "success" => cut = "none"
    BY DEF Status
  <2>3. PICK o : o = Outcome(seen)
    OBVIOUS
  <2>4. /\ o.usage = Usage(seen) /\ (o.status = "success" => cut = "none")
        /\ outcomes' = IF outcomes = <<>> /\ CallsBack(seen) THEN <<o>> ELSE outcomes
    BY <1>2, <2>1, <2>2, <2>3
  <2>5. QED
    BY <1>2, <2>4, ToldStep
<1>4. /\ body' \in Body /\ body'.replay = body.replay /\ body'.unread = body.unread
      /\ body'.rest = body.rest /\ body'.closed
  BY <1>1, <1>2 DEF TypeOK, Body
<1>5. TypeOK'
  BY <1>1, <1>2, <1>4 DEF TypeOK, Places
<1>6. Terminated' /\ Relayed' /\ Spoken'
  BY <1>1, <1>2, <1>4 DEF Terminated, Relayed, Spoken, Kinds
<1>7. Copied'
  BY <1>1, <1>2 DEF Copied, Early, Loop
<1>8. QED
  BY <1>2, <1>3, <1>5, <1>6, <1>7 DEF IInv

----------------------------------------------------------------------------
(* The theorems.                                                           *)

\* In the other formats no socket is open, and one that breaks is none of theirs.
LEMMA SocketBreaksStep ==
  ASSUME IInv, SocketBreaks
  PROVE  IInv'
<1>1. CASE format = "socket"
  BY <1>1, SessionStep
<1>2. CASE format # "socket"
  <2>1. TypeOK /\ Terminated /\ Relayed /\ Copied /\ Told
    BY DEF IInv
  <2>2. socket' \in Session
    BY <2>1 DEF SocketBreaks, TypeOK, Session
  <2>3. UNCHANGED <<format, at, serial, made, body, seen, chunk, keep, got, cut, outcomes, logged,
                    inbox, asked, sent>>
    BY DEF SocketBreaks, relayVars
  <2>4. TypeOK'
    BY <2>1, <2>2, <2>3 DEF TypeOK
  <2>5. Terminated' /\ Relayed' /\ Spoken' /\ Copied'
    BY <1>2, <2>1, <2>3 DEF Terminated, Relayed, Spoken, Copied, Kinds
  <2>6. Told'
    BY <1>2, <2>1, <2>3, SameSeen DEF Told, LastWithEnd
  <2>7. QED
    BY <2>3, <2>4, <2>5, <2>6 DEF IInv
<1>3. QED
  BY <1>1, <1>2

\* Nothing has been asked or sent.
LEMMA Initially ==
  ASSUME Init
  PROVE  IInv
<1>1. /\ format \in Format /\ serial = 1 /\ at = IF format = "socket" THEN "idle" ELSE "call"
      /\ made = [i \in 1..Serials |-> <<>>] /\ sent = [i \in 1..Serials |-> 0]
      /\ body = NoBody /\ keep = NoKeep /\ chunk = NoChunk /\ socket = NoSocket
      /\ seen = <<>> /\ got = <<>> /\ outcomes = <<>> /\ logged = <<>>
      /\ cut = "none" /\ inbox = FALSE /\ asked = 0
  BY RelayAssumption DEF Init, RelayInit
<1>2. 1 \in 1..Serials /\ 0 \in 0..Serials /\ Serials \in Nat
  BY Constants
<1>3. TypeOK
  BY <1>1, <1>2, Constants DEF TypeOK, Places, Loop
<1>4. \A i \in 1..Serials : made[i] = <<>> /\ sent[i] = 0
  BY <1>1
<1>5. Kinds(<<>>) = {}
  BY DEF Kinds
<1>6. Terminated
  BY <1>4 DEF Terminated
<1>7. made[serial] = <<>> /\ \A t : Part(<<>>, <<>>, 0)
  BY <1>1, <1>2, <1>4 DEF Part
<1>8. Relayed
  BY <1>1, <1>2, <1>4, <1>5, <1>7, Constants DEF Relayed
<1>9. Spoken
  BY <1>1, <1>2, <1>4, <1>7 DEF Spoken, NoSocket
<1>10. Copied
  BY <1>1, <1>7, Constants DEF Copied, Early, Loop
<1>11. Told
  BY <1>1, Constants DEF Told, Loop
<1>12. QED
  BY <1>3, <1>4, <1>6, <1>8, <1>9, <1>10, <1>11 DEF IInv

\* The invariant holds in every reachable state.
LEMMA Inductive == Spec => []IInv
<1>1. Init => IInv
  BY Initially
<1>2. IInv /\ [Next]_vars => IInv'
  <2>1. SUFFICES ASSUME IInv, [Next]_vars PROVE IInv'
    OBVIOUS
  <2>2. CASE Handler /\ UNCHANGED socketVars
    BY <2>1, <2>2, TriedStep, ProbeStep, WriterStep, ReadStep, CloseStreamStep DEF Handler
  <2>3. CASE Timers /\ UNCHANGED socketVars
    BY <2>1, <2>3, TimersStep
  <2>4. CASE Outside /\ UNCHANGED socketVars
    BY <2>1, <2>4, TimersStep, ProduceStep DEF Outside
  <2>5. CASE Turn
    BY <2>1, <2>5, SessionStep, TakeTurnStep, SocketReadStep, SocketCloseStep DEF Turn
  <2>6. CASE Ask
    BY <2>1, <2>6, SessionStep
  <2>7. CASE SocketBreaks
    BY <2>1, <2>7, SocketBreaksStep
  <2>8. CASE \E kind \in Kind : SocketProduces(kind)
    BY <2>1, <2>8, SocketProducesStep
  <2>9. CASE UNCHANGED vars
    <3>1. body \in Body /\ keep \in Keep /\ (keep.closed => keep.mutex = "free")
      BY <2>1 DEF IInv, TypeOK, Told
    <3>2. UNCHANGED <<format, at, serial, made, body, seen, chunk, keep, got, cut, outcomes, logged,
                      socketVars>>
      BY <2>9 DEF vars, relayVars
    <3>3. QED
      BY <2>1, <3>1, <3>2, QuietStep
  <2>10. QED
    BY <2>1, <2>2, <2>3, <2>4, <2>5, <2>6, <2>7, <2>8, <2>9 DEF Next, Quiescent
<1>3. QED
  BY <1>1, <1>2, PTL DEF Spec

\* Type correctness of every reachable state: the stream, what was made, seen
\* and got of it, the body, the keeper and the session have their types, for
\* whatever sequence of events is sent.
THEOREM TypeCorrect == Spec => []TypeOK
<1>1. IInv => TypeOK
  BY DEF IInv
<1>2. QED
  BY <1>1, Inductive, PTL

\* What a client gets is what one upstream sent for this request and no other,
\* in order and from its beginning; an answer that was given up for another had
\* nothing generated in it, and no turn is sent twice.
THEOREM OneAnswerGiven == Spec => []OneAnswer
<1>1. IInv => OneAnswer
  <2>1. SUFFICES ASSUME IInv PROVE OneAnswer
    OBVIOUS
  <2>2. /\ got \in Seq(Events) /\ seen \in Seq(Events) /\ made[serial] \in Seq(Events)
        /\ serial \in 1..Serials /\ Serials \in Nat
    BY <2>1, Constants DEF IInv, TypeOK
  <2>3. IsPrefix(got, made[serial])
    <3>1. Part(got, seen, 0) /\ Part(seen, made[serial], 0)
      BY <2>1 DEF IInv, Copied
    <3>2. Part(got, made[serial], 0)
      BY <2>2, <3>1, PartOfPart
    <3>3. QED
      BY <2>2, <3>2, PartIsPrefix
  <2>4. ASSUME format # "socket", NEW i \in 1..(serial - 1) PROVE "output" \notin Kinds(made[i])
    <3>1. i \in 1..Serials /\ i < serial
      BY <2>2
    <3>2. QED
      BY <2>1, <2>4, <3>1 DEF IInv, Relayed
  <2>5. QED
    BY <2>1, <2>3, <2>4 DEF OneAnswer, IInv
<1>2. QED
  BY <1>1, Inductive, PTL

\* When the handler has returned, the stream has been completed exactly once, and
\* nobody writes to the client any more; it is a success only if the client got
\* everything, and what the client was shown as used is billed.
THEOREM EndedOnce == Spec => []EndsOnce
<1>1. IInv => EndsOnce
  <2>1. SUFFICES ASSUME IInv, Committed PROVE EndsOnce
    BY DEF EndsOnce
  <2>2. /\ TypeOK /\ Told /\ got \in Seq(Events) /\ seen \in Seq(Events) /\ keep.closed
        /\ Part(got, seen, 0)
    BY <2>1 DEF IInv, TypeOK, Copied, Committed
  <2>3. Len(outcomes) = IF format = "socket" \/ CallsBack(seen) THEN 1 ELSE 0
    <3>1. outcomes = <<>> => Len(outcomes) = 0
      OBVIOUS
    <3>2. QED
      BY <2>2, <3>1 DEF Told
  <2>4. Len(logged) = 1 /\ keep.mutex = "free"
    BY <2>2 DEF Told
  <2>5. Len(got) = Len(seen) => got = seen
    BY <2>2, SamePart
  <2>6. ASSUME NEW f \in {"messages", "chat", "image"}
        PROVE  Usage(got)[f] \subseteq Usage(seen)[f]
    <3>1. Kinds(got) \subseteq Kinds(seen)
      BY <2>2, KindsOfPart
    <3>2. QED
      BY <3>1 DEF Usage, MessagesUsage, ChatCompletionsUsage, ImageUsage
  <2>7. ASSUME NEW i \in 1..Len(outcomes)
        PROVE  /\ outcomes[i].status = "success" => got = seen \/ LastWithEnd
               /\ \A f \in {"messages", "chat", "image"} : Usage(got)[f] \subseteq outcomes[i].usage[f]
    <3>1. outcomes[i].usage = Usage(seen)
      BY <2>2 DEF Told
    <3>2. outcomes[i].status = "success" => Len(got) = Len(seen) \/ LastWithEnd
      BY <2>2 DEF Told
    <3>3. QED
      BY <2>5, <2>6, <3>1, <3>2
  <2>8. QED
    BY <2>3, <2>4, <2>7 DEF EndsOnce
<1>2. QED
  BY <1>1, Inductive, PTL
=============================================================================

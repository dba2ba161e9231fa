---------------------------- MODULE Metering_proofs ----------------------------
(***************************************************************************)
(* Theorems about Metering, for any number of requests and rules, whatever *)
(* the buffers hold and however many statements fail: no answer is counted *)
(* twice, none is left out unless a fault is to blame, and no request is   *)
(* sent to the wallet while the plan has room.                             *)
(***************************************************************************)
EXTENDS Metering, FiniteSetTheorems, WellFoundedInduction, TLAPS

----------------------------------------------------------------------------
(* Queues.                                                                 *)

\* What a queue holds.
Items(queue) == {queue[i] : i \in DOMAIN queue}

\* Append adds its item and no other.
LEMMA AppendItems ==
  ASSUME NEW S, NEW s \in Seq(S), NEW x \in S
  PROVE  Append(s, x) \in Seq(S) /\ Items(Append(s, x)) = Items(s) \cup {x}
<1>1. /\ Append(s, x) \in Seq(S) /\ DOMAIN s = 1..Len(s) /\ Len(s) \in Nat
      /\ DOMAIN Append(s, x) = 1..Len(s) + 1
      /\ Append(s, x)[Len(s) + 1] = x /\ \A i \in 1..Len(s) : Append(s, x)[i] = s[i]
  OBVIOUS
<1>2. 1..Len(s) + 1 = (1..Len(s)) \cup {Len(s) + 1} /\ Len(s) + 1 \in 1..Len(s) + 1
  BY <1>1
<1>3. \A y : y \in Items(Append(s, x)) => y \in Items(s) \cup {x}
  BY <1>1, <1>2 DEF Items
<1>4. \A y : y \in Items(s) \cup {x} => y \in Items(Append(s, x))
  <2>1. x \in Items(Append(s, x))
    BY <1>1, <1>2 DEF Items
  <2>2. ASSUME NEW i \in 1..Len(s) PROVE s[i] \in Items(Append(s, x))
    <3>1. i \in DOMAIN Append(s, x) /\ Append(s, x)[i] = s[i]
      BY <1>1, <1>2
    <3>2. QED
      BY <3>1 DEF Items
  <2>3. QED
    BY <2>1, <2>2, <1>1 DEF Items
<1>5. QED
  BY <1>1, <1>3, <1>4

\* A queue is its head and its tail.
LEMMA TailItems ==
  ASSUME NEW S, NEW s \in Seq(S), s # <<>>
  PROVE  /\ Tail(s) \in Seq(S) /\ Head(s) \in S
         /\ Items(s) = {Head(s)} \cup Items(Tail(s))
<1>1. /\ Tail(s) \in Seq(S) /\ Head(s) \in S /\ Head(s) = s[1]
      /\ Len(s) \in Nat \ {0} /\ DOMAIN s = 1..Len(s)
      /\ DOMAIN Tail(s) = 1..Len(s) - 1
      /\ \A i \in 1..Len(s) - 1 : Tail(s)[i] = s[i + 1]
  OBVIOUS
<1>2. \A x : x \in Items(s) => x \in {Head(s)} \cup Items(Tail(s))
  <2> SUFFICES ASSUME NEW i \in 1..Len(s), i # 1
               PROVE  s[i] \in Items(Tail(s))
    BY <1>1 DEF Items
  <2>1. i - 1 \in 1..Len(s) - 1 /\ Tail(s)[i - 1] = s[i]
    BY <1>1
  <2>2. QED
    BY <2>1, <1>1, Zenon DEF Items
<1>3. \A x : x \in {Head(s)} \cup Items(Tail(s)) => x \in Items(s)
  <2>1. 1 \in 1..Len(s) /\ \A i \in 1..Len(s) - 1 : i + 1 \in 1..Len(s)
    BY <1>1
  <2>2. Head(s) \in Items(s)
    BY <2>1, <1>1 DEF Items
  <2>3. QED
    BY <2>1, <2>2, <1>1, Zenon DEF Items
<1>4. QED
  BY <1>1, <1>2, <1>3

\* The items of a queue of events are events.
LEMMA ItemsAreEvents ==
  ASSUME NEW s \in Seq(Event)
  PROVE  /\ Items(s) \subseteq Event
         /\ AsBilled(s) <=> \A e \in Items(s) : e.credits = req[e.request].credits
BY DEF Items, AsBilled

\* The invariant, with the items of the queues for their positions.
LEMMA ByItems ==
  /\ \A r : Collected(r) <=> \/ \E e \in Items(events) : e.request = r
                             \/ \E e \in Items(batch) : e.request = r
                             \/ late[r].status # "none"
  /\ \A r : OnTheWay(r) <=> \/ writer[r] = "done"
                            \/ \E e \in Items(events) : e.request = r
                            \/ \E e \in Items(batch) : e.request = r
BY DEF Collected, OnTheWay, Batched, Items

----------------------------------------------------------------------------
(* The steps.                                                              *)

\* A step of a request that is before its answer or is turned away: nothing is
\* billed, and its goroutine is given a rejection or a failure at most.
Through(r, w) ==
  /\ DOMAIN req' = Request /\ \A q \in Request \ {r} : req'[q] = req[q]
  /\ DOMAIN req'[r] = DOMAIN Idle /\ req'[r].credits = 0
  /\ req'[r].id \in BOOLEAN /\ req'[r].extra \in BOOLEAN
  /\ writer' = [writer EXCEPT ![r] = w]
  /\ w # "none" => req'[r].at = "done"
  /\ row' = row \/ CreateRequest(r, "processing")
  /\ UNCHANGED <<late, events, batch, running, logs, phase, lost, now>>

\* Before the answer: a request that is still on its way has left nothing
\* behind but its row, and what it may begin is a rejection or a failure.
LEMMA ThroughStep ==
  ASSUME IInv, NEW r \in Request, req[r].at # "done",
         NEW w \in {"none", "rejected", "error"}, Through(r, w)
  PROVE  IInv'
<1>1. /\ Shape /\ \A q \in Request : OneWay(q)
      /\ AsBilled(events) /\ AsBilled(batch) /\ Drained /\ AnswersAreCounted
      /\ phase = "exited" => ~running
  BY DEF IInv
<1>0. /\ DOMAIN req' = Request /\ \A q \in Request \ {r} : req'[q] = req[q]
      /\ DOMAIN req'[r] = DOMAIN Idle /\ req'[r].credits = 0
      /\ req'[r].id \in BOOLEAN /\ req'[r].extra \in BOOLEAN
      /\ writer' = [writer EXCEPT ![r] = w] /\ (w # "none" => req'[r].at = "done")
      /\ row' = row \/ CreateRequest(r, "processing")
      /\ UNCHANGED <<late, events, batch, running, logs, phase, lost, now>>
  BY DEF Through
<1>2. ~Collected(r) /\ ~Completed(r) /\ writer[r] = "none" /\ req[r].credits = 0
  BY <1>0, <1>1 DEF OneWay
<1>3. /\ row' \in [Request -> Row] /\ row'[r].status # "done" /\ row'[r].credits = 0
      /\ \A q \in Request \ {r} : row'[q] = row[q]
  <2>1. CASE row' = row
    BY <1>0, <1>1, <1>2, <2>1 DEF Shape, Completed, OneWay
  <2>2. CASE CreateRequest(r, "processing")
    <3>1. [NoRow EXCEPT !.status = "processing", !.owned = TRUE, !.window = now] \in Row
      BY <1>0, <1>1 DEF Shape, NoRow, Row
    <3>2. [NoRow EXCEPT !.status = "processing", !.owned = TRUE, !.window = now].status = "processing"
      BY DEF NoRow
    <3>3. [NoRow EXCEPT !.status = "processing", !.owned = TRUE, !.window = now].credits = 0
      BY DEF NoRow
    <3>4. QED
      BY <1>0, <1>1, <2>2, <3>1, <3>2, <3>3 DEF Shape, CreateRequest
  <2>3. QED
    BY <1>0, <2>1, <2>2
<1>4. writer' \in [Request -> Writer] /\ writer'[r] = w /\ \A q \in Request \ {r} : writer'[q] = writer[q]
  BY <1>0, <1>1 DEF Shape, Writer
<1>5. Shape'
  <2>1. ASSUME NEW q \in Request
        PROVE  /\ DOMAIN req'[q] = DOMAIN Idle /\ req'[q].credits \in Nat
               /\ req'[q].id \in BOOLEAN /\ req'[q].extra \in BOOLEAN
    <3>1. CASE q = r
      BY <1>0, <3>1
    <3>2. CASE q # r
      BY <1>0, <1>1, <3>2 DEF Shape
    <3>3. QED
      BY <3>1, <3>2
  <2>2. QED
    BY <1>0, <1>1, <1>3, <1>4, <2>1 DEF Shape
<1>7. ASSUME NEW q \in Request PROVE OneWay(q)'
  <2>1. CASE q = r
    <3>1. ~Collected(q)' /\ ~Completed(q)'
      BY <1>0, <1>2, <1>3, <1>4, <2>1 DEF Collected, Completed
    <3>2. late'[q].status = "none" /\ late'[q].credits = 0
      BY <1>0, <1>1, <1>2, <2>1 DEF OneWay, Collected
    <3>3. QED
      BY <1>0, <1>3, <1>4, <2>1, <3>1, <3>2 DEF OneWay
  <2>2. CASE q # r
    BY <1>0, <1>1, <1>3, <1>4, <2>2 DEF OneWay, Collected, Completed
  <2>3. QED
    BY <1>0, <2>1, <2>2
<1>8. AsBilled(events)' /\ AsBilled(batch)'
  <2>1. ASSUME NEW s \in Seq(Event), AsBilled(s), \A i \in DOMAIN s : s[i].request # r
        PROVE  \A i \in DOMAIN s : s[i].credits = req'[s[i].request].credits
    <3>1. TAKE i \in DOMAIN s
    <3>2. s[i] \in Event
      OBVIOUS
    <3>3. s[i].request \in Request \ {r}
      BY <1>0, <2>1, <3>2 DEF Event
    <3>4. QED
      BY <1>0, <2>1, <3>3 DEF AsBilled
  <2>2. /\ \A i \in DOMAIN events : events[i].request # r
        /\ \A i \in DOMAIN batch : batch[i].request # r
    BY <1>2 DEF Collected
  <2>3. QED
    BY <1>0, <1>1, <2>1, <2>2 DEF Shape, AsBilled
<1>9. AnswersAreCounted'
  <2> SUFFICES ASSUME NEW q \in Request, req'[q].credits > 0
               PROVE  \/ row'[q].status = "done" \/ late'[q].status = "done" \/ q \in lost'
                      \/ (Running /\ OnTheWay(q))'
    BY DEF AnswersAreCounted
  <2>1. q # r /\ req'[q] = req[q]
    BY <1>0
  <2>2. OnTheWay(q) => OnTheWay(q)'
    BY <1>0, <1>4, <2>1 DEF OnTheWay, Batched
  <2>3. QED
    BY <1>0, <1>1, <1>3, <2>1, <2>2 DEF AnswersAreCounted, Running
<1>10. Drained' /\ (phase' = "exited" => ~running')
  BY <1>0, <1>1 DEF Drained, EventsClosed
<1>11. QED
  BY <1>5, <1>7, <1>8, <1>9, <1>10 DEF IInv

\* The answer goes to the goroutine that completes the row or to the collector,
\* or is lost because the buffer is full or closed.
LEMMA AnswerStep ==
  ASSUME IInv, NEW r \in Request, NEW c \in Nat, At(r, "upstream"), AnsweredWith(r, c)
  PROVE  IInv'
<1>1. /\ Shape /\ \A q \in Request : OneWay(q)
      /\ AsBilled(events) /\ AsBilled(batch) /\ Drained /\ AnswersAreCounted
      /\ phase = "exited" => ~running
  BY DEF IInv
<1>2. Running /\ req[r].at = "upstream"
  BY DEF At
<1>3. /\ ~Collected(r) /\ ~Completed(r) /\ writer[r] = "none" /\ req[r].credits = 0
      /\ late[r].status = "none" /\ late[r].credits = 0 /\ row[r].credits = 0
  BY <1>1, <1>2 DEF OneWay, Collected, Completed
<1>4. /\ UNCHANGED <<row, late, batch, running, phase, now>>
      /\ DOMAIN req' = Request /\ \A q \in Request \ {r} : req'[q] = req[q]
      /\ DOMAIN req'[r] = DOMAIN Idle /\ req'[r].at = "done" /\ req'[r].credits = c
      /\ req'[r].id = FALSE /\ req'[r].extra \in BOOLEAN
  BY <1>1 DEF AnsweredWith, records, Finish, Idle, Shape
<1>5. logs' \in Seq(Request)
  <2>1. logs' = logs \/ logs' = Append(logs, r)
    BY DEF AnsweredWith, Enqueue
  <2>2. logs \in Seq(Request) /\ Append(logs, r) \in Seq(Request)
    <3>1. logs \in Seq(Request)
      BY <1>1 DEF Shape
    <3>2. QED
      BY <3>1, AppendItems
  <2>3. QED
    BY <2>1, <2>2
<1>6. \/ /\ writer' = [writer EXCEPT ![r] = "done"] /\ UNCHANGED <<events, lost>>
      \/ /\ UNCHANGED <<writer, lost>>
         /\ ~EventsClosed /\ events' = Append(events, [request |-> r, credits |-> c])
      \/ UNCHANGED <<writer, events>> /\ lost' = lost \cup {r}
  BY DEF AnsweredWith, RecordAnswer, Record, Go
<1>7. /\ writer' \in [Request -> Writer] /\ lost' \subseteq Request /\ lost \subseteq lost'
      /\ writer'[r] \in {"none", "done"} /\ \A q \in Request \ {r} : writer'[q] = writer[q]
  BY <1>1, <1>3, <1>6 DEF Shape, Writer
<1>8. /\ events' \in Seq(Event)
      /\ \/ Items(events') = Items(events)
         \/ /\ Items(events') = Items(events) \cup {[request |-> r, credits |-> c]}
            /\ writer'[r] = "none" /\ ~EventsClosed
  <2>1. [request |-> r, credits |-> c] \in Event
    BY DEF Event
  <2>2. CASE events' = events
    BY <1>1, <2>2 DEF Shape
  <2>a. /\ Append(events, [request |-> r, credits |-> c]) \in Seq(Event)
        /\ Items(Append(events, [request |-> r, credits |-> c]))
             = Items(events) \cup {[request |-> r, credits |-> c]}
    <3>1. events \in Seq(Event)
      BY <1>1 DEF Shape
    <3>2. QED
      BY <2>1, <3>1, AppendItems
  <2>3. CASE events' # events
    BY <1>3, <1>6, <2>a, <2>3
  <2>4. QED
    BY <2>2, <2>3
<1>9. Shape'
  <2>1. ASSUME NEW q \in Request
        PROVE  /\ DOMAIN req'[q] = DOMAIN Idle /\ req'[q].credits \in Nat
               /\ req'[q].id \in BOOLEAN /\ req'[q].extra \in BOOLEAN
    <3>1. CASE q = r
      BY <1>4, <3>1
    <3>2. CASE q # r
      BY <1>1, <1>4, <3>2 DEF Shape
    <3>3. QED
      BY <3>1, <3>2
  <2>2. QED
    BY <1>1, <1>4, <1>5, <1>7, <1>8, <2>1 DEF Shape
<1>10. ASSUME NEW q \in Request \ {r}
       PROVE  Collected(q)' <=> Collected(q)
  <2>1. (\E e \in Items(events') : e.request = q) <=> (\E e \in Items(events) : e.request = q)
    BY <1>8
  <2>2. Collected(q)' <=> \/ \E e \in Items(events') : e.request = q
                          \/ \E e \in Items(batch') : e.request = q
                          \/ late'[q].status # "none"
    BY DEF Collected, Items
  <2>3. QED
    BY <1>4, <2>1, <2>2, ByItems
<1>11. ASSUME NEW q \in Request PROVE OneWay(q)'
  <2>1. CASE q = r
    <3>1. ~(Collected(q)' /\ Completed(q)')
      <4>1. CASE writer'[r] = "none"
        BY <1>3, <1>4, <2>1, <4>1 DEF Completed
      <4>2. CASE writer'[r] # "none"
        <5>1. Items(events') = Items(events)
          BY <1>8, <4>2
        <5>2. Collected(q)' <=> \/ \E e \in Items(events') : e.request = q
                                \/ \E e \in Items(batch') : e.request = q
                                \/ late'[q].status # "none"
          BY DEF Collected, Items
        <5>3. QED
          BY <1>3, <1>4, <2>1, <5>1, <5>2, ByItems
      <4>3. QED
        BY <4>1, <4>2
    <3>2. QED
      BY <1>3, <1>4, <1>7, <2>1, <3>1 DEF OneWay, Completed
  <2>2. CASE q # r
    BY <1>1, <1>4, <1>7, <1>10, <2>2 DEF OneWay, Completed
  <2>3. QED
    BY <2>1, <2>2
<1>12. AsBilled(events)' /\ AsBilled(batch)'
  <2>1. ASSUME NEW s \in Seq(Event), AsBilled(s), \A e \in Items(s) : e.request # r
        PROVE  \A e \in Items(s) : e.credits = req'[e.request].credits
    <3>1. TAKE e \in Items(s)
    <3>2. e.request \in Request \ {r}
      BY <2>1, ItemsAreEvents DEF Event
    <3>3. QED
      BY <2>1, <1>4, <3>2, ItemsAreEvents
  <2>2. /\ \A e \in Items(events) : e.request # r
        /\ \A e \in Items(batch) : e.request # r
    BY <1>3, ByItems
  <2>3. /\ \A e \in Items(events) : e.credits = req'[e.request].credits
        /\ \A e \in Items(batch) : e.credits = req'[e.request].credits
    BY <1>1, <2>1, <2>2 DEF Shape
  <2>4. \A e \in Items(events') : e.credits = req'[e.request].credits
    BY <1>4, <1>8, <2>3
  <2>5. QED
    BY <1>4, <2>3, <2>4 DEF AsBilled, Items
<1>13. AnswersAreCounted'
  <2> SUFFICES ASSUME NEW q \in Request, req'[q].credits > 0
               PROVE  \/ row'[q].status = "done" \/ late'[q].status = "done" \/ q \in lost'
                      \/ Running' /\ OnTheWay(q)'
    BY DEF AnswersAreCounted
  <2>1. OnTheWay(q)' <=> \/ writer'[q] = "done"
                         \/ \E e \in Items(events') : e.request = q
                         \/ \E e \in Items(batch') : e.request = q
    BY DEF OnTheWay, Batched, Items
  <2>2. Running'
    BY <1>2, <1>4 DEF Running
  <2>3. CASE q = r
    <3>1. CASE r \in lost'
      BY <2>3, <3>1
    <3>2. CASE r \notin lost'
      <4>1. \/ writer'[r] = "done"
            \/ events' = Append(events, [request |-> r, credits |-> c])
        BY <1>1, <1>6, <3>2 DEF Shape
      <4>2. CASE writer'[r] = "done"
        BY <2>1, <2>2, <2>3, <4>2
      <4>3. CASE events' = Append(events, [request |-> r, credits |-> c])
        <5>1. [request |-> r, credits |-> c] \in Items(events')
          <6>1. events \in Seq(Event) /\ [request |-> r, credits |-> c] \in Event
            BY <1>1 DEF Event, Shape
          <6>2. Items(Append(events, [request |-> r, credits |-> c]))
                  = Items(events) \cup {[request |-> r, credits |-> c]}
            BY <6>1, AppendItems
          <6>3. Items(events') = Items(Append(events, [request |-> r, credits |-> c]))
            BY <4>3
          <6>4. QED
            BY <6>2, <6>3, Zenon
        <5>2. \E e \in Items(events') : e.request = q
          BY <5>1, <2>3
        <5>3. QED
          BY <2>1, <2>2, <5>2
      <4>4. QED
        BY <4>1, <4>2, <4>3
    <3>3. QED
      BY <3>1, <3>2
  <2>4. CASE q # r
    <3>1. OnTheWay(q) => OnTheWay(q)'
      BY <1>4, <1>7, <1>8, <2>1, <2>4, ByItems
    <3>2. QED
      BY <1>1, <1>4, <1>7, <2>2, <2>4, <3>1 DEF AnswersAreCounted
  <2>5. QED
    BY <2>3, <2>4
<1>14. Drained' /\ (phase' = "exited" => ~running')
  BY <1>1, <1>4, <1>6, <1>2 DEF Drained, EventsClosed
<1>15. QED
  BY <1>9, <1>11, <1>12, <1>13, <1>14 DEF IInv

\* The goroutine of a request writes what it was given, or loses it.
LEMMA WriteStep ==
  ASSUME IInv, NEW r \in Request, Write(r)
  PROVE  IInv'
<1>1. /\ Shape /\ \A q \in Request : OneWay(q)
      /\ AsBilled(events) /\ AsBilled(batch) /\ Drained /\ AnswersAreCounted
      /\ phase = "exited" => ~running
  BY DEF IInv
<1>2. /\ Running /\ writer[r] \in {"rejected", "done", "error"}
      /\ UNCHANGED <<late, now, req, events, batch, running, logs, phase>>
      /\ writer' = [writer EXCEPT ![r] = "none"]
  BY <1>1 DEF Write, Go, queues, limits, Shape, Writer
<1>3. /\ req[r].at = "done" /\ row[r].status # "done" /\ row[r].credits = 0 /\ req[r].credits \in Nat
      /\ writer[r] # "done" => req[r].credits = 0
      /\ row[r] \in Row
  BY <1>1, <1>2 DEF OneWay, Shape
<1>4. /\ row' \in [Request -> Row] /\ \A q \in Request \ {r} : row'[q] = row[q]
      /\ \/ /\ writer[r] = "done" /\ lost' = lost
            /\ row'[r].status = "done" /\ row'[r].credits = req[r].credits
         \/ /\ writer[r] # "done" /\ lost' = lost
            /\ row'[r].status # "done" /\ row'[r].credits = 0
         \/ /\ row' = row
            /\ lost' = IF writer[r] = "done" THEN lost \cup {r} ELSE lost
  <2>1. CASE row' = row /\ lost' = IF writer[r] = "done" THEN lost \cup {r} ELSE lost
    BY <1>1, <2>1 DEF Shape
  <2>2. CASE /\ writer[r] = "rejected" /\ lost' = lost
             /\ row' = row \/ CreateRequest(r, "rejected")
    <3>1. [NoRow EXCEPT !.status = "rejected", !.owned = TRUE, !.window = now] \in Row
      BY <1>1 DEF Shape, NoRow, Row
    <3>2. [NoRow EXCEPT !.status = "rejected", !.owned = TRUE, !.window = now].status = "rejected"
      BY DEF NoRow
    <3>3. [NoRow EXCEPT !.status = "rejected", !.owned = TRUE, !.window = now].credits = 0
      BY DEF NoRow
    <3>4. CASE CreateRequest(r, "rejected")
      <4>1. row' = [row EXCEPT ![r] = [NoRow EXCEPT !.status = "rejected", !.owned = TRUE, !.window = now]]
        BY <3>4 DEF CreateRequest
      <4>2. row \in [Request -> Row]
        BY <1>1 DEF Shape
      <4>3. QED
        BY <2>2, <3>1, <3>2, <3>3, <4>1, <4>2
    <3>5. CASE row' = row
      BY <1>1, <1>3, <2>2, <3>5 DEF Shape
    <3>6. QED
      BY <2>2, <3>4, <3>5
  <2>3. CASE /\ writer[r] \in {"done", "error"} /\ lost' = lost
             /\ CompleteRequest(r, writer[r], req[r].credits, req[r].extra)
    <3> DEFINE new == [row[r] EXCEPT !.status = writer[r], !.credits = req[r].credits, !.extra = req[r].extra]
    <3>1. row' = [row EXCEPT ![r] = new]
      BY <2>3 DEF CompleteRequest
    <3>2. /\ new.status = writer[r] /\ new.credits = req[r].credits
      BY <1>3 DEF Row
    <3>3. req[r].extra \in BOOLEAN
      BY <1>1 DEF Shape
    <3>4. new \in Row
      BY <1>3, <2>3, <3>3 DEF Row
    <3> HIDE DEF new
    <3>5. QED
      BY <1>1, <1>3, <2>3, <3>1, <3>2, <3>4 DEF Shape
  <2>4. \/ row' = row /\ lost' = IF writer[r] = "done" THEN lost \cup {r} ELSE lost
        \/ writer[r] = "rejected" /\ lost' = lost /\ (row' = row \/ CreateRequest(r, "rejected"))
        \/ /\ writer[r] # "rejected" /\ lost' = lost
           /\ CompleteRequest(r, writer[r], req[r].credits, req[r].extra)
    BY DEF Write
  <2>5. QED
    BY <1>2, <2>1, <2>2, <2>3, <2>4
<1>5. /\ writer' \in [Request -> Writer] /\ writer'[r] = "none"
      /\ \A q \in Request \ {r} : writer'[q] = writer[q]
  BY <1>1, <1>2 DEF Shape, Writer
<1>6. Shape'
  BY <1>1, <1>2, <1>4, <1>5 DEF Shape
<1>7. ASSUME NEW q \in Request PROVE OneWay(q)'
  <2>0. Collected(q)' <=> Collected(q)
    BY <1>2 DEF Collected
  <2>1. CASE q = r
    <3>1. Completed(q)' => Completed(q)
      BY <1>3, <1>4, <1>5, <2>1 DEF Completed
    <3>2. OneWay(q)
      BY <1>1
    <3>3. QED
      BY <1>2, <1>3, <1>4, <1>5, <2>0, <2>1, <3>1, <3>2 DEF OneWay
  <2>2. CASE q # r
    BY <1>1, <1>2, <1>4, <1>5, <2>0, <2>2 DEF OneWay, Completed
  <2>3. QED
    BY <2>1, <2>2
<1>8. AsBilled(events)' /\ AsBilled(batch)'
  BY <1>1, <1>2 DEF AsBilled
<1>9. AnswersAreCounted'
  <2> SUFFICES ASSUME NEW q \in Request, req'[q].credits > 0
               PROVE  \/ row'[q].status = "done" \/ late'[q].status = "done" \/ q \in lost'
                      \/ Running' /\ OnTheWay(q)'
    BY DEF AnswersAreCounted
  <2>1. \/ row[q].status = "done" \/ late[q].status = "done" \/ q \in lost
        \/ Running /\ OnTheWay(q)
    BY <1>1, <1>2 DEF AnswersAreCounted
  <2>2. OnTheWay(q) => writer[q] = "done" \/ OnTheWay(q)'
    BY <1>2 DEF OnTheWay, Batched
  <2>3. writer[q] = "done" => row'[q].status = "done" \/ q \in lost' \/ OnTheWay(q)'
    BY <1>4, <1>5 DEF OnTheWay
  <2>4. row[q].status = "done" => row'[q].status = "done"
    BY <1>3, <1>4
  <2>5. q \in lost => q \in lost'
    BY <1>4
  <2>6. QED
    BY <1>2, <2>1, <2>2, <2>3, <2>4, <2>5 DEF Running
<1>10. Drained' /\ (phase' = "exited" => ~running')
  BY <1>1, <1>2 DEF Drained, EventsClosed
<1>11. QED
  BY <1>6, <1>7, <1>8, <1>9, <1>10 DEF IInv

\* An event goes from the channel to the batch.
LEMMA ReceiveStep ==
  ASSUME IInv, Receive, UNCHANGED <<req, writer>>
  PROVE  IInv'
<1>1. /\ Shape /\ \A q \in Request : OneWay(q)
      /\ AsBilled(events) /\ AsBilled(batch) /\ Drained /\ AnswersAreCounted
      /\ phase = "exited" => ~running
  BY DEF IInv
<1>2. /\ running /\ events # <<>>
      /\ batch' = Append(batch, Head(events)) /\ events' = Tail(events)
      /\ UNCHANGED <<row, late, now, running, logs, phase, lost, req, writer>>
  BY DEF Receive, records
<1>3. /\ events' \in Seq(Event) /\ Head(events) \in Event
      /\ Items(events) = {Head(events)} \cup Items(events')
  <2>1. events \in Seq(Event)
    BY <1>1 DEF Shape
  <2>2. /\ Tail(events) \in Seq(Event) /\ Head(events) \in Event
        /\ Items(events) = {Head(events)} \cup Items(Tail(events))
    BY <1>2, <2>1, TailItems
  <2>3. QED
    BY <1>2, <2>2 DEF Items
<1>4. batch' \in Seq(Event) /\ Items(batch') = Items(batch) \cup {Head(events)}
  <2>1. batch \in Seq(Event)
    BY <1>1 DEF Shape
  <2>2. /\ Append(batch, Head(events)) \in Seq(Event)
        /\ Items(Append(batch, Head(events))) = Items(batch) \cup {Head(events)}
    BY <1>3, <2>1, AppendItems
  <2>3. QED
    BY <1>2, <2>2 DEF Items
<1>5. Items(events') \cup Items(batch') = Items(events) \cup Items(batch)
  BY <1>3, <1>4
<1>6. \A q : (Collected(q)' <=> Collected(q)) /\ (OnTheWay(q)' <=> OnTheWay(q))
  <2>1. /\ \A q : Collected(q)' <=> \/ \E e \in Items(events') : e.request = q
                                    \/ \E e \in Items(batch') : e.request = q
                                    \/ late'[q].status # "none"
        /\ \A q : OnTheWay(q)' <=> \/ writer'[q] = "done"
                                   \/ \E e \in Items(events') : e.request = q
                                   \/ \E e \in Items(batch') : e.request = q
    BY DEF Collected, OnTheWay, Batched, Items
  <2>2. QED
    BY <1>2, <1>3, <1>4, <2>1, ByItems
<1>7. Shape'
  BY <1>1, <1>2, <1>3, <1>4 DEF Shape
<1>8. \A q \in Request : OneWay(q)'
  BY <1>1, <1>2, <1>6 DEF OneWay, Completed
<1>9. AsBilled(events)' /\ AsBilled(batch)'
  <2>1. /\ \A e \in Items(events) : e.credits = req[e.request].credits
        /\ \A e \in Items(batch) : e.credits = req[e.request].credits
    BY <1>1, ItemsAreEvents DEF Shape
  <2>2. /\ \A e \in Items(events') : e.credits = req'[e.request].credits
        /\ \A e \in Items(batch') : e.credits = req'[e.request].credits
    BY <1>2, <1>3, <1>4, <2>1
  <2>3. QED
    BY <2>2 DEF AsBilled, Items
<1>10. AnswersAreCounted'
  BY <1>1, <1>2, <1>6 DEF AnswersAreCounted, Running
<1>11. Drained' /\ (phase' = "exited" => ~running')
  BY <1>1, <1>2 DEF Drained
<1>12. QED
  BY <1>7, <1>8, <1>9, <1>10, <1>11 DEF IInv

\* The batch is inserted, or lost with its credits.
LEMMA FlushStep ==
  ASSUME IInv, Flush, UNCHANGED <<req, writer>>
  PROVE  IInv'
<1>1. /\ Shape /\ \A q \in Request : OneWay(q)
      /\ AsBilled(events) /\ AsBilled(batch) /\ Drained /\ AnswersAreCounted
      /\ phase = "exited" => ~running
  BY DEF IInv
<1>2. /\ running /\ batch' = <<>>
      /\ UNCHANGED <<row, now, events, running, logs, phase, req, writer>>
  BY DEF Flush
<1>3. Batched \subseteq Request
  <2>1. \A i \in DOMAIN batch : batch[i] \in Event
    BY <1>1 DEF Shape
  <2>2. QED
    BY <2>1 DEF Batched, Event
<1>4. /\ late' \in [Request -> Row] /\ lost \subseteq lost' /\ lost' \subseteq Request
      /\ \A q \in Request : q \notin Batched => late'[q] = late[q]
      /\ \/ /\ \A q \in Batched : late'[q].status = "done" /\ late'[q].credits = req[q].credits
         \/ /\ late' = late /\ Batched \subseteq lost'
  <2>1. CASE FlushFails
    BY <1>1, <1>3, <2>1 DEF FlushFails, Shape
  <2>2. CASE FlushCommits
    <3>1. ASSUME NEW q \in Batched
          PROVE  /\ late'[q] \in Row /\ late'[q].status = "done"
                 /\ late'[q].credits = req[q].credits
      <4>1. PICK i \in DOMAIN batch :
              /\ batch[i].request = q
              /\ late'[q] = LateRow(batch[i])
        BY <1>3, <2>2 DEF FlushCommits, Batched
      <4>2. batch[i] \in Event /\ batch[i].credits = req[q].credits
        BY <1>1, <4>1 DEF Shape, AsBilled
      <4>3. now \in Nat /\ batch[i].credits \in Nat
        BY <1>1, <4>2 DEF Shape, Event
      <4>4. /\ LateRow(batch[i]) \in Row /\ LateRow(batch[i]).status = "done"
            /\ LateRow(batch[i]).credits = batch[i].credits
        BY <4>3 DEF LateRow, NoRow, Row
      <4>5. QED
        BY <4>1, <4>2, <4>4
    <3>2. /\ DOMAIN late' = Request /\ late' = [r \in Request |-> late'[r]]
          /\ \A q \in Request : q \notin Batched => late'[q] = late[q]
          /\ lost' = lost
      BY <2>2 DEF FlushCommits
    <3>3. ASSUME NEW q \in Request PROVE late'[q] \in Row
      BY <1>1, <3>1, <3>2 DEF Shape
    <3>4. late' \in [Request -> Row]
      BY <3>2, <3>3
    <3>5. QED
      BY <1>1, <3>1, <3>2, <3>4 DEF Shape
  <2>3. QED
    BY <2>1, <2>2 DEF Flush
<1>5. <<>> \in Seq(Event) /\ DOMAIN <<>> = {}
  OBVIOUS
<1>6. Shape'
  BY <1>1, <1>2, <1>4, <1>5 DEF Shape
<1>7. \A q : Batched' = {} /\ (OnTheWay(q) => q \in Batched \/ OnTheWay(q)')
  BY <1>2, <1>5 DEF OnTheWay, Batched
<1>8. \A q \in Request : Collected(q)' => Collected(q)
  BY <1>2, <1>4, <1>5 DEF Collected, Batched
<1>9. ASSUME NEW q \in Request PROVE OneWay(q)'
  <2>1. Completed(q)' <=> Completed(q)
    BY <1>2 DEF Completed
  <2>2. OneWay(q)
    BY <1>1
  <2>3. CASE late'[q] = late[q]
    BY <1>2, <1>8, <2>1, <2>2, <2>3 DEF OneWay
  <2>4. CASE late'[q] # late[q]
    <3>1. late'[q].status = "done" /\ late'[q].credits = req[q].credits
      BY <1>4, <2>4
    <3>2. QED
      BY <1>2, <1>8, <2>1, <2>2, <3>1 DEF OneWay
  <2>5. QED
    BY <2>3, <2>4
<1>10. AsBilled(events)' /\ AsBilled(batch)'
  BY <1>1, <1>2, <1>5 DEF AsBilled
<1>11. AnswersAreCounted'
  <2> SUFFICES ASSUME NEW q \in Request, req'[q].credits > 0
               PROVE  \/ row'[q].status = "done" \/ late'[q].status = "done" \/ q \in lost'
                      \/ Running' /\ OnTheWay(q)'
    BY DEF AnswersAreCounted
  <2>1. \/ row[q].status = "done" \/ late[q].status = "done" \/ q \in lost
        \/ Running /\ OnTheWay(q)
    BY <1>1, <1>2 DEF AnswersAreCounted
  <2>2. q \in Batched => late'[q].status = "done" \/ q \in lost'
    BY <1>4
  <2>3. late[q].status = "done" => late'[q].status = "done" \/ q \in lost'
    BY <1>4
  <2>4. QED
    BY <1>2, <1>4, <1>7, <2>1, <2>2, <2>3 DEF Running
<1>12. Drained' /\ (phase' = "exited" => ~running')
  BY <1>1, <1>2 DEF Drained
<1>13. QED
  BY <1>6, <1>9, <1>10, <1>11, <1>12 DEF IInv

\* What main, the HTTP log and the clock do leaves every answer where it is,
\* but for those a goroutine has not written when the process ends.
LEMMA BackgroundStep ==
  ASSUME IInv, UNCHANGED <<req, writer>>,
         RunReturns \/ Upload \/ LoggerStopped \/ Exit(Unfinished) \/ Shutdown \/ Rollover
  PROVE  IInv'
<1>1. /\ Shape /\ \A q \in Request : OneWay(q)
      /\ AsBilled(events) /\ AsBilled(batch) /\ Drained /\ AnswersAreCounted
      /\ phase = "exited" => ~running
  BY DEF IInv
<1>2. /\ UNCHANGED <<late, events, batch, req, writer>>
      /\ \/ running' = running
         \/ running' = FALSE /\ EventsClosed /\ events = <<>> /\ batch = <<>> /\ phase' = phase
      /\ \/ phase' = phase
         \/ phase # "exited" /\ phase' \in Phase \ {"exited"} /\ (EventsClosed => EventsClosed')
         \/ phase' = "exited" /\ ~running'
      /\ \/ lost' = lost
         \/ ~running' /\ lost' = lost \cup Unfinished
      /\ phase' = "exited" => phase = "exited" \/ lost' = lost \cup Unfinished
      /\ now' \in {now, now + 1}
  <2>1. CASE RunReturns
    BY <2>1 DEF RunReturns, records
  <2>2. CASE Upload
    BY <2>2 DEF Upload
  <2>3. CASE LoggerStopped
    BY <2>3 DEF LoggerStopped, records, Phase, EventsClosed
  <2>4. CASE Exit(Unfinished)
    BY <2>4 DEF Exit, records
  <2>5. CASE Shutdown
    BY <2>5 DEF Shutdown, records, Phase, EventsClosed
  <2>6. CASE Rollover
    BY <2>6 DEF Rollover, records, queues
  <2>7. QED
    BY <2>1, <2>2, <2>3, <2>4, <2>5, <2>6
<1>3. /\ row' \in [Request -> Row] /\ logs' \in Seq(Request)
      /\ \A q \in Request : row'[q].status = row[q].status /\ row'[q].credits = row[q].credits
  <2>1. CASE Upload
    <3>1. logs \in Seq(Request) /\ logs # <<>> /\ logs' = Tail(logs) /\ row \in [Request -> Row]
      BY <1>1, <2>1 DEF Upload, Shape
    <3>2. Head(logs) \in Request /\ Tail(logs) \in Seq(Request)
      BY <3>1, TailItems
    <3>3. CASE row' = row
      BY <3>1, <3>2, <3>3
    <3>4. CASE row' = [row EXCEPT ![Head(logs)].logged = TRUE]
      <4> DEFINE h == Head(logs)
                 new == [row[h] EXCEPT !.logged = TRUE]
      <4>1. row[h] \in Row
        BY <3>1, <3>2
      <4>2. new \in Row /\ new.status = row[h].status /\ new.credits = row[h].credits
        BY <4>1 DEF Row
      <4>3. row' = [row EXCEPT ![h] = new]
        BY <3>4
      <4> HIDE DEF new
      <4>4. QED
        BY <3>1, <3>2, <4>2, <4>3
    <3>5. QED
      BY <2>1, <3>3, <3>4 DEF Upload
  <2>2. CASE ~Upload
    BY <1>1, <2>2 DEF RunReturns, LoggerStopped, Exit, Shutdown, Rollover, records, queues, Shape
  <2>3. QED
    BY <2>1, <2>2
<1>4. /\ running' \in BOOLEAN /\ phase' \in Phase /\ now' \in Nat
      /\ lost \subseteq lost' /\ lost' \subseteq Request
  <2>1. running' \in BOOLEAN
    BY <1>1, <1>2 DEF Shape
  <2>2. phase' \in Phase
    BY <1>1, <1>2 DEF Shape, Phase
  <2>3. now' \in Nat
    BY <1>1, <1>2 DEF Shape
  <2>4. Unfinished \subseteq Request
    BY DEF Unfinished
  <2>5. QED
    BY <1>1, <1>2, <2>1, <2>2, <2>3, <2>4, Zenon DEF Shape
<1>5. Shape'
  BY <1>1, <1>2, <1>3, <1>4 DEF Shape
<1>6. \A q \in Request : OneWay(q)'
  BY <1>1, <1>2, <1>3 DEF OneWay, Collected, Completed
<1>7. AsBilled(events)' /\ AsBilled(batch)'
  BY <1>1, <1>2 DEF AsBilled
<1>8. Drained' /\ (phase' = "exited" => ~running')
  BY <1>1, <1>2 DEF Drained, EventsClosed, Phase
<1>9. AnswersAreCounted'
  <2> SUFFICES ASSUME NEW q \in Request, req'[q].credits > 0
               PROVE  \/ row'[q].status = "done" \/ late'[q].status = "done" \/ q \in lost'
                      \/ Running' /\ OnTheWay(q)'
    BY DEF AnswersAreCounted
  <2>1. \/ row[q].status = "done" \/ late[q].status = "done" \/ q \in lost
        \/ Running /\ OnTheWay(q)
    BY <1>1, <1>2 DEF AnswersAreCounted
  <2>2. OnTheWay(q)' <=> OnTheWay(q)
    BY <1>2 DEF OnTheWay, Batched
  <2>3. CASE phase' # "exited"
    BY <1>2, <1>3, <1>4, <2>1, <2>2, <2>3 DEF Running
  <2>4. CASE phase' = "exited" /\ phase = "exited"
    BY <1>2, <1>3, <1>4, <2>1, <2>4 DEF Running
  <2>5. CASE phase' = "exited" /\ phase # "exited"
    <3>1. events = <<>> /\ batch = <<>>
      BY <1>1, <1>2, <1>8, <2>5 DEF Drained
    <3>2. OnTheWay(q) => writer[q] = "done"
      BY <3>1 DEF OnTheWay, Batched
    <3>3. writer[q] = "done" => q \in lost'
      BY <1>2, <2>5 DEF Unfinished
    <3>4. QED
      BY <1>2, <1>3, <1>4, <2>1, <3>2, <3>3
  <2>6. QED
    BY <2>3, <2>4, <2>5
<1>10. QED
  BY <1>5, <1>6, <1>7, <1>8, <1>9 DEF IInv

\* What PreCheck decides is where the request goes on.
LEMMA DecidedKeeps ==
  ASSUME NEW q, NEW used, DOMAIN q = DOMAIN Idle
  PROVE  /\ DOMAIN Decided(q, used) = DOMAIN Idle
         /\ Decided(q, used).credits = q.credits
         /\ Decided(q, used).id = q.id /\ Decided(q, used).extra = q.extra
BY DEF Decided, Idle

\* The middlewares, the insert of the pending row and the early errors.
LEMMA HandleThrough ==
  ASSUME IInv, NEW r \in Request,
         Arrive(r) \/ NoSession(r) \/ (Handle(r) /\ ~Answered(r) /\ ~ImageAnswered(r))
  PROVE  req[r].at # "done" /\ \E w \in {"none", "rejected", "error"} : Through(r, w)
<1>1. /\ DOMAIN req = Request /\ DOMAIN req[r] = DOMAIN Idle /\ req[r].id \in BOOLEAN
      /\ req[r].extra \in BOOLEAN /\ writer \in [Request -> Writer]
  BY DEF IInv, Shape
<1>2. req[r].at # "done" => writer[r] = "none" /\ req[r].credits = 0
  BY DEF IInv, OneWay
<1>3. writer[r] = "none" => writer = [writer EXCEPT ![r] = "none"]
  BY <1>1
<1>4. \A label : At(r, label) => req[r].at = label
  BY DEF At
\* The two ways a request goes on: at another place, or finished.
<1>5. \A label : Goto(r, label) =>
        /\ DOMAIN req' = Request /\ \A q \in Request \ {r} : req'[q] = req[q]
        /\ DOMAIN req'[r] = DOMAIN Idle /\ req'[r].at = label /\ req'[r].credits = req[r].credits
        /\ req'[r].id \in BOOLEAN /\ req'[r].extra \in BOOLEAN
  BY <1>1 DEF Goto, Idle
<1>6. Finish(r, 0) =>
        /\ DOMAIN req' = Request /\ \A q \in Request \ {r} : req'[q] = req[q]
        /\ DOMAIN req'[r] = DOMAIN Idle /\ req'[r].at = "done" /\ req'[r].credits = 0
        /\ req'[r].id \in BOOLEAN /\ req'[r].extra \in BOOLEAN
  BY <1>1 DEF Finish, Idle
<1>7. CASE Arrive(r)
  <2>1. req[r].at # "done"
    BY <1>7 DEF Arrive
  <2>2. PICK kind, label : req' = [req EXCEPT ![r] = [Idle EXCEPT !.kind = kind, !.at = label]]
    BY <1>7 DEF Arrive
  <2>3. /\ DOMAIN req' = Request /\ \A q \in Request \ {r} : req'[q] = req[q]
        /\ DOMAIN req'[r] = DOMAIN Idle /\ req'[r].credits = 0
        /\ req'[r].id = FALSE /\ req'[r].extra = FALSE
    BY <1>1, <2>2 DEF Idle
  <2>4. Through(r, "none")
    BY <1>2, <1>3, <1>7, <2>1, <2>3 DEF Arrive, Through, rest, limits, queues
  <2>5. QED
    BY <2>1, <2>4
<1>8. CASE NoSession(r)
  <2>1. req[r].at # "done"
    BY <1>4, <1>8 DEF NoSession
  <2>2. Through(r, "none")
    BY <1>2, <1>3, <1>6, <1>8, <2>1 DEF NoSession, Through, bvars, records, queues
  <2>3. QED
    BY <2>1, <2>2
<1>9. CASE CheckRule(r)
  <2>1. req[r].at # "done"
    BY <1>4, <1>9 DEF CheckRule
  <2>2. PICK c : req' = [req EXCEPT ![r] = IF c = Miss THEN [req[r] EXCEPT !.at = "sum"]
                                           ELSE Decided(req[r], c)]
    BY <1>9 DEF CheckRule
  <2>3. /\ DOMAIN req' = Request /\ \A q \in Request \ {r} : req'[q] = req[q]
        /\ DOMAIN req'[r] = DOMAIN Idle /\ req'[r].credits = req[r].credits
        /\ req'[r].id = req[r].id /\ req'[r].extra = req[r].extra
    <3>1. CASE c = Miss
      BY <1>1, <2>2, <3>1 DEF Idle
    <3>2. CASE c # Miss
      BY <1>1, <2>2, <3>2, DecidedKeeps
    <3>3. QED
      BY <3>1, <3>2
  <2>4. Through(r, "none")
    BY <1>1, <1>2, <1>3, <1>9, <2>1, <2>3 DEF CheckRule, Through, bvars, records, queues
  <2>5. QED
    BY <2>1, <2>4
<1>10. CASE SumRule(r)
  <2>1. req[r].at # "done"
    BY <1>4, <1>10 DEF SumRule
  <2>2. \/ \E sum : req' = [req EXCEPT ![r].at = "set", ![r].sum = sum]
        \/ req' = [req EXCEPT ![r].at = "quota", ![r].rule = 1]
    BY <1>10 DEF SumRule
  <2>3. /\ DOMAIN req' = Request /\ \A q \in Request \ {r} : req'[q] = req[q]
        /\ DOMAIN req'[r] = DOMAIN Idle /\ req'[r].credits = req[r].credits
        /\ req'[r].id = req[r].id /\ req'[r].extra = req[r].extra
    BY <1>1, <2>2 DEF Idle
  <2>4. Through(r, "none")
    BY <1>1, <1>2, <1>3, <1>10, <2>1, <2>3 DEF SumRule, Through, rest, queues
  <2>5. QED
    BY <2>1, <2>4
<1>11. CASE SetRule(r)
  <2>1. req[r].at # "done"
    BY <1>4, <1>11 DEF SetRule
  <2>2. req' = [req EXCEPT ![r] = Decided(req[r], req[r].sum)]
    BY <1>11 DEF SetRule
  <2>3. /\ DOMAIN req' = Request /\ \A q \in Request \ {r} : req'[q] = req[q]
        /\ DOMAIN req'[r] = DOMAIN Idle /\ req'[r].credits = req[r].credits
        /\ req'[r].id = req[r].id /\ req'[r].extra = req[r].extra
    BY <1>1, <2>2, DecidedKeeps
  <2>4. Through(r, "none")
    BY <1>1, <1>2, <1>3, <1>11, <2>1, <2>3 DEF SetRule, Through, bvars, records, queues
  <2>5. QED
    BY <2>1, <2>4
<1>12. CASE CheckClassic(r)
  <2>1. req[r].at # "done"
    BY <1>4, <1>12 DEF CheckClassic
  <2>2. \/ Finish(r, 0) /\ writer' = [writer EXCEPT ![r] = "rejected"]
        \/ (\E label : Goto(r, label)) /\ writer' = writer
    BY <1>12 DEF CheckClassic, Reject, Go
  <2>3. \E w \in {"none", "rejected"} : Through(r, w)
    BY <1>2, <1>3, <1>5, <1>6, <1>12, <2>1, <2>2 DEF CheckClassic, Through, bvars, records, queues
  <2>4. QED
    BY <2>1, <2>3
<1>13. CASE CheckUserQuota(r)
  <2>1. req[r].at # "done"
    BY <1>4, <1>13 DEF CheckUserQuota
  <2>2. \/ Finish(r, 0) /\ writer' = [writer EXCEPT ![r] = "rejected"]
        \/ Goto(r, "quota sum") /\ writer' = writer
        \/ req' = [req EXCEPT ![r].at = "guard", ![r].sum = 0] /\ writer' = writer
    BY <1>13 DEF CheckUserQuota, QuotaDecided, Reject, Go
  <2>3. \E w \in {"none", "rejected"} : Through(r, w)
    <3>1. CASE Finish(r, 0) /\ writer' = [writer EXCEPT ![r] = "rejected"]
      BY <1>6, <1>13, <3>1 DEF CheckUserQuota, Through, bvars, records, queues
    <3>2. CASE Goto(r, "quota sum") /\ writer' = writer
      BY <1>2, <1>3, <1>5, <1>13, <2>1, <3>2 DEF CheckUserQuota, Through, bvars, records, queues
    <3>3. CASE req' = [req EXCEPT ![r].at = "guard", ![r].sum = 0] /\ writer' = writer
      BY <1>1, <1>2, <1>3, <1>13, <2>1, <3>3 DEF CheckUserQuota, Through, bvars, records, queues, Idle
    <3>4. QED
      BY <2>2, <3>1, <3>2, <3>3
  <2>4. QED
    BY <2>1, <2>3
<1>14. CASE SumQuota(r)
  <2>1. req[r].at # "done"
    BY <1>4, <1>14 DEF SumQuota
  <2>2. \/ \E sum : req' = [req EXCEPT ![r].at = "quota set", ![r].sum = sum]
        \/ Goto(r, "guard")
    BY <1>14 DEF SumQuota
  <2>3. Through(r, "none")
    <3>1. CASE \E sum : req' = [req EXCEPT ![r].at = "quota set", ![r].sum = sum]
      <4>1. /\ DOMAIN req' = Request /\ \A q \in Request \ {r} : req'[q] = req[q]
            /\ DOMAIN req'[r] = DOMAIN Idle /\ req'[r].credits = req[r].credits
            /\ req'[r].id = req[r].id /\ req'[r].extra = req[r].extra
        BY <1>1, <3>1 DEF Idle
      <4>2. QED
        BY <1>1, <1>2, <1>3, <1>14, <2>1, <4>1 DEF SumQuota, Through, rest, queues
    <3>2. CASE Goto(r, "guard")
      BY <1>2, <1>3, <1>5, <1>14, <2>1, <3>2 DEF SumQuota, Through, rest, queues
    <3>3. QED
      BY <2>2, <3>1, <3>2
  <2>4. QED
    BY <2>1, <2>3
<1>15. CASE SetQuota(r)
  <2>1. req[r].at # "done"
    BY <1>4, <1>15 DEF SetQuota
  <2>2. \/ Finish(r, 0) /\ writer' = [writer EXCEPT ![r] = "rejected"]
        \/ req' = [req EXCEPT ![r].at = "guard", ![r].sum = 0] /\ writer' = writer
    BY <1>15 DEF SetQuota, QuotaDecided, Reject, Go
  <2>3. \E w \in {"none", "rejected"} : Through(r, w)
    <3>1. CASE Finish(r, 0) /\ writer' = [writer EXCEPT ![r] = "rejected"]
      BY <1>6, <1>15, <3>1 DEF SetQuota, Through, bvars, records, queues
    <3>2. CASE req' = [req EXCEPT ![r].at = "guard", ![r].sum = 0] /\ writer' = writer
      BY <1>1, <1>2, <1>3, <1>15, <2>1, <3>2 DEF SetQuota, Through, bvars, records, queues, Idle
    <3>3. QED
      BY <2>2, <3>1, <3>2
  <2>4. QED
    BY <2>1, <2>3
<1>16. CASE GuardRefuses(r)
  <2>1. req[r].at # "done"
    BY <1>4, <1>16 DEF GuardRefuses
  <2>2. writer' \in {writer, [writer EXCEPT ![r] = "rejected"]}
    BY <1>16 DEF GuardRefuses, Reject, Go
  <2>3. \E w \in {"none", "rejected"} : Through(r, w)
    BY <1>2, <1>3, <1>6, <1>16, <2>1, <2>2 DEF GuardRefuses, Through, rest, queues
  <2>4. QED
    BY <2>1, <2>3
<1>17. CASE RefuseModel(r)
  <2>1. req[r].at # "done"
    BY <1>4, <1>17 DEF RefuseModel
  <2>2. Through(r, "none")
    BY <1>2, <1>3, <1>6, <1>17, <2>1 DEF RefuseModel, Through, bvars, records, queues
  <2>3. QED
    BY <2>1, <2>2
<1>18. CASE InsertPending(r)
  <2>1. req[r].at # "done"
    BY <1>4, <1>18 DEF InsertPending
  <2>2. PICK id \in BOOLEAN :
          req' = [req EXCEPT ![r].at = "upstream", ![r].extra = Guarded(r), ![r].id = id]
    BY <1>18 DEF InsertPending
  <2>3. Guarded(r) \in BOOLEAN
    BY DEF Guarded
  <2>4. /\ DOMAIN req' = Request /\ \A q \in Request \ {r} : req'[q] = req[q]
        /\ DOMAIN req'[r] = DOMAIN Idle /\ req'[r].credits = req[r].credits
        /\ req'[r].id = id /\ req'[r].extra = Guarded(r)
    BY <1>1, <2>2 DEF Idle
  <2>5. row' = row \/ CreateRequest(r, "processing")
    BY <1>18 DEF InsertPending
  <2>6. Through(r, "none")
    BY <1>2, <1>3, <1>18, <2>1, <2>3, <2>4, <2>5 DEF InsertPending, Through, queues
  <2>7. QED
    BY <2>1, <2>6
<1>19. CASE Failed(r)
  <2>1. req[r].at # "done"
    BY <1>4, <1>19 DEF Failed
  <2>2. writer' \in {writer, [writer EXCEPT ![r] = "error"]}
    BY <1>19 DEF Failed, Go
  <2>3. \E w \in {"none", "error"} : Through(r, w)
    BY <1>2, <1>3, <1>6, <1>19, <2>1, <2>2 DEF Failed, Through, bvars, records, queues
  <2>4. QED
    BY <2>1, <2>3
<1>20. QED
  BY <1>7, <1>8, <1>9, <1>10, <1>11, <1>12, <1>13, <1>14, <1>15, <1>16, <1>17, <1>18, <1>19
     DEF Handle, HandleProxyRequest, HandleGemini, HandleImagesEdits, HandleCountTokens

\* They keep the invariant.
LEMMA HandleStep ==
  ASSUME IInv, NEW r \in Request,
         Arrive(r) \/ NoSession(r) \/ (Handle(r) /\ ~Answered(r) /\ ~ImageAnswered(r))
  PROVE  IInv'
BY HandleThrough, ThroughStep

----------------------------------------------------------------------------
(* Sums: how many units there are in all, so that what is known of finite  *)
(* sets tells how a sum changes.                                           *)

\* As many things as the values of f over S add up to.
Units(f, S) == UNION {{x} \X (1..f[x]) : x \in S}

\* The units of an element and of the others.
LEMMA UnitsOf ==
  ASSUME NEW f, NEW S, IsFiniteSet(S), \A x \in S : f[x] \in Nat
  PROVE  /\ IsFiniteSet(Units(f, S)) /\ Cardinality(Units(f, S)) \in Nat
         /\ Units(f, {}) = {}
         /\ \A x \in S : Cardinality(Units(f, S)) = f[x] + Cardinality(Units(f, S \ {x}))
<1>1. ASSUME NEW x \in S
      PROVE  IsFiniteSet({x} \X (1..f[x])) /\ Cardinality({x} \X (1..f[x])) = f[x]
  <2>1. IsFiniteSet(1..f[x]) /\ Cardinality(1..f[x]) = f[x]
    BY FS_Interval
  <2>2. IsFiniteSet({x}) /\ Cardinality({x}) = 1
    BY FS_Singleton
  <2>3. /\ IsFiniteSet({x} \X (1..f[x]))
        /\ Cardinality({x} \X (1..f[x])) = Cardinality({x}) * Cardinality(1..f[x])
    BY <2>1, <2>2, FS_Product, Zenon
  <2>4. QED
    BY <2>1, <2>2, <2>3
<1>2. ASSUME NEW T \in SUBSET S PROVE IsFiniteSet(Units(f, T))
  <2> DEFINE C == {{x} \X (1..f[x]) : x \in T}
             g == [x \in T |-> {x} \X (1..f[x])]
  <2>1. g \in Surjection(T, C)
    BY DEF Surjection
  <2>2. IsFiniteSet(T)
    BY FS_Subset
  <2>3. IsFiniteSet(C)
    BY <2>1, <2>2, FS_Surjection
  <2>4. \A c \in C : IsFiniteSet(c)
    BY <1>1
  <2>5. QED
    BY <2>3, <2>4, FS_UNION DEF Units
<1>3. ASSUME NEW x \in S
      PROVE  Cardinality(Units(f, S)) = f[x] + Cardinality(Units(f, S \ {x}))
  <2> DEFINE A == {x} \X (1..f[x])
             B == Units(f, S \ {x})
  <2>1. Units(f, S) = A \cup B
    BY DEF Units
  <2>2. A \cap B = {}
    BY DEF Units
  <2>3. IsFiniteSet(A) /\ IsFiniteSet(B) /\ Cardinality(A) = f[x]
    BY <1>1, <1>2
  <2> HIDE DEF A, B
  <2>4. Cardinality(B) \in Nat
    BY <2>3, FS_CardinalityType
  <2>5. Cardinality(A \cup B) = Cardinality(A) + Cardinality(B) - Cardinality(A \cap B)
    BY <2>3, FS_Union
  <2>6. Cardinality(A \cap B) = 0
    BY <2>2, FS_EmptySet
  <2>7. QED
    BY <2>1, <2>3, <2>4, <2>5, <2>6 DEF B
<1>4. IsFiniteSet(Units(f, S)) /\ Cardinality(Units(f, S)) \in Nat
  BY <1>2, FS_CardinalityType
<1>5. QED
  BY <1>3, <1>4 DEF Units

\* A sum is the number of its units: the recursion that defines it is that of
\* the number of units, and only one function can satisfy it.
LEMMA SumIsCount ==
  ASSUME NEW f, NEW S, IsFiniteSet(S), \A x \in S : f[x] \in Nat
  PROVE  SumFunctionOnSet(f, S) = Cardinality(Units(f, S))
<1> DEFINE Pick(s) == CHOOSE x \in s : TRUE
           Sums(iter) == iter = [s \in SUBSET S |-> IF s = {} THEN 0 ELSE f[Pick(s)] + iter[s \ {Pick(s)}]]
           count == [s \in SUBSET S |-> Cardinality(Units(f, s))]
<1>1. SumFunctionOnSet(f, S) = (CHOOSE iter : Sums(iter))[S]
  BY DEF SumFunctionOnSet, FoldFunctionOnSet, MapThenFoldSet
<1>2. ASSUME NEW s \in SUBSET S
      PROVE  count[s] = IF s = {} THEN 0 ELSE f[Pick(s)] + count[s \ {Pick(s)}]
  <2>1. IsFiniteSet(s) /\ \A x \in s : f[x] \in Nat
    BY FS_Subset
  <2>2. CASE s = {}
    BY <2>1, <2>2, UnitsOf, FS_EmptySet
  <2>3. CASE s # {}
    <3>1. Pick(s) \in s
      BY <2>3
    <3> HIDE DEF Pick
    <3>2. QED
      BY <2>1, <2>3, <3>1, UnitsOf
  <2>4. QED
    BY <2>2, <2>3
<1>3. Sums(count)
  <2> DEFINE rhs == [s \in SUBSET S |-> IF s = {} THEN 0 ELSE f[Pick(s)] + count[s \ {Pick(s)}]]
  <2>1. \A s \in SUBSET S : count[s] = rhs[s]
    <3> HIDE DEF count, Pick
    <3>1. QED
      BY <1>2
  <2>2. count = rhs
    BY <2>1, Zenon
  <2>3. QED
    BY <2>2
<1>4. PICK iter : Sums(iter) /\ SumFunctionOnSet(f, S) = iter[S]
  <2> HIDE DEF Sums
  <2>1. QED
    BY <1>1, <1>3
<1>5. ASSUME NEW s \in SUBSET S
      PROVE  iter[s] = IF s = {} THEN 0 ELSE f[Pick(s)] + iter[s \ {Pick(s)}]
  <2> HIDE DEF Pick
  <2>1. QED
    BY <1>4
<1> HIDE DEF Sums
<1> DEFINE Wrong == {s \in FiniteSubsetsOf(S) : iter[s] # count[s]}
<1>6. Wrong = {}
  <2> SUFFICES ASSUME Wrong # {} PROVE FALSE
    OBVIOUS
  <2>1. PICK U \in Wrong : \A V \in Wrong : <<V, U>> \notin StrictSubsetOrdering(S)
    <3>1. Wrong \subseteq FiniteSubsetsOf(S)
      OBVIOUS
    <3>2. IsWellFoundedOn(StrictSubsetOrdering(S), FiniteSubsetsOf(S))
      BY FS_StrictSubsetOrderingWellFounded
    <3> HIDE DEF Wrong
    <3>3. QED
      BY <3>1, <3>2, WFMin
  <2>2. U \in SUBSET S /\ IsFiniteSet(U) /\ iter[U] # count[U]
    BY <2>1 DEF FiniteSubsetsOf
  <2>3. U # {}
    BY <1>2, <1>5, <2>2
  <2> DEFINE V == U \ {Pick(U)}
  <2>4. Pick(U) \in U
    BY <2>3
  <2>5. V \in SUBSET S /\ IsFiniteSet(V) /\ V \subseteq U /\ V # U
    <3> HIDE DEF Pick
    <3>1. QED
      BY <2>2, <2>4, FS_RemoveElement
  <2>6. iter[V] = count[V]
    <3> HIDE DEF V
    <3>1. <<V, U>> \in (SUBSET S) \X (SUBSET S) /\ <<V, U>>[1] = V /\ <<V, U>>[2] = U
      BY <2>2, <2>5
    <3>2. <<V, U>> \in StrictSubsetOrdering(S)
      BY <2>5, <3>1, Zenon DEF StrictSubsetOrdering
    <3>3. V \in FiniteSubsetsOf(S)
      BY <2>5 DEF FiniteSubsetsOf
    <3>4. QED
      BY <2>1, <3>2, <3>3
  <2>7. iter[U] = f[Pick(U)] + iter[V] /\ count[U] = f[Pick(U)] + count[V]
    <3> HIDE DEF count, Pick
    <3>1. QED
      BY <1>2, <1>5, <2>2, <2>3
  <2>8. QED
    BY <2>2, <2>6, <2>7
<1>7. S \in FiniteSubsetsOf(S)
  BY DEF FiniteSubsetsOf
<1>8. QED
  BY <1>4, <1>6, <1>7

\* A sum over more, or of more, is not less.
LEMMA SumMonotone ==
  ASSUME NEW f, NEW S, IsFiniteSet(S), \A x \in S : f[x] \in Nat,
         NEW g, NEW T, T \subseteq S, \A x \in T : g[x] \in Nat /\ g[x] <= f[x]
  PROVE  /\ SumFunctionOnSet(f, S) \in Nat /\ SumFunctionOnSet(g, T) \in Nat
         /\ SumFunctionOnSet(g, T) <= SumFunctionOnSet(f, S)
<1>1. IsFiniteSet(T)
  BY FS_Subset
<1>2. Units(g, T) \subseteq Units(f, S)
  <2>1. ASSUME NEW x \in T PROVE {x} \X (1..g[x]) \subseteq {x} \X (1..f[x])
    OBVIOUS
  <2>2. QED
    BY <2>1 DEF Units
<1>3. Cardinality(Units(g, T)) <= Cardinality(Units(f, S))
  BY <1>2, UnitsOf, FS_Subset
<1>4. QED
  BY <1>1, <1>3, SumIsCount, UnitsOf

----------------------------------------------------------------------------
(* What has been used up of a window is never given back.                  *)

\* A step keeps who paid for what is in a row, and the time of the row.
Lasting ==
  /\ now' \in Nat /\ now <= now'
  /\ \A r \in Request :
       /\ row[r].credits > 0 => /\ row'[r].credits = row[r].credits /\ row'[r].window = row[r].window
                                /\ req'[r].extra = req[r].extra
       /\ late[r].credits > 0 => /\ late'[r].credits = late[r].credits
                                 /\ late'[r].window = late[r].window

\* The sums are of finitely many numbers.
LEMMA PlanType ==
  ASSUME Shape, NEW w
  PROVE  /\ PlanCredits(w) = SumFunctionOnSet(ByPlan(w), Request)
                             + SumFunctionOnSet(ByAnyone(w), Request)
         /\ \A r \in Request : ByPlan(w)[r] \in Nat /\ ByAnyone(w)[r] \in Nat
         /\ PlanCredits(w) \in Nat
<1>1. \A r \in Request : row[r].credits \in Nat /\ late[r].credits \in Nat
  BY DEF Shape, Row
<1>2. \A r \in Request : ByPlan(w)[r] \in Nat /\ ByAnyone(w)[r] \in Nat
  BY <1>1 DEF ByPlan, ByAnyone
<1>3. DOMAIN ByPlan(w) = Request /\ DOMAIN ByAnyone(w) = Request
  BY DEF ByPlan, ByAnyone
<1>4. PlanCredits(w) = SumFunctionOnSet(ByPlan(w), Request) + SumFunctionOnSet(ByAnyone(w), Request)
  BY <1>3 DEF PlanCredits, SumFunction
<1>5. /\ SumFunctionOnSet(ByPlan(w), Request) \in Nat
      /\ SumFunctionOnSet(ByAnyone(w), Request) \in Nat
  BY <1>2, FiniteAssumption, SumMonotone
<1>6. QED
  BY <1>2, <1>4, <1>5

\* Nothing that the plan has paid for is taken back by a step that is lasting.
LEMMA PlanGrows ==
  ASSUME Shape, Shape', Lasting, NEW w
  PROVE  PlanCredits(w)' \in Nat /\ PlanCredits(w) <= PlanCredits(w)'
<1>1. \A r \in Request : /\ row[r].credits \in Nat /\ late[r].credits \in Nat
                         /\ row'[r].credits \in Nat /\ late'[r].credits \in Nat
  BY DEF Shape, Row
<1> DEFINE f == [r \in Request |-> IF ~req'[r].extra /\ row'[r].window = w
                                   THEN row'[r].credits ELSE 0]
           g == [r \in Request |-> IF late'[r].window = w THEN late'[r].credits ELSE 0]
<1>2. PlanCredits(w)' = SumFunctionOnSet(f, Request) + SumFunctionOnSet(g, Request)
  <2>1. PlanCredits(w)' = SumFunction(f) + SumFunction(g)
    BY DEF PlanCredits, ByPlan, ByAnyone
  <2>2. DOMAIN f = Request /\ DOMAIN g = Request
    OBVIOUS
  <2> HIDE DEF f, g
  <2>3. QED
    BY <2>1, <2>2 DEF SumFunction
<1>3. \A r \in Request : /\ f[r] \in Nat /\ g[r] \in Nat
                         /\ ByPlan(w)[r] \in Nat /\ ByAnyone(w)[r] \in Nat
  BY <1>1, PlanType
<1>4. \A r \in Request : ByPlan(w)[r] <= f[r]
  BY <1>1 DEF Lasting, ByPlan
<1>5. \A r \in Request : ByAnyone(w)[r] <= g[r]
  BY <1>1 DEF Lasting, ByAnyone
<1> HIDE DEF f, g
<1>6. /\ SumFunctionOnSet(ByPlan(w), Request) <= SumFunctionOnSet(f, Request)
      /\ SumFunctionOnSet(ByPlan(w), Request) \in Nat /\ SumFunctionOnSet(f, Request) \in Nat
  BY <1>3, <1>4, FiniteAssumption, SumMonotone
<1>7. /\ SumFunctionOnSet(ByAnyone(w), Request) <= SumFunctionOnSet(g, Request)
      /\ SumFunctionOnSet(ByAnyone(w), Request) \in Nat /\ SumFunctionOnSet(g, Request) \in Nat
  BY <1>3, <1>5, FiniteAssumption, SumMonotone
<1>8. QED
  BY <1>2, <1>6, <1>7, PlanType

\* What was so in some window stays so.
LEMMA SoFarKept ==
  ASSUME Shape, Shape', Lasting, NEW v \in Int
  PROVE  SoFar(v) => SoFar(v)'
<1> SUFFICES ASSUME NEW w \in 0..now, v <= PlanCredits(w)
             PROVE  SoFar(v)'
  BY DEF SoFar
<1>1. w \in 0..now'
  BY DEF Lasting, Shape
<1>2. v <= PlanCredits(w)'
  <2>1. PlanCredits(w) \in Nat /\ PlanCredits(w) <= PlanCredits(w)'
    BY PlanType, PlanGrows
  <2>2. PlanCredits(w)' \in Nat
    BY PlanGrows
  <2>3. QED
    BY <2>1, <2>2
<1>3. QED
  BY <1>1, <1>2 DEF SoFar

\* A sum of the database is what is there in this window, or a part of it.
LEMMA SumIsSoFar ==
  ASSUME IInv, \A r \in Request : SaysWhoPaid(r), NEW scope
  PROVE  SumCreditsInWindow(scope) \in Nat /\ SoFar(SumCreditsInWindow(scope))
<1>1. Shape /\ \A r \in Request : row[r].credits \in Nat /\ late[r].credits \in Nat
  BY DEF IInv, Shape, Row
<1> DEFINE T(rows) == {r \in Request : Counts(rows[r], scope)}
           f(rows) == [r \in Request |-> rows[r].credits]
<1>2. Credits(row, scope) = SumFunctionOnSet(f(row), T(row))
  BY DEF Credits
<1>3. Credits(late, scope) = SumFunctionOnSet(f(late), T(late))
  BY DEF Credits
<1>4. /\ T(row) \subseteq Request /\ T(late) \subseteq Request
      /\ \A r \in T(row) : f(row)[r] \in Nat /\ f(row)[r] <= ByPlan(now)[r]
      /\ \A r \in T(late) : f(late)[r] \in Nat /\ f(late)[r] <= ByAnyone(now)[r]
  BY <1>1 DEF Counts, SaysWhoPaid, ByPlan, ByAnyone
<1>5. \A r \in Request : ByPlan(now)[r] \in Nat /\ ByAnyone(now)[r] \in Nat
  BY <1>1, PlanType
<1> HIDE DEF T, f
<1>6. /\ Credits(row, scope) \in Nat /\ SumFunctionOnSet(ByPlan(now), Request) \in Nat
      /\ Credits(row, scope) <= SumFunctionOnSet(ByPlan(now), Request)
  BY <1>2, <1>4, <1>5, FiniteAssumption, SumMonotone
<1>7. /\ Credits(late, scope) \in Nat /\ SumFunctionOnSet(ByAnyone(now), Request) \in Nat
      /\ Credits(late, scope) <= SumFunctionOnSet(ByAnyone(now), Request)
  BY <1>3, <1>4, <1>5, FiniteAssumption, SumMonotone
<1>8. SumCreditsInWindow(scope) \in Nat /\ SumCreditsInWindow(scope) <= PlanCredits(now)
  BY <1>1, <1>6, <1>7, PlanType DEF SumCreditsInWindow
<1>9. now \in 0..now
  BY <1>1 DEF Shape
<1>10. QED
  BY <1>8, <1>9 DEF SoFar

\* A step that pays for no row, or for one that had no credits.
LEMMA RowsKept ==
  ASSUME IInv, SInv, UNCHANGED late, now' \in {now, now + 1},
         \A q \in Request :
           \/ /\ row'[q].credits = row[q].credits /\ row'[q].window = row[q].window
              /\ row'[q].extra = row[q].extra /\ req'[q].extra = req[q].extra
           \/ row[q].credits = 0 /\ (row'[q].credits > 0 => row'[q].extra = req'[q].extra)
  PROVE  Lasting /\ \A r \in Request : SaysWhoPaid(r)'
<1>1. now \in Nat /\ \A r \in Request : SaysWhoPaid(r)
  BY DEF IInv, SInv, Shape
<1>2. QED
  BY <1>1 DEF Lasting, SaysWhoPaid

\* What is paid for is kept, and the collector has nothing twice.
Kept == Lasting /\ (\A r \in Request : SaysWhoPaid(r)') /\ QueuedOnce'

\* A step of a request before its answer.
LEMMA ThroughKeeps ==
  ASSUME IInv, SInv, NEW r \in Request, req[r].at # "done", NEW w, Through(r, w)
  PROVE  Kept
<1>1. /\ \A q \in Request \ {r} : req'[q] = req[q]
      /\ row' = row \/ CreateRequest(r, "processing")
      /\ UNCHANGED <<late, events, batch, now>>
  BY DEF Through
<1>2. row[r].credits = 0 /\ row \in [Request -> Row]
  BY DEF IInv, OneWay, Completed, Shape
<1>3. \A q \in Request \ {r} : row'[q] = row[q]
  BY <1>1, <1>2 DEF CreateRequest
<1>4. row'[r].credits = 0
  BY <1>1, <1>2 DEF CreateRequest, NoRow
<1>5. Lasting /\ \A q \in Request : SaysWhoPaid(q)'
  <2>1. \A q \in Request :
          \/ /\ row'[q].credits = row[q].credits /\ row'[q].window = row[q].window
             /\ row'[q].extra = row[q].extra /\ req'[q].extra = req[q].extra
          \/ row[q].credits = 0 /\ (row'[q].credits > 0 => row'[q].extra = req'[q].extra)
    BY <1>1, <1>2, <1>3, <1>4
  <2>2. QED
    BY <1>1, <2>1, RowsKept
<1>6. QueuedOnce'
  BY <1>1 DEF SInv, QueuedOnce, Batched
<1>7. QED
  BY <1>5, <1>6 DEF Kept

\* An answer: the collector cannot have one of the request yet.
LEMMA AnswerKeeps ==
  ASSUME IInv, SInv, NEW r \in Request, NEW c \in Nat, At(r, "upstream"), AnsweredWith(r, c)
  PROVE  Kept
<1>1. /\ UNCHANGED <<row, late, batch, now>>
      /\ \A q \in Request \ {r} : req'[q] = req[q]
  BY DEF AnsweredWith, records, Finish, IInv, Shape
<1>2. /\ row[r].credits = 0 /\ late[r].status = "none"
      /\ \A i \in DOMAIN events : events[i].request # r
      /\ r \notin Batched
  BY DEF At, IInv, OneWay, Collected, Completed, Batched
<1>3. Lasting /\ \A q \in Request : SaysWhoPaid(q)'
  <2>1. \A q \in Request :
          \/ /\ row'[q].credits = row[q].credits /\ row'[q].window = row[q].window
             /\ row'[q].extra = row[q].extra /\ req'[q].extra = req[q].extra
          \/ row[q].credits = 0 /\ (row'[q].credits > 0 => row'[q].extra = req'[q].extra)
    BY <1>1, <1>2
  <2>2. QED
    BY <1>1, <2>1, RowsKept
<1>4. QueuedOnce'
  <2>1. events' = events \/ events' = Append(events, [request |-> r, credits |-> c])
    BY DEF AnsweredWith, RecordAnswer, Record
  <2>2. CASE events' = events
    BY <1>1, <2>2 DEF SInv, QueuedOnce, Batched
  <2>3. CASE events' = Append(events, [request |-> r, credits |-> c])
    <3> DEFINE e == [request |-> r, credits |-> c]
               n == Len(events)
    <3>1. events \in Seq(Event) /\ e \in Event /\ e.request = r
      BY DEF IInv, Shape, Event
    <3> HIDE DEF e
    <3>2. /\ n \in Nat /\ DOMAIN events = 1..n /\ DOMAIN events' = 1..n + 1
          /\ events'[n + 1] = e /\ \A i \in 1..n : events'[i] = events[i]
      BY <2>3, <3>1 DEF e
    <3> HIDE DEF n
    <3>3. \A i \in DOMAIN events' : i \in 1..n \/ i = n + 1
      BY <3>2
    <3>4. Batched' = Batched
      BY <1>1 DEF Batched
    <3>5. \A i \in 1..n : /\ events'[i].request = events[i].request /\ events[i].request # r
                          /\ late[events[i].request].status = "none"
                          /\ events[i].request \notin Batched
                          /\ \A j \in 1..n : events[j].request = events[i].request => i = j
      BY <1>2, <3>2 DEF SInv, QueuedOnce
    <3>6. \A i \in DOMAIN events' :
            /\ late'[events'[i].request].status = "none" /\ events'[i].request \notin Batched'
            /\ \A j \in DOMAIN events' : events'[j].request = events'[i].request => i = j
      BY <1>1, <1>2, <3>1, <3>2, <3>3, <3>4, <3>5
    <3>7. QED
      BY <1>1, <3>4, <3>6 DEF SInv, QueuedOnce
  <2>4. QED
    BY <2>1, <2>2, <2>3
<1>5. QED
  BY <1>3, <1>4 DEF Kept

\* The goroutine of a request writes what was billed and who pays.
LEMMA WriteKeeps ==
  ASSUME IInv, SInv, NEW r \in Request, Write(r)
  PROVE  Kept
<1>1. /\ UNCHANGED <<late, now, req, events, batch>>
      /\ \/ row' = row \/ CreateRequest(r, "rejected")
         \/ CompleteRequest(r, writer[r], req[r].credits, req[r].extra)
  BY DEF Write, queues, limits
<1>2. row[r].credits = 0 /\ row \in [Request -> Row]
  BY DEF Write, IInv, OneWay, Shape
<1>3. /\ \A q \in Request \ {r} : row'[q] = row[q]
      /\ row'[r].credits > 0 => row'[r].extra = req[r].extra
  <2>1. CASE row' = row
    BY <1>2, <2>1
  <2>2. CASE CreateRequest(r, "rejected")
    BY <1>2, <2>2 DEF CreateRequest, NoRow
  <2>3. CASE CompleteRequest(r, writer[r], req[r].credits, req[r].extra)
    <3>1. row[r] \in Row
      BY <1>2
    <3>2. QED
      BY <1>2, <2>3, <3>1 DEF CompleteRequest, Row
  <2>4. QED
    BY <1>1, <2>1, <2>2, <2>3
<1>4. Lasting /\ \A q \in Request : SaysWhoPaid(q)'
  <2>1. \A q \in Request :
          \/ /\ row'[q].credits = row[q].credits /\ row'[q].window = row[q].window
             /\ row'[q].extra = row[q].extra /\ req'[q].extra = req[q].extra
          \/ row[q].credits = 0 /\ (row'[q].credits > 0 => row'[q].extra = req'[q].extra)
    BY <1>1, <1>2, <1>3
  <2>2. QED
    BY <1>1, <2>1, RowsKept
<1>5. QueuedOnce'
  BY <1>1 DEF SInv, QueuedOnce, Batched
<1>6. QED
  BY <1>4, <1>5 DEF Kept

\* The goroutine of the collector, the HTTP log, main and the clock.
LEMMA BehindKeeps ==
  ASSUME IInv, SInv, UNCHANGED <<req, writer>>, Behind \/ Shutdown \/ Rollover
  PROVE  Kept
<1>1. Shape /\ (\A q \in Request : SaysWhoPaid(q)) /\ QueuedOnce
  BY DEF IInv, SInv
<1>2. CASE Receive
  <2>1. /\ events # <<>> /\ batch' = Append(batch, Head(events)) /\ events' = Tail(events)
        /\ UNCHANGED <<row, late, now, req>>
    BY <1>2 DEF Receive, records
  <2>2. Lasting /\ \A q \in Request : SaysWhoPaid(q)'
    BY <2>1, RowsKept
  <2>3. events \in Seq(Event) /\ batch \in Seq(Event)
    BY <1>1 DEF Shape
  <2> DEFINE n == Len(events)
  <2>4. /\ n \in Nat \ {0} /\ DOMAIN events = 1..n /\ DOMAIN events' = 1..n - 1
        /\ \A i \in 1..n - 1 : events'[i] = events[i + 1] /\ Head(events) = events[1]
        /\ Head(events) = events[1] /\ Head(events) \in Event
    BY <2>1, <2>3
  <2>5. \A q : q \in Batched' <=> q \in Batched \/ q = events[1].request
    <3>1. /\ Items(Append(batch, Head(events))) = Items(batch) \cup {Head(events)}
      BY <2>3, <2>4, AppendItems
    <3>2. \A q : /\ q \in Batched <=> \E e \in Items(batch) : e.request = q
                 /\ q \in Batched' <=> \E e \in Items(batch') : e.request = q
      BY DEF Batched, Items
    <3>3. Items(batch') = Items(batch) \cup {events[1]}
      BY <2>1, <2>4, <3>1 DEF Items
    <3>4. QED
      BY <3>2, <3>3
  <2> HIDE DEF n
  <2>6. \A i \in 1..n : /\ late[events[i].request].status = "none"
                        /\ events[i].request \notin Batched
                        /\ \A j \in 1..n : events[j].request = events[i].request => i = j
    BY <1>1, <2>4 DEF QueuedOnce
  <2>7. ASSUME NEW i \in DOMAIN events'
        PROVE  /\ late'[events'[i].request].status = "none" /\ events'[i].request \notin Batched'
               /\ \A j \in DOMAIN events' : events'[j].request = events'[i].request => i = j
    <3>1. i + 1 \in 1..n /\ 1 \in 1..n /\ events'[i] = events[i + 1] /\ i + 1 # 1
      BY <2>4
    <3>2. events'[i].request \notin Batched'
      BY <2>5, <2>6, <3>1
    <3>3. ASSUME NEW j \in DOMAIN events', events'[j].request = events'[i].request PROVE i = j
      <4>1. j + 1 \in 1..n /\ events'[j] = events[j + 1]
        BY <2>4
      <4>2. i + 1 = j + 1
        BY <2>6, <3>1, <3>3, <4>1
      <4>3. QED
        BY <2>4, <4>2
    <3>4. QED
      BY <2>1, <2>6, <3>1, <3>2, <3>3
  <2>8. \A q \in Batched' : late'[q].status = "none"
    <3>1. 1 \in 1..n
      BY <2>4
    <3>2. QED
      BY <1>1, <2>1, <2>5, <2>6, <3>1 DEF QueuedOnce
  <2>9. QED
    BY <2>2, <2>7, <2>8 DEF Kept, QueuedOnce
<1>3. CASE Flush
  <2>1. batch' = <<>> /\ UNCHANGED <<row, now, events, req>>
    BY <1>3 DEF Flush
  <2>2. Batched' = {}
    BY <2>1 DEF Batched
  <2>3. CASE late' = late
    BY <1>1, <2>1, <2>2, <2>3, RowsKept DEF Kept, QueuedOnce
  <2>4. CASE FlushCommits
    <3>1. \A q \in Request : q \notin Batched => late'[q] = late[q]
      BY <2>4 DEF FlushCommits
    <3>2. ASSUME NEW q \in Request, q \in Batched
          PROVE  ~late'[q].extra /\ late[q].credits = 0
      <4>1. \E e : late'[q] = LateRow(e)
        BY <2>4, <3>2 DEF FlushCommits
      <4>2. late[q].status = "none"
        BY <1>1, <3>2 DEF QueuedOnce
      <4>3. QED
        BY <4>1, <4>2 DEF LateRow, NoRow, IInv, OneWay
    <3>3. \A q \in Request : SaysWhoPaid(q)'
      <4>1. \A q \in Request : ~late'[q].extra
        BY <1>1, <3>1, <3>2 DEF SaysWhoPaid
      <4>2. QED
        BY <1>1, <2>1, <4>1 DEF SaysWhoPaid
    <3>4. Lasting
      <4>1. \A q \in Request : late[q].credits > 0 => late'[q] = late[q]
        BY <3>1, <3>2
      <4>2. QED
        BY <1>1, <2>1, <4>1 DEF Lasting, Shape
    <3>5. QueuedOnce'
      <4>1. \A i \in DOMAIN events : events[i].request \in Request
        <5>1. \A i \in DOMAIN events : events[i] \in Event
          BY <1>1 DEF Shape
        <5>2. QED
          BY <5>1 DEF Event
      <4>2. QED
        BY <1>1, <2>1, <2>2, <3>1, <4>1 DEF QueuedOnce
    <3>6. QED
      BY <3>3, <3>4, <3>5 DEF Kept
  <2>5. QED
    BY <1>3, <2>3, <2>4 DEF Flush, FlushFails
<1>4. CASE RunReturns \/ Upload \/ LoggerStopped \/ Exit(Unfinished) \/ Shutdown \/ Rollover
  <2>1. /\ UNCHANGED <<late, events, batch, req>> /\ now' \in {now, now + 1}
        /\ row' = row \/ row' = [row EXCEPT ![Head(logs)].logged = TRUE]
    BY <1>4 DEF RunReturns, Upload, LoggerStopped, Exit, Shutdown, Rollover, records, queues
  <2>2. \A q \in Request : /\ row'[q].credits = row[q].credits /\ row'[q].window = row[q].window
                           /\ row'[q].extra = row[q].extra
    <3>1. row \in [Request -> Row]
      BY <1>1 DEF Shape
    <3>2. CASE row' = row
      BY <3>2
    <3>3. CASE row' = [row EXCEPT ![Head(logs)].logged = TRUE]
      <4> SUFFICES ASSUME NEW q \in Request
                   PROVE  /\ row'[q].credits = row[q].credits /\ row'[q].window = row[q].window
                          /\ row'[q].extra = row[q].extra
        OBVIOUS
      <4>1. row[q] \in Row /\ (row'[q] = row[q] \/ row'[q] = [row[q] EXCEPT !.logged = TRUE])
        BY <3>1, <3>3
      <4>2. QED
        BY <4>1 DEF Row
    <3>4. QED
      BY <2>1, <3>2, <3>3
  <2>3. Lasting /\ \A q \in Request : SaysWhoPaid(q)'
    BY <2>1, <2>2, RowsKept
  <2>4. QueuedOnce'
    BY <1>1, <2>1 DEF QueuedOnce, Batched
  <2>5. QED
    BY <2>3, <2>4 DEF Kept
<1>5. QED
  BY <1>2, <1>3, <1>4 DEF Behind

----------------------------------------------------------------------------
(* What a request is told, and what it concludes.                          *)

\* The rules are of the key or the project, and their limits are numbers.
LEMMA RulesType ==
  \A i \in DOMAIN Rules : Rules[i].max \in Nat /\ Rules[i].scope \in Scope
<1>1. Rules \in Seq([scope : {"key", "project"}, max : Nat])
  BY RuleAssumption
<1>2. ASSUME NEW S, NEW rules \in Seq(S) PROVE \A i \in DOMAIN rules : rules[i] \in S
  OBVIOUS
<1>3. \A i \in DOMAIN Rules : Rules[i] \in [scope : {"key", "project"}, max : Nat]
  BY <1>1, <1>2
<1>4. QED
  BY <1>3 DEF Scope

\* A limit is found to be reached in the cache or by the sum.
Reached(r) == \E i \in DOMAIN Rules : \E used \in {req[r].sum} \cup {cache[s] : s \in Scope} :
                used >= Rules[i].max

\* The steps that look at the sums: of r, or of nobody.
LEMMA SumsKept ==
  ASSUME IInv, IInv', SInv, Kept,
         DOMAIN cache' = Scope /\ cache' = [s \in Scope |-> cache'[s]],
         \A s \in Scope : cache'[s] \in {cache[s], Miss} \cup {req[r].sum : r \in Request},
         \A r \in Request :
           \/ req'[r] = req[r]
           \/ /\ \/ req'[r].sum \in {0, req[r].sum}
                 \/ \E scope \in Scope : req'[r].sum = SumCreditsInWindow(scope)
              /\ req'[r].at \in {"rule", "sum", "set"} => req'[r].rule \in DOMAIN Rules
              /\ req'[r].hit => req[r].hit \/ Reached(r)
  PROVE  SInv'
<1>1. /\ Shape /\ Shape' /\ Lasting
      /\ cache \in [Scope -> Nat \cup {Miss}] /\ \A s \in Scope : SoFar(cache[s])
      /\ \A r \in Request : Told(r) /\ SaysWhoPaid(r)
      /\ LimitedOnlyWhenUsedUp
  BY DEF IInv, SInv, Kept
<1>2. \A v \in Nat \cup {Miss} : SoFar(v) => SoFar(v)'
  <2>1. Nat \cup {Miss} \subseteq Int
    BY DEF Miss
  <2>2. QED
    BY <1>1, <2>1, SoFarKept
<1>3. SoFar(0) /\ SoFar(Miss)
  <2>1. 0 \in 0..now /\ PlanCredits(0) \in Nat
    BY <1>1, PlanType DEF Shape
  <2>2. QED
    BY <2>1 DEF SoFar, Miss
<1>4. \A scope : SumCreditsInWindow(scope) \in Nat /\ SoFar(SumCreditsInWindow(scope))
  BY <1>1, SumIsSoFar
<1>5. \A r \in Request : req[r].sum \in Nat /\ SoFar(req[r].sum)
  BY <1>1 DEF Told
<1>6. ASSUME NEW s \in Scope PROVE cache'[s] \in Nat \cup {Miss} /\ SoFar(cache[s])'
  BY <1>1, <1>2, <1>3, <1>5
<1>7. ASSUME NEW r \in Request PROVE Told(r)'
  <2>1. req'[r].sum \in Nat /\ SoFar(req[r].sum)'
    BY <1>2, <1>3, <1>4, <1>5
  <2>2. req'[r].at \in {"rule", "sum", "set"} => req'[r].rule \in DOMAIN Rules
    BY <1>1 DEF Told
  <2>3. QED
    BY <2>1, <2>2 DEF Told
<1>8. LimitedOnlyWhenUsedUp'
  <2> SUFFICES ASSUME NEW r \in Request, req'[r].hit
               PROVE  \E i \in DOMAIN Rules, w \in 0..now' : PlanCredits(w)' >= Rules[i].max
    BY DEF LimitedOnlyWhenUsedUp
  <2>1. PICK i \in DOMAIN Rules, v \in Nat \cup {Miss} : SoFar(v)' /\ v >= Rules[i].max
    <3>1. CASE req[r].hit
      <4>1. PICK i \in DOMAIN Rules, w \in 0..now : PlanCredits(w) >= Rules[i].max
        BY <1>1, <3>1 DEF LimitedOnlyWhenUsedUp
      <4>2. PlanCredits(w) \in Nat
        BY <1>1, PlanType
      <4>3. SoFar(PlanCredits(w))
        BY <4>2 DEF SoFar
      <4>4. QED
        BY <1>2, <4>1, <4>2, <4>3
    <3>2. CASE ~req[r].hit
      <4>1. Reached(r)
        BY <3>2
      <4>2. PICK i \in DOMAIN Rules, used \in {req[r].sum} \cup {cache[s] : s \in Scope} :
              used >= Rules[i].max
        BY <4>1 DEF Reached
      <4>3. used \in Nat \cup {Miss} /\ SoFar(used)'
        BY <1>1, <1>2, <1>5, <4>2
      <4>4. QED
        BY <4>2, <4>3
    <3>3. QED
      BY <3>1, <3>2
  <2>2. PICK w \in 0..now' : v <= PlanCredits(w)'
    BY <2>1 DEF SoFar
  <2>3. PlanCredits(w)' \in Nat
    BY <1>1, PlanGrows
  <2>4. Rules[i].max \in Nat
    BY RulesType
  <2>5. v \in Int
    BY <2>1 DEF Miss
  <2>6. PlanCredits(w)' >= Rules[i].max
    BY <2>1, <2>2, <2>3, <2>4, <2>5
  <2>7. QED
    BY <2>6
<1>9. cache' \in [Scope -> Nat \cup {Miss}]
  BY <1>6
<1>10. QED
  BY <1>6, <1>7, <1>8, <1>9 DEF SInv, Kept

\* What PreCheck concludes from a sum.
LEMMA DecidedSums ==
  ASSUME NEW q, NEW used, DOMAIN q = DOMAIN Idle, q.rule \in DOMAIN Rules
  PROVE  /\ Decided(q, used).sum = 0
         /\ Decided(q, used).at = "rule" => Decided(q, used).rule \in DOMAIN Rules
         /\ Decided(q, used).at \in {"rule", "classic"}
         /\ Decided(q, used).hit => q.hit \/ \E i \in DOMAIN Rules : used >= Rules[i].max
<1>1. Rules \in Seq([scope : {"key", "project"}, max : Nat])
  BY RuleAssumption
<1>2. Len(Rules) \in Nat /\ DOMAIN Rules = 1..Len(Rules)
  BY <1>1
<1>3. q.rule < Len(Rules) => q.rule + 1 \in DOMAIN Rules
  BY <1>2
<1>4. CASE used >= Rules[q.rule].max
  BY <1>4 DEF Decided, Idle
<1>5. CASE ~(used >= Rules[q.rule].max) /\ q.rule < Len(Rules)
  BY <1>3, <1>5 DEF Decided, Idle
<1>6. CASE ~(used >= Rules[q.rule].max) /\ ~(q.rule < Len(Rules))
  BY <1>6 DEF Decided, Idle
<1>7. QED
  BY <1>4, <1>5, <1>6

\* What a step of a request does to the cache.
Caches(r) ==
  \/ cache' = cache
  \/ \E s \in Scope : cache' = [cache EXCEPT ![s] = req[r].sum]
  \/ cache' = [s \in Scope |-> IF s = "key" THEN cache[s] ELSE Miss]

\* A step of one request.
LEMMA SumsOf ==
  ASSUME IInv, IInv', SInv, Kept, NEW r \in Request, NEW x, req' = [req EXCEPT ![r] = x],
         Caches(r),
         x.sum \in {0, req[r].sum} \/ \E scope \in Scope : x.sum = SumCreditsInWindow(scope),
         x.at \in {"rule", "sum", "set"} => x.rule \in DOMAIN Rules,
         x.hit => req[r].hit \/ Reached(r)
  PROVE  SInv'
<1>1. DOMAIN req = Request
  BY DEF IInv, Shape
<1>2. req'[r] = x /\ \A q \in Request \ {r} : req'[q] = req[q]
  BY <1>1
<1>3. \A q \in Request :
        \/ req'[q] = req[q]
        \/ /\ \/ req'[q].sum \in {0, req[q].sum}
              \/ \E scope \in Scope : req'[q].sum = SumCreditsInWindow(scope)
           /\ req'[q].at \in {"rule", "sum", "set"} => req'[q].rule \in DOMAIN Rules
           /\ req'[q].hit => req[q].hit \/ Reached(q)
  <2> SUFFICES ASSUME NEW q \in Request
               PROVE  \/ req'[q] = req[q]
                      \/ /\ \/ req'[q].sum \in {0, req[q].sum}
                            \/ \E scope \in Scope : req'[q].sum = SumCreditsInWindow(scope)
                         /\ req'[q].at \in {"rule", "sum", "set"} => req'[q].rule \in DOMAIN Rules
                         /\ req'[q].hit => req[q].hit \/ Reached(q)
    OBVIOUS
  <2>1. CASE q = r
    BY <1>2, <2>1
  <2>2. CASE q # r
    BY <1>2, <2>2
  <2>3. QED
    BY <2>1, <2>2
<1>4. /\ DOMAIN cache' = Scope /\ cache' = [s \in Scope |-> cache'[s]]
      /\ \A s \in Scope : cache'[s] \in {cache[s], Miss, req[r].sum}
  <2>1. cache \in [Scope -> Nat \cup {Miss}]
    BY DEF SInv
  <2>2. CASE cache' = cache
    BY <2>1, <2>2
  <2>3. ASSUME NEW t \in Scope, cache' = [cache EXCEPT ![t] = req[r].sum]
        PROVE  /\ DOMAIN cache' = Scope /\ cache' = [s \in Scope |-> cache'[s]]
               /\ \A s \in Scope : cache'[s] \in {cache[s], Miss, req[r].sum}
    BY <2>1, <2>3
  <2>4. CASE cache' = [s \in Scope |-> IF s = "key" THEN cache[s] ELSE Miss]
    BY <2>4
  <2>5. QED
    BY <2>2, <2>3, <2>4 DEF Caches
<1>5. \A s \in Scope : cache'[s] \in {cache[s], Miss} \cup {req[q].sum : q \in Request}
  BY <1>4
<1>6. QED
  BY <1>3, <1>4, <1>5, SumsKept

\* A step that looks at no sum: the request goes on elsewhere or is finished.
LEMMA SumsElse ==
  ASSUME IInv, IInv', SInv, Kept, NEW r \in Request,
         Caches(r),
         \/ \E c : Finish(r, c)
         \/ \E label : Goto(r, label) /\ label \notin {"rule", "sum", "set"}
         \/ req' = [req EXCEPT ![r].at = "guard", ![r].sum = 0]
  PROVE  SInv'
<1>1. DOMAIN req[r] = DOMAIN Idle
  BY DEF IInv, Shape
<1>2. ASSUME NEW c, Finish(r, c) PROVE SInv'
  <2> DEFINE x == [Idle EXCEPT !.at = "done", !.extra = req[r].extra, !.credits = c]
  <2>1. req' = [req EXCEPT ![r] = x]
    BY <1>2 DEF Finish
  <2>2. x.sum = 0 /\ x.at = "done" /\ x.hit = FALSE
    BY DEF Idle
  <2> HIDE DEF x
  <2>3. QED
    BY <2>1, <2>2, SumsOf
<1>3. ASSUME NEW label, Goto(r, label), label \notin {"rule", "sum", "set"} PROVE SInv'
  <2> DEFINE x == [req[r] EXCEPT !.at = label]
  <2>1. req' = [req EXCEPT ![r] = x]
    BY <1>3 DEF Goto
  <2>2. x.sum = req[r].sum /\ x.at = label /\ x.hit = req[r].hit
    BY <1>1 DEF Idle
  <2> HIDE DEF x
  <2>3. QED
    BY <1>3, <2>1, <2>2, SumsOf
<1>4. ASSUME req' = [req EXCEPT ![r].at = "guard", ![r].sum = 0] PROVE SInv'
  <2> DEFINE x == [req[r] EXCEPT !.at = "guard", !.sum = 0]
  <2>1. req' = [req EXCEPT ![r] = x]
    BY <1>4
  <2>2. x.sum = 0 /\ x.at = "guard" /\ x.hit = req[r].hit
    BY <1>1 DEF Idle
  <2> HIDE DEF x
  <2>3. QED
    BY <2>1, <2>2, SumsOf
<1>5. QED
  BY <1>2, <1>3, <1>4

\* No step makes a request conclude that a limit is reached that is not.
LEMMA SumsStep ==
  ASSUME IInv, IInv', SInv, NEW r \in Request, Kept, Arrive(r) \/ NoSession(r) \/ Handle(r)
  PROVE  SInv'
<1>1. /\ DOMAIN req[r] = DOMAIN Idle /\ Told(r)
      /\ \A label : At(r, label) => req[r].at = label
  BY DEF IInv, Shape, SInv, At
<1>2. UNCHANGED cache => Caches(r)
  BY DEF Caches
<1>3. Rules # <<>> => 1 \in DOMAIN Rules
  <2>1. Rules \in Seq([scope : {"key", "project"}, max : Nat])
    BY RuleAssumption
  <2>2. QED
    BY <2>1
<1>4. \A i \in DOMAIN Rules : Rules[i].scope \in Scope
  BY RulesType
<1>5. CASE Arrive(r)
  <2>1. PICK kind : req' = [req EXCEPT ![r] = [Idle EXCEPT !.kind = kind,
                      !.at = IF Eligible(kind) /\ Rules # <<>> THEN "rule" ELSE "classic"]]
    BY <1>5 DEF Arrive
  <2> DEFINE x == [Idle EXCEPT !.kind = kind,
                     !.at = IF Eligible(kind) /\ Rules # <<>> THEN "rule" ELSE "classic"]
  <2>2. /\ x.sum = 0 /\ x.hit = FALSE /\ x.rule = 1
        /\ x.at = IF Eligible(kind) /\ Rules # <<>> THEN "rule" ELSE "classic"
    BY DEF Idle
  <2>3. req' = [req EXCEPT ![r] = x] /\ UNCHANGED cache
    BY <1>5, <2>1 DEF Arrive, limits
  <2> HIDE DEF x
  <2>4. QED
    BY <1>2, <1>3, <2>2, <2>3, SumsOf
<1>6. CASE CheckRule(r)
  <2> DEFINE c == cache[Rules[req[r].rule].scope]
  <2>1. /\ req[r].at = "rule" /\ req[r].rule \in DOMAIN Rules /\ UNCHANGED cache
        /\ Rules[req[r].rule].scope \in Scope
    BY <1>1, <1>4, <1>6 DEF CheckRule, limits, Told
  <2>2. CASE c = Miss
    <3> DEFINE x == [req[r] EXCEPT !.at = "sum"]
    <3>1. req' = [req EXCEPT ![r] = x]
      BY <1>6, <2>2 DEF CheckRule
    <3>2. x.sum = req[r].sum /\ x.hit = req[r].hit /\ x.rule = req[r].rule
      BY <1>1 DEF Idle
    <3> HIDE DEF x
    <3>3. QED
      BY <1>2, <2>1, <3>1, <3>2, SumsOf
  <2>3. CASE c # Miss
    <3> DEFINE x == Decided(req[r], c)
    <3>1. req' = [req EXCEPT ![r] = x]
      BY <1>6, <2>3 DEF CheckRule
    <3>2. /\ x.sum = 0 /\ x.at \in {"rule", "classic"}
          /\ x.at = "rule" => x.rule \in DOMAIN Rules
          /\ x.hit => req[r].hit \/ \E i \in DOMAIN Rules : c >= Rules[i].max
      BY <1>1, <2>1, DecidedSums
    <3>3. x.hit => req[r].hit \/ Reached(r)
      BY <2>1, <3>2 DEF Reached
    <3> HIDE DEF x
    <3>4. QED
      BY <1>2, <2>1, <3>1, <3>2, <3>3, SumsOf
  <2>4. QED
    BY <2>2, <2>3
<1>7. CASE SumRule(r)
  <2>1. /\ req[r].at = "sum" /\ req[r].rule \in DOMAIN Rules /\ UNCHANGED cache
        /\ Rules[req[r].rule].scope \in Scope
    BY <1>1, <1>4, <1>7 DEF SumRule, limits, Told
  <2> DEFINE sum == SumCreditsInWindow(Rules[req[r].rule].scope)
  <2>2. CASE req' = [req EXCEPT ![r].at = "set", ![r].sum = sum]
    <3> DEFINE x == [req[r] EXCEPT !.at = "set", !.sum = sum]
    <3>1. req' = [req EXCEPT ![r] = x]
      BY <2>2
    <3>2. x.sum = sum /\ x.hit = req[r].hit /\ x.rule = req[r].rule
      BY <1>1 DEF Idle
    <3> HIDE DEF x
    <3>3. QED
      BY <1>2, <2>1, <3>1, <3>2, SumsOf
  <2>3. CASE req' = [req EXCEPT ![r].at = "quota", ![r].rule = 1]
    <3> DEFINE x == [req[r] EXCEPT !.at = "quota", !.rule = 1]
    <3>1. req' = [req EXCEPT ![r] = x]
      BY <2>3
    <3>2. x.sum = req[r].sum /\ x.hit = req[r].hit /\ x.at = "quota"
      BY <1>1 DEF Idle
    <3> HIDE DEF x
    <3>3. QED
      BY <1>2, <2>1, <3>1, <3>2, SumsOf
  <2>4. QED
    BY <1>7, <2>2, <2>3 DEF SumRule
<1>8. CASE SetRule(r)
  <2> DEFINE x == Decided(req[r], req[r].sum)
  <2>1. req[r].at = "set" /\ req[r].rule \in DOMAIN Rules /\ Rules[req[r].rule].scope \in Scope
    BY <1>1, <1>4, <1>8 DEF SetRule, Told
  <2>2. /\ req' = [req EXCEPT ![r] = x]
        /\ cache' = [cache EXCEPT ![Rules[req[r].rule].scope] = req[r].sum]
    BY <1>8 DEF SetRule
  <2>3. Caches(r)
    BY <2>1, <2>2 DEF Caches, Scope
  <2>4. /\ x.sum = 0 /\ x.at \in {"rule", "classic"}
        /\ x.at = "rule" => x.rule \in DOMAIN Rules
        /\ x.hit => req[r].hit \/ \E i \in DOMAIN Rules : req[r].sum >= Rules[i].max
    BY <1>1, <2>1, DecidedSums
  <2>5. x.hit => req[r].hit \/ Reached(r)
    BY <2>4 DEF Reached
  <2> HIDE DEF x
  <2>6. QED
    BY <2>2, <2>3, <2>4, <2>5, SumsOf
<1>9. CASE SumQuota(r)
  <2>1. UNCHANGED cache /\ "user" \in Scope
    BY <1>9 DEF SumQuota, limits, Scope
  <2> DEFINE sum == SumCreditsInWindow("user")
  <2>2. CASE req' = [req EXCEPT ![r].at = "quota set", ![r].sum = sum]
    <3> DEFINE x == [req[r] EXCEPT !.at = "quota set", !.sum = sum]
    <3>1. req' = [req EXCEPT ![r] = x]
      BY <2>2
    <3>2. x.sum = sum /\ x.hit = req[r].hit /\ x.at = "quota set"
      BY <1>1 DEF Idle
    <3> HIDE DEF x
    <3>3. QED
      BY <1>2, <2>1, <3>1, <3>2, SumsOf
  <2>3. CASE Goto(r, "guard")
    <3>1. \E label : Goto(r, label) /\ label \notin {"rule", "sum", "set"}
      BY <2>3
    <3>2. QED
      BY <1>2, <2>1, <3>1, SumsElse
  <2>4. QED
    BY <1>9, <2>2, <2>3 DEF SumQuota
<1>10. CASE InsertPending(r)
  <2>1. PICK id : req' = [req EXCEPT ![r].at = "upstream", ![r].extra = Guarded(r), ![r].id = id]
    BY <1>10 DEF InsertPending
  <2> DEFINE x == [req[r] EXCEPT !.at = "upstream", !.extra = Guarded(r), !.id = id]
  <2>2. req' = [req EXCEPT ![r] = x] /\ UNCHANGED cache
    BY <1>10, <2>1 DEF InsertPending, limits
  <2>3. x.sum = req[r].sum /\ x.hit = req[r].hit /\ x.at = "upstream"
    BY <1>1 DEF Idle
  <2> HIDE DEF x
  <2>4. QED
    BY <1>2, <2>2, <2>3, SumsOf
<1>11. CASE Answered(r) \/ ImageAnswered(r)
  <2>1. PICK c : AnsweredWith(r, c)
    BY <1>11 DEF Answered, ImageAnswered
  <2>2. Finish(r, c) /\ (UNCHANGED cache \/ cache' = [s \in Scope |-> IF s = "key" THEN cache[s] ELSE Miss])
    BY <2>1 DEF AnsweredWith, PostRecord, limits
  <2>3. Caches(r)
    BY <2>2 DEF Caches
  <2>4. QED
    BY <2>2, <2>3, SumsElse
<1>12. CASE SetQuota(r)
  <2>1. \/ Finish(r, 0)
        \/ req' = [req EXCEPT ![r].at = "guard", ![r].sum = 0]
    BY <1>12 DEF SetQuota, QuotaDecided
  <2>2. cache' = [cache EXCEPT !["user"] = req[r].sum]
    BY <1>12 DEF SetQuota
  <2>3. Caches(r)
    BY <2>1, <2>2 DEF Caches, Scope
  <2>4. QED
    BY <2>1, <2>3, SumsElse
<1>13. CASE CheckUserQuota(r)
  <2>0. \/ Finish(r, 0) \/ Goto(r, "quota sum")
        \/ req' = [req EXCEPT ![r].at = "guard", ![r].sum = 0]
    BY <1>13 DEF CheckUserQuota, QuotaDecided
  <2>1. \/ Finish(r, 0)
        \/ \E label : Goto(r, label) /\ label \notin {"rule", "sum", "set"}
        \/ req' = [req EXCEPT ![r].at = "guard", ![r].sum = 0]
    <3>1. "quota sum" \notin {"rule", "sum", "set"}
      OBVIOUS
    <3>2. QED
      BY <2>0, <3>1, Zenon
  <2>2. UNCHANGED cache
    BY <1>13 DEF CheckUserQuota, limits
  <2>3. QED
    BY <1>2, <2>1, <2>2, SumsElse
<1>14. CASE NoSession(r) \/ CheckClassic(r) \/ GuardRefuses(r) \/ RefuseModel(r) \/ Failed(r)
  <2>1. /\ UNCHANGED cache
        /\ \/ Finish(r, 0)
           \/ \E label : Goto(r, label) /\ label \notin {"rule", "sum", "set"}
    BY <1>14 DEF NoSession, CheckClassic, GuardRefuses, RefuseModel, Failed, limits
  <2>2. QED
    BY <1>2, <2>1, SumsElse
<1>15. QED
  BY <1>5, <1>6, <1>7, <1>8, <1>9, <1>10, <1>11, <1>12, <1>13, <1>14
     DEF Handle, HandleProxyRequest, HandleGemini, HandleImagesEdits, HandleCountTokens

----------------------------------------------------------------------------
(* The types.                                                              *)

\* What PreCheck goes on with is a request.
LEMMA DecidedType ==
  ASSUME NEW q \in Req, NEW used
  PROVE  Decided(q, used) \in Req
<1>0. q.rule \in Nat
  BY DEF Req
<1>1. q.rule + 1 \in Nat
  BY <1>0
<1>2. /\ [q EXCEPT !.at = "classic", !.rule = 1, !.sum = 0, !.hit = TRUE] \in Req
      /\ [q EXCEPT !.at = "rule", !.rule = q.rule + 1, !.sum = 0] \in Req
      /\ [q EXCEPT !.at = "classic", !.rule = 1, !.sum = 0] \in Req
  BY <1>1 DEF Req
<1>3. QED
  BY <1>2 DEF Decided

\* A step of one request leaves requests.
LEMMA RequestType ==
  ASSUME IInv, SInv, TypeOK, NEW r \in Request, Arrive(r) \/ NoSession(r) \/ Handle(r)
  PROVE  req' \in [Request -> Req]
<1>1. /\ req \in [Request -> Req] /\ req[r] \in Req
      /\ cache \in [Scope -> Nat \cup {Miss}]
  BY DEF TypeOK
<1>2. ASSUME NEW x \in Req, req' = [req EXCEPT ![r] = x]
      PROVE  req' \in [Request -> Req]
  BY <1>1, <1>2
<1>3. Idle \in Req
  BY DEF Idle, Req, Kind
<1>4. ASSUME NEW c \in Nat, Finish(r, c)
      PROVE  req' \in [Request -> Req]
  <2>1. [Idle EXCEPT !.at = "done", !.extra = req[r].extra, !.credits = c] \in Req
    BY <1>1 DEF Idle, Req, Kind
  <2>2. QED
    BY <1>2, <1>4, <2>1 DEF Finish
<1>5. ASSUME NEW label \in {"quota", "guard", "quota sum"}, Goto(r, label)
      PROVE  req' \in [Request -> Req]
  <2>1. [req[r] EXCEPT !.at = label] \in Req
    BY <1>1 DEF Req
  <2>2. QED
    BY <1>2, <1>5, <2>1 DEF Goto
<1>6. ASSUME NEW label \in {"set", "quota set"}, NEW scope,
             req' = [req EXCEPT ![r].at = label, ![r].sum = SumCreditsInWindow(scope)]
      PROVE  req' \in [Request -> Req]
  <2>1. SumCreditsInWindow(scope) \in Nat
    BY SumIsSoFar DEF SInv
  <2>2. [req[r] EXCEPT !.at = label, !.sum = SumCreditsInWindow(scope)] \in Req
    BY <1>1, <2>1 DEF Req
  <2>3. QED
    BY <1>2, <1>6, <2>2
<1>7. CASE Arrive(r)
  <2>1. PICK kind \in Kinds[r] : req' = [req EXCEPT ![r] = [Idle EXCEPT !.kind = kind,
                      !.at = IF Eligible(kind) /\ Rules # <<>> THEN "rule" ELSE "classic"]]
    BY <1>7 DEF Arrive
  <2>2. kind \in Kind
    BY <2>1, KindAssumption
  <2>3. [Idle EXCEPT !.kind = kind,
           !.at = IF Eligible(kind) /\ Rules # <<>> THEN "rule" ELSE "classic"] \in Req
    BY <2>2 DEF Idle, Req
  <2>4. QED
    BY <1>2, <2>1, <2>3
<1>8. CASE CheckRule(r)
  <2>1. [req[r] EXCEPT !.at = "sum"] \in Req
    BY <1>1 DEF Req
  <2>2. QED
    BY <1>1, <1>2, <1>8, <2>1, DecidedType DEF CheckRule
<1>9. CASE SumRule(r)
  <2>1. [req[r] EXCEPT !.at = "quota", !.rule = 1] \in Req
    BY <1>1 DEF Req
  <2>2. CASE req' = [req EXCEPT ![r].at = "quota", ![r].rule = 1]
    BY <1>2, <2>1, <2>2
  <2>3. QED
    BY <1>6, <1>9, <2>2 DEF SumRule
<1>10. CASE SetRule(r)
  BY <1>1, <1>2, <1>10, DecidedType DEF SetRule
<1>11. ASSUME NEW used, QuotaDecided(r, used)
       PROVE  req' \in [Request -> Req]
  <2>1. [req[r] EXCEPT !.at = "guard", !.sum = 0] \in Req
    BY <1>1 DEF Req
  <2>2. CASE req' = [req EXCEPT ![r].at = "guard", ![r].sum = 0]
    BY <1>2, <2>1, <2>2
  <2>3. QED
    BY <1>4, <1>11, <2>2 DEF QuotaDecided
<1>12. CASE InsertPending(r)
  <2>1. PICK id \in BOOLEAN :
          req' = [req EXCEPT ![r].at = "upstream", ![r].extra = Guarded(r), ![r].id = id]
    BY <1>12 DEF InsertPending
  <2>2. Guarded(r) \in BOOLEAN
    BY DEF Guarded
  <2>3. [req[r] EXCEPT !.at = "upstream", !.extra = Guarded(r), !.id = id] \in Req
    BY <1>1, <2>2 DEF Req
  <2>4. QED
    BY <1>2, <2>1, <2>3
<1>13. CASE Answered(r) \/ ImageAnswered(r)
  <2>1. PICK c \in Nat : AnsweredWith(r, c)
    BY <1>13, RuleAssumption DEF Answered, ImageAnswered, ImageUsage
  <2>2. QED
    BY <1>4, <2>1 DEF AnsweredWith
<1>14. CASE NoSession(r) \/ CheckClassic(r) \/ GuardRefuses(r) \/ RefuseModel(r) \/ Failed(r)
  BY <1>4, <1>5, <1>14 DEF NoSession, CheckClassic, GuardRefuses, RefuseModel, Failed
<1>15. CASE CheckUserQuota(r) \/ SumQuota(r) \/ SetQuota(r)
  BY <1>5, <1>6, <1>11, <1>15 DEF CheckUserQuota, SumQuota, SetQuota
<1>16. QED
  BY <1>7, <1>8, <1>9, <1>10, <1>12, <1>13, <1>14, <1>15
     DEF Handle, HandleProxyRequest, HandleGemini, HandleImagesEdits, HandleCountTokens

\* Budget and the traces, the windows and the minutes are kept within bounds.
LEMMA BoundsStep ==
  ASSUME TypeOK, [Next]_vars
  PROVE  /\ left' \in 0..Budget /\ traced' \subseteq Request
         /\ now' \in 0..LastWindow /\ minute' \in 0..ClassicMax
<1>1. /\ left \in 0..Budget /\ Budget \in Nat /\ traced \subseteq Request
      /\ now \in 0..LastWindow /\ LastWindow \in Nat
      /\ minute \in 0..ClassicMax /\ ClassicMax \in Nat
  BY SizeAssumption, RuleAssumption DEF TypeOK
<1>2. Fail => left' \in 0..Budget
  BY <1>1 DEF Fail
<1>3. PostRecord => minute' \in 0..ClassicMax
  BY <1>1 DEF PostRecord
<1>4. ASSUME NEW r \in Request, Arrive(r) \/ NoSession(r) \/ Handle(r)
      PROVE  /\ UNCHANGED now /\ (UNCHANGED left \/ Fail)
             /\ UNCHANGED minute \/ PostRecord
             /\ traced' \in {traced, traced \cup {r}}
  <2>1. CASE Arrive(r) \/ NoSession(r)
    BY <2>1 DEF Arrive, NoSession, rest, limits, bvars, records, queues
  <2>2. CASE CheckRule(r) \/ SumRule(r) \/ SetRule(r)
    BY <2>2 DEF CheckRule, SumRule, SetRule, rest, limits, bvars, records, queues
  <2>3. CASE CheckClassic(r) \/ CheckUserQuota(r) \/ SumQuota(r) \/ SetQuota(r)
    BY <2>3 DEF CheckClassic, CheckUserQuota, SumQuota, SetQuota, rest, limits, bvars, records, queues
  <2>4. CASE GuardRefuses(r) \/ RefuseModel(r) \/ Failed(r)
    BY <2>4 DEF GuardRefuses, RefuseModel, Failed, rest, limits, bvars, records, queues
  <2>5. CASE InsertPending(r)
    BY <2>5 DEF InsertPending, limits, queues
  <2>6. CASE Answered(r) \/ ImageAnswered(r)
    BY <2>6 DEF Answered, ImageAnswered, AnsweredWith, limits, records
  <2>7. QED
    BY <1>4, <2>1, <2>2, <2>3, <2>4, <2>5, <2>6
       DEF Handle, HandleProxyRequest, HandleGemini, HandleImagesEdits, HandleCountTokens
<1>5. ASSUME NEW r \in Request, Write(r)
      PROVE  UNCHANGED <<now, traced, minute>> /\ (UNCHANGED left \/ Fail)
  BY <1>5 DEF Write, limits
<1>6. ASSUME Behind
      PROVE  UNCHANGED <<now, traced>> /\ (UNCHANGED left \/ Fail)
  <2>1. CASE Receive \/ RunReturns \/ Upload \/ LoggerStopped \/ Exit(Unfinished)
    BY <2>1 DEF Receive, RunReturns, Upload, LoggerStopped, Exit, records
  <2>2. CASE Flush
    BY <1>1, <2>2 DEF Flush, FlushCommits, FlushFails, Fail
  <2>3. QED
    BY <1>6, <2>1, <2>2 DEF Behind
<1>7. CASE UNCHANGED vars \/ (\E s \in Scope : Expire(s)) \/ MinutePasses
  BY <1>1, <1>7 DEF vars, bvars, records, Expire, MinutePasses
<1>8. CASE (Behind \/ Shutdown \/ Rollover) /\ UNCHANGED <<req, writer, limits>>
  BY <1>1, <1>2, <1>6, <1>8 DEF Shutdown, Rollover, records, limits
<1>9. QED
  BY <1>1, <1>2, <1>3, <1>4, <1>5, <1>7, <1>8 DEF Next

----------------------------------------------------------------------------
(* The theorems.                                                           *)

\* So it is at first.
LEMMA InitInvariant == Init => IInv
<1> SUFFICES ASSUME Init PROVE IInv
  OBVIOUS
<1>1. /\ row = [r \in Request |-> NoRow] /\ late = [r \in Request |-> NoRow]
      /\ now = 0 /\ events = <<>> /\ batch = <<>> /\ running = TRUE /\ logs = <<>>
      /\ phase = "serving" /\ lost = {}
      /\ req = [r \in Request |-> Idle] /\ writer = [r \in Request |-> "none"]
  BY DEF Init, BackgroundInit
<1>2. NoRow \in Row /\ NoRow.status = "none" /\ NoRow.credits = 0
  BY DEF NoRow, Row
<1>3. /\ Idle.at = "idle" /\ Idle.credits = 0 /\ Idle.id \in BOOLEAN /\ Idle.extra \in BOOLEAN
  BY DEF Idle
<1>4. <<>> \in Seq(Event) /\ <<>> \in Seq(Request) /\ DOMAIN <<>> = {}
  OBVIOUS
<1>5. Shape
  BY <1>1, <1>2, <1>3, <1>4 DEF Shape, Writer, Phase
<1>6. \A r \in Request : OneWay(r)
  BY <1>1, <1>2, <1>3, <1>4 DEF OneWay, Collected, Completed
<1>7. AsBilled(events) /\ AsBilled(batch) /\ Drained /\ AnswersAreCounted
  BY <1>1, <1>3, <1>4 DEF AsBilled, Drained, AnswersAreCounted
<1>8. QED
  BY <1>1, <1>5, <1>6, <1>7 DEF IInv

\* The invariant holds of every behaviour.
LEMMA Inductive == Spec => []IInv
<1>1. Init => IInv
  BY InitInvariant
<1>2. IInv /\ [Next]_vars => IInv'
  <2> SUFFICES ASSUME IInv, [Next]_vars PROVE IInv'
    OBVIOUS
  <2>1. ASSUME NEW r \in Request, Arrive(r) \/ NoSession(r) \/ Handle(r) PROVE IInv'
    <3>1. CASE Answered(r) \/ ImageAnswered(r)
      <4>1. \E c \in Nat : At(r, "upstream") /\ AnsweredWith(r, c)
        BY <3>1, RuleAssumption DEF Answered, ImageAnswered, ImageUsage
      <4>2. QED
        BY <4>1, AnswerStep
    <3>2. CASE ~Answered(r) /\ ~ImageAnswered(r)
      BY <2>1, <3>2, HandleStep
    <3>3. QED
      BY <3>1, <3>2
  <2>2. ASSUME NEW r \in Request, Write(r) PROVE IInv'
    BY <2>2, WriteStep
  <2>3. CASE (\E s \in Scope : Expire(s)) \/ MinutePasses \/ UNCHANGED vars
    <3>1. UNCHANGED <<row, late, events, batch, running, logs, phase, lost, now, req, writer>>
      BY <2>3 DEF Expire, MinutePasses, vars, bvars, records, queues
    <3>2. QED
      BY <3>1 DEF IInv, Shape, OneWay, Collected, Completed, AsBilled, Drained, EventsClosed,
                  AnswersAreCounted, OnTheWay, Batched, Running
  <2>4. CASE (Behind \/ Shutdown \/ Rollover) /\ UNCHANGED <<req, writer, limits>>
    BY <2>4, ReceiveStep, FlushStep, BackgroundStep DEF Behind
  <2>5. QED
    BY <2>1, <2>2, <2>3, <2>4 DEF Next
<1>3. QED
  BY <1>1, <1>2, PTL DEF Spec

\* No request is counted twice: a goroutine that completes the row of a
\* request and an event of the collector never have the same answer, not even
\* after an insert that was committed without an answer.
THEOREM CountedAtMostOnce == Spec => []CountedOnce
<1>1. IInv => CountedOnce
  <2> SUFFICES ASSUME IInv, NEW r \in Request
               PROVE  row[r].credits + late[r].credits <= req[r].credits
    BY DEF CountedOnce
  <2>1. req[r].credits \in Nat /\ OneWay(r)
    BY DEF IInv, Shape
  <2>2. ~(row[r].status = "done" /\ late[r].status = "done")
    BY <2>1 DEF OneWay, Collected, Completed
  <2>3. QED
    BY <2>1, <2>2 DEF OneWay
<1>2. QED
  BY <1>1, Inductive, PTL

\* The credits of an answer are in a row or on their way to one as long as the
\* process runs; what is in neither was dropped by a full or closed buffer, a
\* failed statement, or the exit while a handler was still writing.
THEOREM CountedOrLost == Spec => []AnswersAreCounted
<1>1. IInv => AnswersAreCounted
  BY DEF IInv
<1>2. QED
  BY <1>1, Inductive, PTL

\* The sums have told every request what was there.
LEMMA SumsInductive == Spec => []SInv
<1>1. Init => SInv
  <2> SUFFICES ASSUME Init PROVE SInv
    OBVIOUS
  <2>1. /\ row = [r \in Request |-> NoRow] /\ late = [r \in Request |-> NoRow]
        /\ now = 0 /\ events = <<>> /\ batch = <<>>
        /\ req = [r \in Request |-> Idle] /\ cache = [s \in Scope |-> Miss]
    BY DEF Init, BackgroundInit
  <2>2. /\ NoRow.credits = 0 /\ NoRow.extra = FALSE
        /\ Idle.sum = 0 /\ Idle.at = "idle" /\ Idle.hit = FALSE
    BY DEF NoRow, Idle
  <2>3. SoFar(0) /\ SoFar(Miss)
    <3>1. Shape
      BY InitInvariant DEF IInv
    <3>2. 0 \in 0..now /\ PlanCredits(0) \in Nat
      BY <2>1, <3>1, PlanType
    <3>3. QED
      BY <3>2 DEF SoFar, Miss
  <2>4. cache \in [Scope -> Nat \cup {Miss}] /\ \A s \in Scope : SoFar(cache[s])
    BY <2>1, <2>3
  <2>5. \A r \in Request : Told(r) /\ SaysWhoPaid(r)
    BY <2>1, <2>2, <2>3 DEF Told, SaysWhoPaid
  <2>6. QueuedOnce
    BY <2>1 DEF QueuedOnce, Batched
  <2>7. LimitedOnlyWhenUsedUp
    BY <2>1, <2>2 DEF LimitedOnlyWhenUsedUp
  <2>8. QED
    BY <2>4, <2>5, <2>6, <2>7 DEF SInv
<1>2. IInv /\ IInv' /\ SInv /\ [Next]_vars => SInv'
  <2> SUFFICES ASSUME IInv, IInv', SInv, [Next]_vars PROVE SInv'
    OBVIOUS
  <2>a. cache \in [Scope -> Nat \cup {Miss}]
    BY DEF SInv
  \* A step that is of no request.
  <2>b. ASSUME Kept, UNCHANGED req,
               cache' = cache \/ \E s \in Scope : cache' = [cache EXCEPT ![s] = Miss]
        PROVE  SInv'
    <3>1. /\ DOMAIN cache' = Scope /\ cache' = [s \in Scope |-> cache'[s]]
          /\ \A s \in Scope : cache'[s] \in {cache[s], Miss}
      BY <2>a, <2>b
    <3>2. \A s \in Scope : cache'[s] \in {cache[s], Miss} \cup {req[r].sum : r \in Request}
      BY <3>1
    <3>3. QED
      BY <2>b, <3>1, <3>2, SumsKept
  <2>1. ASSUME NEW r \in Request, Arrive(r) \/ NoSession(r) \/ Handle(r) PROVE SInv'
    <3>1. CASE Answered(r) \/ ImageAnswered(r)
      <4>1. \E c \in Nat : At(r, "upstream") /\ AnsweredWith(r, c)
        BY <3>1, RuleAssumption DEF Answered, ImageAnswered, ImageUsage
      <4>2. Kept
        BY <4>1, AnswerKeeps
      <4>3. QED
        BY <2>1, <4>2, SumsStep
    <3>2. CASE ~Answered(r) /\ ~ImageAnswered(r)
      <4>1. Kept
        BY <2>1, <3>2, HandleThrough, ThroughKeeps
      <4>2. QED
        BY <2>1, <4>1, SumsStep
    <3>3. QED
      BY <3>1, <3>2
  <2>2. ASSUME NEW r \in Request, Write(r) PROVE SInv'
    <3>1. Kept /\ UNCHANGED <<req, cache>>
      BY <2>2, WriteKeeps DEF Write, limits
    <3>2. QED
      BY <2>b, <3>1
  <2>3. CASE (\E s \in Scope : Expire(s)) \/ MinutePasses \/ UNCHANGED vars
    <3>1. UNCHANGED <<row, late, events, batch, now, req>>
      BY <2>3 DEF Expire, MinutePasses, vars, bvars, records, queues
    <3>2. Lasting /\ \A r \in Request : SaysWhoPaid(r)'
      BY <3>1, RowsKept
    <3>3. QueuedOnce'
      BY <3>1 DEF SInv, QueuedOnce, Batched
    <3>4. cache' = cache \/ \E s \in Scope : cache' = [cache EXCEPT ![s] = Miss]
      BY <2>3 DEF Expire, MinutePasses, vars
    <3>5. QED
      BY <2>b, <3>1, <3>2, <3>3, <3>4 DEF Kept
  <2>4. CASE (Behind \/ Shutdown \/ Rollover) /\ UNCHANGED <<req, writer, limits>>
    <3>1. Kept /\ UNCHANGED <<req, cache>>
      BY <2>4, BehindKeeps DEF limits
    <3>2. QED
      BY <2>b, <3>1
  <2>5. QED
    BY <2>1, <2>2, <2>3, <2>4 DEF Next
<1>3. QED
  BY <1>1, <1>2, Inductive, PTL DEF Spec

\* A request is sent to the wallet as rate limited only if the plan was used up,
\* in this window or, when the sum was cached, in one before: a sum never tells
\* more than there was, a cached one stays true of its window, and the credits
\* of a window are never taken back.
THEOREM LimitedWhenUsedUp == Spec => []LimitedOnlyWhenUsedUp
<1>1. SInv => LimitedOnlyWhenUsedUp
  BY DEF SInv
<1>2. QED
  BY <1>1, SumsInductive, PTL

\* Type correctness of every reachable state: what is in the rows, the queues
\* and the caches, and how far each request is, for any number of them.
THEOREM TypeCorrect == Spec => []TypeOK
<1>1. Init => TypeOK
  <2> SUFFICES ASSUME Init PROVE TypeOK
    OBVIOUS
  <2>1. Shape
    BY InitInvariant DEF IInv
  <2>2. Idle \in Req
    BY DEF Idle, Req, Kind
  <2>3. QED
    BY <2>1, <2>2, SizeAssumption, RuleAssumption DEF Init, BackgroundInit, TypeOK, Shape, Miss
<1>2. IInv /\ IInv' /\ SInv /\ SInv' /\ TypeOK /\ [Next]_vars => TypeOK'
  <2> SUFFICES ASSUME IInv, IInv', SInv, SInv', TypeOK, [Next]_vars PROVE TypeOK'
    OBVIOUS
  <2>1. Shape' /\ cache' \in [Scope -> Nat \cup {Miss}]
    BY DEF IInv, SInv
  <2>2. ASSUME UNCHANGED req PROVE req' \in [Request -> Req]
    BY <2>2 DEF TypeOK
  <2>3. ASSUME NEW r \in Request, Arrive(r) \/ NoSession(r) \/ Handle(r)
        PROVE  req' \in [Request -> Req]
    BY <2>3, RequestType
  <2>4. UNCHANGED req \/ \E r \in Request : Arrive(r) \/ NoSession(r) \/ Handle(r)
    BY DEF Next, Write, Expire, MinutePasses, vars
  <2>5. req' \in [Request -> Req]
    BY <2>2, <2>3, <2>4
  <2>6. QED
    BY <2>1, <2>5, BoundsStep DEF TypeOK, Shape
<1>3. QED
  BY <1>1, <1>2, Inductive, SumsInductive, PTL DEF Spec
==============================================================================

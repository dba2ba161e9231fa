---------------------------- MODULE SignIn_proofs ----------------------------
(***************************************************************************)
(* Theorems about SignIn, for any number of people, tabs and polls.        *)
(***************************************************************************)
EXTENDS SignIn, TLAPS

Pages == {"idle", "login", "find", "first", "create", "again", "project",
          "consent", "callback", "refused", "exchange", "deny", "approve", "insert"}

\* Tab t moves, and no other tab does.
Moves(t) ==
  /\ tab' \in [Tab -> TabState]
  /\ \A u \in Tab \ {t} : tab'[u] = tab[u]

\* The assignments other than Goto and Close.
GoOn(t, label, p)  == tab' = [tab EXCEPT ![t].at = label, ![t].who = p]
Start(t, label, p) == tab' = [tab EXCEPT ![t] = [Closed EXCEPT !.at = label, !.who = p]]
Create(t, first)   == tab' = [tab EXCEPT ![t].at = "create", ![t].first = first]

\* What the assignments the handlers make to a tab do to it.
LEMMA TabStep ==
  ASSUME TypeOK, NEW t \in Tab
  PROVE  /\ \A label \in Pages : Goto(t, label) =>
              Moves(t) /\ tab'[t].at = label /\ tab'[t].who = tab[t].who
         /\ Close(t) => Moves(t) /\ tab'[t].at = "idle"
         /\ \A label \in Pages, p \in Person :
              GoOn(t, label, p) =>
                Moves(t) /\ tab'[t].at = label /\ tab'[t].who = p
         /\ \A first \in BOOLEAN :
              Create(t, first) =>
                Moves(t) /\ tab'[t].at = "create" /\ tab'[t].who = tab[t].who
         /\ \A label \in Pages, p \in Person :
              Start(t, label, p) =>
                Moves(t) /\ tab'[t].at = label /\ tab'[t].who = p
         /\ Open(t, "login", TRUE) => Moves(t) /\ tab'[t].at = "login"
         /\ SignedIn(t) =>
              /\ session' = session \cup {tab[t].who}
              /\ Moves(t) /\ tab'[t].at \in {"consent", "idle"}
              /\ tab'[t].at = "consent" => tab'[t].who = tab[t].who
<1> DEFINE x == tab[t]
<1>a. x \in TabState /\ tab \in [Tab -> TabState]
  BY DEF TypeOK
<1>b. ASSUME NEW r \in TabState, tab' = [tab EXCEPT ![t] = r] PROVE Moves(t) /\ tab'[t] = r
  BY <1>a, <1>b DEF Moves
<1>c. ASSUME NEW y \in TabState
      PROVE  /\ \A label \in Pages : LET r == [y EXCEPT !.at = label]
                                     IN  r \in TabState /\ r.at = label /\ r.who = y.who
             /\ \A p \in Person : LET r == [y EXCEPT !.who = p]
                                  IN  r \in TabState /\ r.at = y.at /\ r.who = p
             /\ \A b \in BOOLEAN : LET r == [y EXCEPT !.first = b]
                                   IN  r \in TabState /\ r.at = y.at /\ r.who = y.who
             /\ \A b \in BOOLEAN : LET r == [y EXCEPT !.flow = b]
                                   IN  r \in TabState /\ r.at = y.at /\ r.who = y.who
  BY <1>c DEF TabState, Pages
<1>d. Closed \in TabState /\ Closed.at = "idle"
  BY DEF Closed, TabState
<1>1. ASSUME NEW label \in Pages, Goto(t, label)
      PROVE  Moves(t) /\ tab'[t].at = label /\ tab'[t].who = x.who
  <2> DEFINE r == [x EXCEPT !.at = label]
  <2>1. r \in TabState /\ r.at = label /\ r.who = x.who
    BY <1>a, <1>c
  <2>2. tab' = [tab EXCEPT ![t] = r]
    BY <1>1 DEF Goto
  <2> HIDE DEF r
  <2>3. QED
    BY <1>b, <2>1, <2>2
<1>2. ASSUME Close(t) PROVE Moves(t) /\ tab'[t].at = "idle"
  BY <1>b, <1>d, <1>2 DEF Close
<1>3. ASSUME NEW label \in Pages, NEW p \in Person, GoOn(t, label, p)
      PROVE  Moves(t) /\ tab'[t].at = label /\ tab'[t].who = p
  <2> DEFINE q == [x EXCEPT !.at = label]
             r == [q EXCEPT !.who = p]
  <2>1. q \in TabState /\ q.at = label
    BY <1>a, <1>c
  <2>2. tab' = [tab EXCEPT ![t] = r]
    BY <1>3, <1>a DEF GoOn
  <2> HIDE DEF q
  <2>3. r \in TabState /\ r.at = label /\ r.who = p
    BY <1>c, <2>1
  <2> HIDE DEF r
  <2>4. QED
    BY <1>b, <2>2, <2>3
<1>4. ASSUME NEW first \in BOOLEAN, Create(t, first)
      PROVE  Moves(t) /\ tab'[t].at = "create" /\ tab'[t].who = x.who
  <2> DEFINE q == [x EXCEPT !.at = "create"]
             r == [q EXCEPT !.first = first]
  <2>1. q \in TabState /\ q.at = "create" /\ q.who = x.who
    BY <1>a, <1>c DEF Pages
  <2>2. tab' = [tab EXCEPT ![t] = r]
    BY <1>4, <1>a DEF Create
  <2> HIDE DEF q
  <2>3. r \in TabState /\ r.at = "create" /\ r.who = x.who
    BY <1>c, <2>1
  <2> HIDE DEF r
  <2>4. QED
    BY <1>b, <2>2, <2>3
<1>5. ASSUME NEW label \in Pages, NEW p \in Person, Start(t, label, p)
      PROVE  Moves(t) /\ tab'[t].at = label /\ tab'[t].who = p
  <2> DEFINE r == [Closed EXCEPT !.at = label, !.who = p]
  <2>1. r \in TabState /\ r.at = label /\ r.who = p
    BY DEF Closed, TabState, Pages
  <2>2. tab' = [tab EXCEPT ![t] = r]
    BY <1>5 DEF Start
  <2> HIDE DEF r
  <2>3. QED
    BY <1>b, <2>1, <2>2
<1>6. ASSUME Open(t, "login", TRUE) PROVE Moves(t) /\ tab'[t].at = "login"
  <2> DEFINE r == [Closed EXCEPT !.at = "login", !.flow = TRUE]
  <2>1. r \in TabState /\ r.at = "login"
    BY DEF Closed, TabState, Pages
  <2>2. tab' = [tab EXCEPT ![t] = r]
    BY <1>6 DEF Open
  <2> HIDE DEF r
  <2>3. QED
    BY <1>b, <2>1, <2>2
<1>7. ASSUME SignedIn(t)
      PROVE  /\ session' = session \cup {x.who}
             /\ Moves(t) /\ tab'[t].at \in {"consent", "idle"}
             /\ tab'[t].at = "consent" => tab'[t].who = x.who
  <2>1. CASE x.flow
    BY <1>1, <1>7, <2>1 DEF SignedIn, Pages
  <2>2. CASE ~x.flow
    BY <1>2, <1>7, <2>2 DEF SignedIn
  <2>3. QED
    BY <2>1, <2>2
<1>8. QED
  BY <1>1, <1>2, <1>3, <1>4, <1>5, <1>6, <1>7

\* Of these the step of CheckFirst, as a fact of its own.
LEMMA CreateStep ==
  ASSUME TypeOK, NEW t \in Tab, NEW b \in BOOLEAN, Create(t, b)
  PROVE  Moves(t) /\ tab'[t].at = "create" /\ tab'[t].who = tab[t].who
BY TabStep

----------------------------------------------------------------------------
(* The inductive invariant: whoever has come back from a provider is a     *)
(* person; an account is founded by one tab, which alone makes its default *)
(* project; once the device was told that it is over, or was handed the    *)
(* tokens, the row of its code is gone and never comes back; and once it   *)
(* was told anything final, or a poll is about to, nobody can take up the  *)
(* code any more.                                                          *)

Whose == \A t \in Tab : tab[t].at \notin {"idle", "login"} => tab[t].who \in Person

Founding ==
  /\ \A p \in Person : /\ projects[p].default <= 1
                       /\ projects[p].default = 1 => account[p].there
  /\ \A t \in Tab : tab[t].at = "project" =>
       account[tab[t].who].there /\ projects[tab[t].who].default = 0
  /\ \A t, u \in Tab :
       tab[t].at = "project" /\ tab[u].at = "project" /\ tab[t].who = tab[u].who => t = u

DeviceOver ==
  /\ handed <= 1
  /\ handed > 0 \/ answers \cap Refusals # {} => code.status = "gone"

\* A poll that has read the end of a pending code.
Final(q) == poll[q] \in {"expired", "denied", "approved"}

Closing ==
  answers # {} \/ (\E q \in Poll : Final(q)) =>
    code.status # "none" /\ ~Verifiable

IInv == TypeOK /\ Whose /\ Founding /\ DeviceOver /\ Closing

\* No page, no crash of a statement and no poll breaks it.
LEMMA InvStep == IInv /\ [Next]_vars => IInv'
<1> SUFFICES ASSUME IInv, [Next]_vars PROVE IInv'
  OBVIOUS
<1>a. /\ TypeOK /\ Whose /\ Founding /\ DeviceOver /\ Closing
      /\ account \in [Person -> Account] /\ projects \in [Person -> Projects]
      /\ session \subseteq Person /\ code \in Code /\ tab \in [Tab -> TabState]
      /\ poll \in [Poll -> PollState] /\ handed \in Nat /\ left \in 0..Budget
      /\ answers \subseteq FinalAnswer
  BY DEF IInv, TypeOK
<1>0. CASE UNCHANGED vars
  BY <1>0, <1>a DEF vars, IInv, TypeOK, Whose, Founding, DeviceOver, Closing, Final, Verifiable
<1>p. {"find", "first", "create", "again", "project", "consent", "callback", "refused",
       "exchange", "deny", "approve", "insert"} \subseteq Pages
  BY DEF Pages
<1>l. /\ Fail => left' \in 0..Budget
      /\ \A c : FailUnless(c) => left' \in 0..Budget
  BY <1>a, BudgetAssumption DEF Fail, FailUnless

\* The device.  Its row changes as it will, but is not offered again.
<1>b. ASSUME UNCHANGED <<accounts, tab>>, code' \in Code, left' \in 0..Budget,
             poll' \in [Poll -> PollState], answers' \subseteq FinalAnswer,
             handed' \in Nat, DeviceOver', Closing'
      PROVE  IInv'
  BY <1>a, <1>b DEF accounts, IInv, TypeOK, Whose, Founding
<1>g. Gone \in Code /\ Gone.status = "gone" /\ Gone.status # "none" /\ Gone.status # "pending"
  BY DEF Gone, NoCode, Code
<1>v. ASSUME NEW q \in Poll, NEW what \in FinalAnswer, Answer(q, what)
      PROVE  /\ poll' \in [Poll -> PollState] /\ answers' \subseteq FinalAnswer
             /\ poll'[q] = "idle" /\ \A x \in Poll \ {q} : poll'[x] = poll[x]
             /\ handed' \in Nat /\ (what # "tokens" => handed' = handed)
  BY <1>a, <1>v DEF Answer, PollState
<1>1. CASE RequestCode
  <2>1. code' \in Code /\ code.status = "none"
    BY <1>1 DEF RequestCode, NoCode, Code
  <2>2. DeviceOver'
    BY <1>1, <1>a DEF RequestCode, DeviceOver
  <2>3. Closing'
    BY <1>1, <1>a DEF RequestCode, Closing, Final
  <2>4. QED
    BY <1>1, <1>a, <1>b, <2>1, <2>2, <2>3 DEF RequestCode
<1>2. CASE Expire
  <2>1. code' \in Code /\ code'.status = code.status /\ code'.expired
    BY <1>2, <1>a DEF Expire, Code
  <2>2. DeviceOver'
    BY <1>2, <1>a, <2>1 DEF Expire, DeviceOver
  <2>3. Closing'
    BY <1>2, <1>a, <2>1 DEF Expire, Closing, Final, Verifiable
  <2>4. QED
    BY <1>2, <1>a, <1>b, <2>1, <2>2, <2>3 DEF Expire
<1>3. CASE Cleanup
  <2>1. DeviceOver'
    BY <1>3, <1>a, <1>g DEF Cleanup, DeviceOver
  <2>2. Closing'
    BY <1>3, <1>a, <1>g DEF Cleanup, Closing, Verifiable
  <2>3. QED
    BY <1>3, <1>a, <1>b, <1>g, <2>1, <2>2 DEF Cleanup
\* What a poll has read is the end of the code, or a code that is pending.
<1>4. ASSUME NEW q \in Poll, PollRead(q) PROVE IInv'
  <2>1. CASE code.status = "gone"
    <3>1. DeviceOver'
      BY <1>4, <1>a, <2>1 DEF PollRead, DeviceOver
    <3>2. Closing'
      BY <1>4, <2>1 DEF PollRead, Closing, Verifiable
    <3>3. QED
      BY <1>4, <1>a, <1>b, <2>1, <3>1, <3>2 DEF PollRead, FinalAnswer
  <2>2. CASE code.status # "gone"
    <3>1. Seen \in PollState /\ (Seen \in {"expired", "denied", "approved"} => ~Verifiable)
      BY <1>4, <1>a, <2>2 DEF PollRead, Seen, PollState, Code, Verifiable
    <3>2. /\ poll' = [poll EXCEPT ![q] = Seen] /\ code.status # "none"
          /\ UNCHANGED <<accounts, tab, code, answers, handed, left>>
      BY <1>4, <2>2 DEF PollRead
    <3>3. DeviceOver'
      BY <1>a, <3>2 DEF DeviceOver
    <3>4. Closing'
      <4> SUFFICES ASSUME answers' # {} \/ \E x \in Poll : Final(x)'
                   PROVE  ~Verifiable
        BY <3>2 DEF Closing, Verifiable
      <4>1. CASE answers # {} \/ \E x \in Poll : Final(x)
        BY <1>a, <4>1 DEF Closing
      <4>2. CASE answers = {} /\ ~\E x \in Poll : Final(x)
        BY <1>a, <3>1, <3>2, <4>2 DEF Final
      <4>3. QED
        BY <4>1, <4>2
    <3>5. QED
      BY <1>a, <1>b, <3>1, <3>2, <3>3, <3>4
  <2>3. QED
    BY <2>1, <2>2
\* The row is gone, or as it was.
<1>5. ASSUME NEW q \in Poll, PollExpired(q) \/ PollDenied(q) PROVE IInv'
  <2>1. /\ Final(q) /\ UNCHANGED <<accounts, tab>>
        /\ \E what \in {"expired_token", "access_denied"} : DeleteAndTell(q, what)
    <3>1. CASE PollExpired(q)
      BY <3>1 DEF PollExpired, Final
    <3>2. CASE PollDenied(q)
      BY <3>2 DEF PollDenied, Final
    <3>3. QED
      BY <1>5, <3>1, <3>2
  <2>2. PICK what \in {"expired_token", "access_denied"} : DeleteAndTell(q, what)
    BY <2>1
  <2>3. code.status # "none" /\ ~Verifiable
    BY <1>a, <2>1 DEF Closing
  <2>4. CASE code' = Gone /\ Answer(q, what) /\ UNCHANGED left
    <3>1. /\ poll' \in [Poll -> PollState] /\ answers' \subseteq FinalAnswer
          /\ handed' = handed
      BY <1>v, <2>4 DEF FinalAnswer
    <3>2. DeviceOver' /\ Closing'
      BY <1>a, <1>g, <2>4, <3>1 DEF DeviceOver, Closing, Verifiable
    <3>3. QED
      BY <1>a, <1>b, <1>g, <2>1, <2>4, <3>1, <3>2
  <2>5. CASE Fail /\ Answer(q, "undeleted") /\ UNCHANGED code
    <3>1. /\ poll' \in [Poll -> PollState] /\ answers' \subseteq FinalAnswer
          /\ handed' = handed
      BY <1>v, <2>5 DEF FinalAnswer
    <3>2. DeviceOver'
      BY <1>a, <2>5, <3>1 DEF Answer, DeviceOver, Refusals
    <3>3. Closing'
      BY <2>3, <2>5 DEF Closing, Verifiable
    <3>4. QED
      BY <1>a, <1>b, <1>l, <2>1, <2>5, <3>1, <3>2, <3>3
  <2>6. QED
    BY <2>2, <2>4, <2>5 DEF DeleteAndTell
<1>7. ASSUME NEW q \in Poll, PollPending(q) PROVE IInv'
  <2>1. DeviceOver'
    BY <1>7, <1>a DEF PollPending, DeviceOver
  <2>2. Closing'
    BY <1>7, <1>a DEF PollPending, Closing, Final, Verifiable
  <2>3. QED
    BY <1>7, <1>a, <1>b, <2>1, <2>2 DEF PollPending, PollState
<1>8. ASSUME NEW q \in Poll, PollApproved(q) PROVE IInv'
  <2>0. /\ Final(q) /\ UNCHANGED <<accounts, tab>>
        /\ code.status # "none" /\ ~Verifiable
    BY <1>8, <1>a DEF PollApproved, Final, Closing
  <2>1. CASE Consumed /\ Answer(q, "tokens") /\ UNCHANGED left
    <3>1. code' = Gone /\ handed = 0
      BY <1>a, <2>1 DEF Consumed, DeviceOver
    <3>2. /\ poll' \in [Poll -> PollState] /\ answers' \subseteq FinalAnswer
          /\ handed' = 1
      <4>1. handed' = 1
        BY <2>1, <3>1 DEF Answer
      <4>2. "tokens" \in FinalAnswer
        BY DEF FinalAnswer
      <4>3. QED
        BY <1>v, <2>1, <4>1, <4>2
    <3>3. DeviceOver' /\ Closing'
      BY <1>g, <3>1, <3>2 DEF DeviceOver, Closing, Verifiable
    <3>4. QED
      BY <1>a, <1>b, <1>g, <2>0, <2>1, <3>1, <3>2, <3>3
  <2>2. CASE /\ Consumed \/ UNCHANGED code
             /\ Fail /\ poll' = [poll EXCEPT ![q] = "idle"]
             /\ UNCHANGED <<answers, handed>>
    <3>1. poll' \in [Poll -> PollState]
      BY <1>a, <2>2 DEF PollState
    <3>2. code' \in Code /\ (code' = Gone \/ code' = code)
      BY <1>a, <1>g, <2>2 DEF Consumed
    <3>3. DeviceOver'
      BY <1>a, <1>g, <2>2, <3>2 DEF DeviceOver
    <3>4. Closing'
      BY <1>g, <2>0, <3>2 DEF Closing, Verifiable
    <3>5. QED
      BY <1>a, <1>b, <1>l, <2>0, <2>2, <3>1, <3>2, <3>3, <3>4
  <2>3. CASE Answer(q, "lost") /\ UNCHANGED <<code, left>>
    <3>1. /\ poll' \in [Poll -> PollState] /\ answers' \subseteq FinalAnswer
          /\ handed' = handed
      BY <1>a, <1>v, <2>3 DEF FinalAnswer
    <3>2. DeviceOver'
      BY <1>a, <2>3, <3>1 DEF Answer, DeviceOver, Refusals
    <3>3. Closing'
      BY <2>0, <2>3 DEF Closing, Verifiable
    <3>4. QED
      BY <1>a, <1>b, <2>0, <2>3, <3>1, <3>2, <3>3
  <2>4. QED
    BY <1>8, <2>1, <2>2, <2>3 DEF PollApproved

\* A tab that moves to r, with the accounts as they were.
<1>c. ASSUME NEW t \in Tab, Moves(t), tab'[t].at # "project",
             tab'[t].at \notin {"idle", "login"} => tab'[t].who \in Person,
             account' = account, projects' \in [Person -> Projects],
             \A p \in Person : projects'[p].default = projects[p].default,
             session' \subseteq Person, left' \in 0..Budget,
             UNCHANGED devices
      PROVE  IInv'
  <2>1. TypeOK'
    BY <1>a, <1>c DEF devices, TypeOK, Moves
  <2>2. Whose'
    BY <1>a, <1>c DEF Moves, Whose
  <2>3. Founding'
    BY <1>a, <1>c DEF Moves, Founding, Whose
  <2>4. DeviceOver' /\ Closing'
    BY <1>a, <1>c DEF devices, DeviceOver, Closing, Final, Verifiable
  <2>5. QED
    BY <2>1, <2>2, <2>3, <2>4 DEF IInv
<1>w. ASSUME NEW t \in Tab, tab[t].at \notin {"idle", "login"} PROVE tab[t].who \in Person
  BY <1>a, <1>w DEF Whose
<1>9. ASSUME NEW t \in Tab, VerifyUserCode(t) PROVE IInv'
  <2>1. Moves(t) /\ tab'[t].at = "login"
    BY <1>9, <1>a, <1>p, TabStep DEF VerifyUserCode
  <2>2. QED
    BY <1>9, <1>a, <1>c, <2>1 DEF VerifyUserCode, accounts
<1>10. ASSUME NEW t \in Tab, NEW p \in Person, OpenDashboard(t, p) PROVE IInv'
  <2>1. Moves(t) /\ tab'[t].at = "find" /\ tab'[t].who = p
    <3>1. Start(t, "find", p)
      BY <1>10 DEF OpenDashboard, Start
    <3>2. QED
      BY <3>1, <1>a, <1>p, TabStep
  <2>2. left' \in 0..Budget
    BY <1>10, <1>l DEF OpenDashboard, Fail
  <2>3. QED
    BY <1>10, <1>a, <1>c, <2>1, <2>2 DEF OpenDashboard, accounts
<1>11. ASSUME NEW t \in Tab, NEW p \in Person, LoginKnown(t, p) PROVE IInv'
  <2>1. Moves(t) /\ tab'[t].at = "consent" /\ tab'[t].who = p
    <3>1. GoOn(t, "consent", p)
      BY <1>11 DEF LoginKnown, GoOn
    <3>2. QED
      BY <3>1, <1>a, <1>p, TabStep
  <2>2. QED
    BY <1>11, <1>a, <1>c, <2>1 DEF LoginKnown, accounts
<1>12. ASSUME NEW t \in Tab, NEW p \in Person, LoginPage(t, p) PROVE IInv'
  <2>1. Moves(t) /\ tab'[t].at = "find" /\ tab'[t].who = p
    <3>1. GoOn(t, "find", p)
      BY <1>12 DEF LoginPage, GoOn
    <3>2. QED
      BY <3>1, <1>a, <1>p, TabStep
  <2>2. QED
    BY <1>12, <1>a, <1>c, <2>1 DEF LoginPage, accounts
<1>13. ASSUME NEW t \in Tab, FindUser(t) PROVE IInv'
  <2>1. tab[t].who \in Person
    BY <1>13, <1>w DEF FindUser
  <2>2. CASE SignedIn(t) /\ UNCHANGED left
    <3>1. /\ Moves(t) /\ tab'[t].at \in {"consent", "idle"}
          /\ tab'[t].at = "consent" => tab'[t].who = tab[t].who
      BY <1>a, <2>2, <1>p, TabStep
    <3>2. session' \subseteq Person
      <4>1. session' = session \cup {tab[t].who}
        BY <1>a, <2>2, TabStep
      <4>2. QED
        BY <1>a, <2>1, <4>1
    <3>3. QED
      BY <1>13, <1>a, <1>c, <2>1, <2>2, <3>1, <3>2 DEF FindUser
  <2>3. CASE /\ FailUnless(~account[tab[t].who].there)
             /\ Goto(t, "first") /\ UNCHANGED session
    <3>1. Moves(t) /\ tab'[t].at = "first" /\ tab'[t].who = tab[t].who
      BY <1>a, <2>3, <1>p, TabStep
    <3>2. left' \in 0..Budget
      BY <1>l, <2>3
    <3>3. QED
      BY <1>13, <1>a, <1>c, <2>1, <2>3, <3>1, <3>2 DEF FindUser
  <2>4. QED
    BY <1>13, <2>2, <2>3 DEF FindUser
<1>14. ASSUME NEW t \in Tab, CheckFirst(t) PROVE IInv'
  <2>1. tab[t].who \in Person
    BY <1>14, <1>w DEF CheckFirst
  <2>2. Moves(t) /\ tab'[t].at = "create" /\ tab'[t].who = tab[t].who
    <3>1. Goto(t, "create") \/ \E b \in BOOLEAN : Create(t, b)
      BY <1>14 DEF CheckFirst, Create
    <3>2. CASE Goto(t, "create")
      BY <3>2, <1>a, <1>p, TabStep
    <3>3. ASSUME NEW b \in BOOLEAN, Create(t, b)
          PROVE  Moves(t) /\ tab'[t].at = "create" /\ tab'[t].who = tab[t].who
      BY <3>3, <1>a, CreateStep
    <3>4. QED
      BY <3>1, <3>2, <3>3
  <2>3. left' \in 0..Budget
    BY <1>14, <1>a, <1>l DEF CheckFirst
  <2>4. QED
    BY <1>14, <1>a, <1>c, <2>1, <2>2, <2>3 DEF CheckFirst, accounts
\* The account is founded: nobody had it, so nobody else is at its project.
<1>15. ASSUME NEW t \in Tab, CreateUser(t) PROVE IInv'
  <2> DEFINE p == tab[t].who
  <2>1. p \in Person
    BY <1>15, <1>w DEF CreateUser
  <2>2. CASE /\ FailUnless(account[p].there) /\ Goto(t, "again")
             /\ UNCHANGED account
    <3>1. Moves(t) /\ tab'[t].at = "again" /\ tab'[t].who = p
      BY <1>a, <2>2, <1>p, TabStep
    <3>2. left' \in 0..Budget
      BY <1>l, <2>2
    <3>3. QED
      BY <1>15, <1>a, <1>c, <2>1, <2>2, <3>1, <3>2 DEF CreateUser
  <2>3. CASE /\ ~account[p].there
             /\ account' = [account EXCEPT ![p] =
                              [NoAccount EXCEPT !.there = TRUE, !.superadmin = tab[t].first]]
             /\ Goto(t, "project") /\ UNCHANGED left
    <3> DEFINE row == [NoAccount EXCEPT !.there = TRUE, !.superadmin = tab[t].first]
    <3>1. Moves(t) /\ tab'[t].at = "project" /\ tab'[t].who = p
      BY <1>a, <2>3, <1>p, TabStep
    <3>2. row \in Account /\ row.there
      BY <1>a DEF NoAccount, Account, TabState
    <3>3. account' = [account EXCEPT ![p] = row] /\ UNCHANGED <<projects, session, devices, left>>
      BY <1>15, <2>3 DEF CreateUser
    <3> HIDE DEF row, p
    <3>4. /\ account' \in [Person -> Account] /\ account'[p].there
          /\ \A x \in Person \ {p} : account'[x] = account[x]
      BY <1>a, <2>1, <3>2, <3>3
    <3>5. projects[p].default = 0
      <4>1. projects[p].default \in Nat
        BY <1>a, <2>1 DEF Projects
      <4>2. projects[p].default <= 1 /\ projects[p].default # 1
        BY <1>a, <2>1, <2>3 DEF Founding
      <4>3. QED
        BY <4>1, <4>2
    <3>6. \A u \in Tab : tab[u].at = "project" => tab[u].who # p
      BY <1>a, <2>3 DEF Founding
    <3>7. TypeOK' /\ DeviceOver' /\ Closing'
      BY <1>a, <3>1, <3>3, <3>4 DEF TypeOK, Moves, devices, DeviceOver, Closing, Final, Verifiable
    <3>8. Whose'
      BY <1>a, <2>1, <3>1 DEF Moves, Whose
    <3>9. Founding'
      BY <1>a, <2>1, <3>1, <3>3, <3>4, <3>5, <3>6 DEF Moves, Founding, Whose
    <3>10. QED
      BY <3>7, <3>8, <3>9 DEF IInv
  <2>4. QED
    BY <1>15, <2>2, <2>3 DEF CreateUser
<1>16. ASSUME NEW t \in Tab, FindAgain(t) PROVE IInv'
  <2>1. tab[t].who \in Person
    BY <1>16, <1>w DEF FindAgain
  <2>2. CASE SignedIn(t) /\ UNCHANGED left
    <3>1. /\ Moves(t) /\ tab'[t].at \in {"consent", "idle"}
          /\ tab'[t].at = "consent" => tab'[t].who = tab[t].who
      BY <1>a, <2>2, <1>p, TabStep
    <3>2. session' \subseteq Person
      <4>1. session' = session \cup {tab[t].who}
        BY <1>a, <2>2, TabStep
      <4>2. QED
        BY <1>a, <2>1, <4>1
    <3>3. QED
      BY <1>16, <1>a, <1>c, <2>1, <2>2, <3>1, <3>2 DEF FindAgain
  <2>3. CASE /\ FailUnless(~account[tab[t].who].there)
             /\ Close(t) /\ UNCHANGED session
    BY <1>16, <1>a, <1>c, <1>l, <2>3, <1>p, TabStep DEF FindAgain
  <2>4. QED
    BY <1>16, <2>2, <2>3 DEF FindAgain
\* The one tab at the project makes it, or fails to, and leaves.
<1>17. ASSUME NEW t \in Tab, CreateDefaultProject(t) PROVE IInv'
  <2> DEFINE p == tab[t].who
  <2>1. p \in Person /\ projects[p].default = 0 /\ account[p].there /\ projects[p] \in Projects
    BY <1>17, <1>a, <1>w DEF CreateDefaultProject, Founding
  <2>2. /\ Moves(t) /\ tab'[t].at \in {"consent", "idle"}
        /\ tab'[t].at = "consent" => tab'[t].who = p
    BY <1>17, <1>a, <1>p, TabStep DEF CreateDefaultProject
  <2>3. session' \subseteq Person
    BY <1>17, <1>a, <2>1, <1>p, TabStep, ZenonT(30) DEF CreateDefaultProject
  <2>4. CASE UNCHANGED projects
    BY <1>17, <1>a, <1>c, <1>l, <2>1, <2>2, <2>3, <2>4 DEF CreateDefaultProject
  <2>5. CASE projects' = [projects EXCEPT ![p].default = @ + 1] /\ UNCHANGED left
    <3>1. /\ projects' \in [Person -> Projects]
          /\ projects'[p].default = 1
          /\ \A x \in Person \ {p} : projects'[x] = projects[x]
      BY <1>a, <2>1, <2>5 DEF Projects
    <3>2. \A u \in Tab \ {t} : tab[u].at = "project" => tab[u].who # p
      BY <1>17, <1>a DEF CreateDefaultProject, Founding
    <3> HIDE DEF p
    <3>3. UNCHANGED <<account, devices>>
      BY <1>17 DEF CreateDefaultProject
    <3>4. TypeOK' /\ DeviceOver' /\ Closing'
      BY <1>a, <2>2, <2>3, <2>5, <3>1, <3>3
         DEF TypeOK, Moves, devices, DeviceOver, Closing, Final, Verifiable
    <3>5. Whose'
      BY <1>a, <2>1, <2>2 DEF Moves, Whose
    <3>6. Founding'
      BY <1>a, <2>1, <2>2, <3>1, <3>2, <3>3 DEF Moves, Founding, Whose
    <3>7. QED
      BY <3>4, <3>5, <3>6 DEF IInv
  <2>6. QED
    BY <1>17, <2>4, <2>5 DEF CreateDefaultProject
<1>18. ASSUME NEW t \in Tab, Consent(t) PROVE IInv'
  <2>1. tab[t].who \in Person
    BY <1>18, <1>w DEF Consent
  <2>2. Moves(t) /\ tab'[t].at \in {"callback", "refused"} /\ tab'[t].who = tab[t].who
    BY <1>18, <1>a, <1>p, TabStep DEF Consent
  <2>3. QED
    BY <1>18, <1>a, <1>c, <2>1, <2>2 DEF Consent, accounts
<1>19. ASSUME NEW t \in Tab, Callback(t) PROVE IInv'
  <2>1. tab[t].who \in Person
    BY <1>19, <1>w DEF Callback
  <2>2. /\ Moves(t) /\ tab'[t].at \in {"idle", "deny", "exchange"}
        /\ tab'[t].at # "idle" => tab'[t].who = tab[t].who
    BY <1>19, <1>a, <1>p, TabStep DEF Callback
  <2>3. left' \in 0..Budget
    BY <1>19, <1>a, <1>l DEF Callback
  <2>4. QED
    BY <1>19, <1>a, <1>c, <2>1, <2>2, <2>3 DEF Callback, accounts
<1>20. ASSUME NEW t \in Tab, Exchange(t) PROVE IInv'
  <2>1. tab[t].who \in Person
    BY <1>20, <1>w DEF Exchange
  <2>2. /\ Moves(t) /\ tab'[t].at \in {"idle", "approve"}
        /\ tab'[t].at # "idle" => tab'[t].who = tab[t].who
    BY <1>20, <1>a, <1>p, TabStep DEF Exchange
  <2>3. left' \in 0..Budget
    BY <1>20, <1>a, <1>l DEF Exchange
  <2>4. QED
    BY <1>20, <1>a, <1>c, <2>1, <2>2, <2>3 DEF Exchange, accounts
\* A late answer rewrites the status, but not of a row that is gone, and never
\* back to pending.
<1>21. ASSUME NEW t \in Tab, Approve(t) \/ Deny(t) PROVE IInv'
  <2>1. Moves(t) /\ tab'[t].at = "idle"
    BY <1>21, <1>a, <1>p, TabStep DEF Approve, Deny
  <2>2. PICK v \in {"approved", "denied"} : Rewrite(v)
    BY <1>21 DEF Approve, Deny
  <2>3. /\ code' \in Code /\ left' \in 0..Budget
        /\ code.status = "gone" => code' = code
        /\ code' = code \/ code'.status \in {"approved", "denied", "gone"}
    BY <1>a, <1>l, <2>2 DEF Rewrite, Code
  <2>4. UNCHANGED <<accounts, poll, answers, handed>>
    BY <1>21 DEF Approve, Deny
  <2>5. TypeOK' /\ DeviceOver'
    BY <1>a, <2>1, <2>3, <2>4 DEF TypeOK, Moves, accounts, DeviceOver
  <2>6. Closing'
    BY <1>a, <2>3, <2>4 DEF Closing, Final, Verifiable
  <2>7. Whose'
    BY <1>a, <2>1 DEF Moves, Whose
  <2>8. Founding'
    BY <1>a, <2>1, <2>4 DEF Moves, Founding, Whose, accounts
  <2>9. QED
    BY <2>5, <2>6, <2>7, <2>8 DEF IInv
<1>22. ASSUME NEW t \in Tab, NEW p \in Person, CountProjects(t, p) PROVE IInv'
  <2>1. Moves(t) /\ tab'[t].at = "insert" /\ tab'[t].who = p
    <3>1. Start(t, "insert", p)
      BY <1>22 DEF CountProjects, Start
    <3>2. QED
      BY <3>1, <1>a, <1>p, TabStep
  <2>2. QED
    BY <1>22, <1>a, <1>c, <1>l, <2>1 DEF CountProjects, accounts
<1>23. ASSUME NEW t \in Tab, CreateProject(t) PROVE IInv'
  <2>1. tab[t].who \in Person
    BY <1>23, <1>w DEF CreateProject
  <2>2. Moves(t) /\ tab'[t].at = "idle"
    BY <1>23, <1>a, <1>p, TabStep DEF CreateProject
  <2>3. /\ projects' \in [Person -> Projects]
        /\ \A p \in Person : projects'[p].default = projects[p].default
    BY <1>23, <1>a, <2>1 DEF CreateProject, Projects
  <2>4. left' \in 0..Budget
    BY <1>23, <1>a, <1>l DEF CreateProject
  <2>5. QED
    BY <1>23, <1>a, <1>c, <2>2, <2>3, <2>4 DEF CreateProject
<1>24. ASSUME NEW t \in Tab, Leave(t) PROVE IInv'
  <2>1. Moves(t) /\ tab'[t].at = "idle"
    BY <1>24, <1>a, <1>p, TabStep DEF Leave
  <2>2. QED
    BY <1>24, <1>a, <1>c, <2>1 DEF Leave, accounts
<1>25. QED
  BY <1>0, <1>1, <1>2, <1>3, <1>4, <1>5, <1>7, <1>8, <1>9, <1>10, <1>11, <1>12, <1>13,
     <1>14, <1>15, <1>16, <1>17, <1>18, <1>19, <1>20, <1>21, <1>22, <1>23, <1>24
     DEF Next, Decides

\* The invariant holds of every reachable state.
LEMMA Inductive == Spec => []IInv
<1>1. Init => IInv
  <2> SUFFICES ASSUME Init PROVE IInv
    OBVIOUS
  <2>1. /\ Closed \in TabState /\ Closed.at = "idle"
        /\ NoAccount \in Account /\ NoCode \in Code
        /\ [default |-> 0, more |-> 0] \in Projects
    BY DEF Closed, TabState, NoAccount, Account, NoCode, Code, Projects
  <2>2. TypeOK
    BY <2>1, BudgetAssumption DEF Init, TypeOK, PollState
  <2>3. Whose /\ Founding
    BY <2>1 DEF Init, Whose, Founding
  <2>4. DeviceOver /\ Closing
    BY DEF Init, DeviceOver, Closing, Final
  <2>5. QED
    BY <2>2, <2>3, <2>4 DEF IInv
<1>2. QED
  BY <1>1, InvStep, PTL DEF Spec

\* Type correctness of every reachable state: the accounts, the projects, the
\* device code, the tabs and the polls have their types.
THEOREM TypeCorrect == Spec => []TypeOK
<1>1. IInv => TypeOK
  BY DEF IInv
<1>2. QED
  BY <1>1, Inductive, PTL

\* However many polls run together and however many tabs approve the code, one
\* poll at most is handed the tokens.
THEOREM HandedOnce == Spec => []TokensHandedOutOnce
<1>1. IInv => TokensHandedOutOnce
  BY DEF IInv, DeviceOver, TokensHandedOutOnce
<1>2. QED
  BY <1>1, Inductive, PTL

\* Signing in again, or twice at once, founds no second account and makes no
\* second default project.
THEOREM FoundedOnce == Spec => []OneDefaultProject
<1>1. IInv => OneDefaultProject
  BY DEF IInv, Founding, OneDefaultProject
<1>2. QED
  BY <1>1, Inductive, PTL

\* What a device was told for good stays so: with its row deleted there are no
\* tokens any more, and after whatever final answer, also where the row could
\* not be deleted, no tab begins to approve or deny.
THEOREM RefusalIsFinal == Spec => RefusedForGood
<1> DEFINE NoTokens == answers \cap Refusals # {} => handed' = handed
           NoTab    == answers # {} => \A t \in Tab : tab'[t].at \in {"exchange", "deny"} =>
                                                       tab[t].at = tab'[t].at
<1>1. IInv /\ [Next]_vars => [NoTokens /\ NoTab]_vars
  <2> SUFFICES ASSUME IInv, Next PROVE NoTokens /\ NoTab
    OBVIOUS
  <2>1. NoTokens
    <3> SUFFICES ASSUME answers \cap Refusals # {} PROVE handed' = handed
      OBVIOUS
    <3>1. code.status = "gone"
      BY DEF IInv, DeviceOver
    <3>2. ASSUME NEW q \in Poll, Decides(q) PROVE handed' = handed
      BY <3>1, <3>2 DEF Decides, PollExpired, PollDenied, DeleteAndTell, PollPending,
                        PollApproved, Answer, Consumed
    <3>3. QED
      BY <3>2 DEF Next, devices, RequestCode, Expire, Cleanup, PollRead, VerifyUserCode,
                  FindUser, CheckFirst, CreateUser, FindAgain, CreateDefaultProject, Consent,
                  Callback, Exchange, Approve, Deny, CreateProject, Leave, OpenDashboard,
                  LoginKnown, LoginPage, CountProjects
  <2>2. NoTab
    <3> SUFFICES ASSUME answers # {}, NEW t \in Tab, tab'[t].at \in {"exchange", "deny"}
                 PROVE  tab[t].at = tab'[t].at
      OBVIOUS
    <3>a. ~Verifiable /\ TypeOK
      BY DEF IInv, Closing
    <3>p. {"login", "find", "first", "create", "again", "project", "consent", "callback",
           "refused", "exchange", "deny", "approve", "insert"} \subseteq Pages
      BY DEF Pages
    \* A tab that moves, but not to where it asks for tokens or denies.
    <3>b. ASSUME NEW u \in Tab, Moves(u), tab'[u].at \notin {"exchange", "deny"}
          PROVE  tab[t].at = tab'[t].at
      BY <3>b DEF Moves
    <3>1. CASE UNCHANGED tab
      BY <3>1
    <3>2. ASSUME NEW u \in Tab, NEW p \in Person,
                 OpenDashboard(u, p) \/ LoginKnown(u, p) \/ LoginPage(u, p) \/ CountProjects(u, p)
          PROVE  tab[t].at = tab'[t].at
      <4>1. \/ Start(u, "find", p) \/ Start(u, "insert", p)
            \/ GoOn(u, "find", p) \/ GoOn(u, "consent", p)
        BY <3>2 DEF OpenDashboard, LoginKnown, LoginPage, CountProjects, Start, GoOn
      <4>2. Moves(u) /\ tab'[u].at \in {"find", "insert", "consent"}
        BY <4>1, <3>a, <3>p, TabStep
      <4>3. QED
        BY <3>b, <4>2
    <3>3. ASSUME NEW u \in Tab,
                 \/ VerifyUserCode(u) \/ FindUser(u) \/ CreateUser(u) \/ FindAgain(u)
                 \/ CreateDefaultProject(u) \/ Callback(u) \/ Approve(u) \/ Deny(u)
                 \/ CheckFirst(u) \/ Consent(u) \/ Exchange(u) \/ CreateProject(u) \/ Leave(u)
          PROVE  tab[t].at = tab'[t].at
      <4>1. \/ Open(u, "login", TRUE) \/ SignedIn(u) \/ Close(u)
            \/ \E label \in Pages \ {"exchange", "deny"} : Goto(u, label)
            \/ \E b \in BOOLEAN : Create(u, b)
        BY <3>3, <3>a, <3>p
           DEF VerifyUserCode, FindUser, CreateUser, FindAgain, CreateDefaultProject, Callback,
               Approve, Deny, CheckFirst, Consent, Exchange, CreateProject, Leave, Create
      <4>2. CASE Open(u, "login", TRUE)
        BY <3>a, <3>b, <4>2, TabStep
      <4>3. CASE SignedIn(u)
        BY <3>a, <3>b, <4>3, TabStep
      <4>4. CASE Close(u)
        BY <3>a, <3>b, <4>4, TabStep
      <4>5. ASSUME NEW label \in Pages \ {"exchange", "deny"}, Goto(u, label)
            PROVE  tab[t].at = tab'[t].at
        <5>1. Moves(u) /\ tab'[u].at = label
          BY <3>a, <4>5, TabStep
        <5>2. QED
          BY <3>b, <4>5, <5>1
      <4>6. ASSUME NEW b \in BOOLEAN, Create(u, b) PROVE tab[t].at = tab'[t].at
        <5>1. Moves(u) /\ tab'[u].at = "create"
          BY <3>a, <4>6, CreateStep
        <5>2. QED
          BY <3>b, <5>1
      <4>7. QED
        BY <4>1, <4>2, <4>3, <4>4, <4>5, <4>6
    <3>4. QED
      BY <3>1, <3>2, <3>3 DEF Next, Decides, RequestCode, Expire, Cleanup, PollRead, PollExpired,
                              PollDenied, PollPending, PollApproved
  <2>3. QED
    BY <2>1, <2>2
<1>2. QED
  BY <1>1, Inductive, PTL DEF Spec, RefusedForGood
=============================================================================

------------------------------- MODULE SignIn -------------------------------
(***************************************************************************)
(* How people and their devices sign in: the accounts that are made when   *)
(* somebody comes back from an OAuth provider for the first time, the      *)
(* pages of login and consent behind Hydra, and the device flow, by which  *)
(* a command line tool polls for the tokens its user approves in a         *)
(* browser.                                                                *)
(*                                                                         *)
(* A browser tab walks from page to page; every handler on its way reads   *)
(* and writes in statements of their own.  One device code is modelled,    *)
(* any number of tabs may have been opened with its user code, and the     *)
(* device may have more than one poll under way.                           *)
(***************************************************************************)
EXTENDS Integers, FiniteSets

CONSTANTS
  Person,       \* people, each with one account at an OAuth provider and one email
  Tab,          \* browser tabs
  Poll,         \* polls of the device that are under way at the same time
  MaxProjects,  \* users.max_projects of an ordinary user
  Budget        \* bound on the statements that fail and the projects created

ASSUME BudgetAssumption == Budget \in Nat /\ MaxProjects \in Nat

VARIABLES
  account,      \* the rows of users
  projects,     \* the projects each person owns
  session,      \* who has a session at Hydra or a session cookie
  code,         \* the row of device_codes
  tab,          \* where each tab is
  poll,         \* the polls
  answers,      \* the final answers the device was given
  handed,       \* how often it was given the tokens
  left          \* what is left of Budget

vars == <<account, projects, session, code, tab, poll, answers, handed, left>>

----------------------------------------------------------------------------
(* State.                                                                  *)

Account   == [there : BOOLEAN, superadmin : BOOLEAN]
NoAccount == [there |-> FALSE, superadmin |-> FALSE]

NoOne == "no one"

\* The tokens are in the row once it is approved.
Code   == [status : {"none", "pending", "approved", "denied", "gone"}, expired : BOOLEAN]
NoCode == [status |-> "none", expired |-> FALSE]

\* flow: the tab has come from the verification page of the device flow.
\* first: the person is the first user, as far as UserExists has told.
TabState == [at : {"idle", "login", "find", "first", "create", "again", "project",
                   "consent", "callback", "refused", "exchange", "deny", "approve", "insert"},
             who : Person \cup {NoOne}, flow : BOOLEAN, first : BOOLEAN]
Closed   == [at |-> "idle", who |-> NoOne, flow |-> FALSE, first |-> FALSE]

\* A poll, by what it has read: "expired" comes before the status.
PollState == {"idle", "expired", "denied", "pending", "approved"}

\* What ends the polling.  "lost" and "undeleted" are the model's names, for an
\* invalid_grant after a read of "approved", and for an access_denied or an
\* expired_token whose row was not deleted.
FinalAnswer == {"tokens", "access_denied", "expired_token", "invalid_grant",
                "lost", "undeleted"}

\* How many: the default project, and those created later.
Projects == [default : Nat, more : Nat]
Owns(p)  == projects[p].default + projects[p].more

Init ==
  /\ account = [p \in Person |-> NoAccount]
  /\ projects = [p \in Person |-> [default |-> 0, more |-> 0]]
  /\ session = {}
  /\ code = NoCode
  /\ tab = [t \in Tab |-> Closed]
  /\ poll = [q \in Poll |-> "idle"]
  /\ answers = {} /\ handed = 0
  /\ left = Budget

Goto(t, label) == tab' = [tab EXCEPT ![t].at = label]
Close(t)       == tab' = [tab EXCEPT ![t] = Closed]
Fail           == left > 0 /\ left' = left - 1

\* What comes of it is the same, whether c holds or a statement fails.
FailUnless(c)  == IF c THEN UNCHANGED left ELSE Fail

devices  == <<code, poll, answers, handed>>
accounts == <<account, projects, session>>

----------------------------------------------------------------------------
(* The device: HandleDeviceAuthorize and HandleTokenPoll.                  *)

RequestCode ==
  /\ code.status = "none"
  /\ code' = [NoCode EXCEPT !.status = "pending"]
  /\ UNCHANGED <<accounts, tab, poll, answers, handed, left>>

Expire ==
  /\ code.status \in {"pending", "approved", "denied"} /\ ~code.expired
  /\ code' = [code EXCEPT !.expired = TRUE]
  /\ UNCHANGED <<accounts, tab, poll, answers, handed, left>>

Gone == [NoCode EXCEPT !.status = "gone"]

\* StartCleanup: DELETE ... WHERE expires_at < NOW().
Cleanup ==
  /\ code.expired
  /\ code' = Gone
  /\ UNCHANGED <<accounts, tab, poll, answers, handed, left>>

\* GetDeviceCodeByCode, whatever the status and the expiry.
Seen == IF code.expired THEN "expired" ELSE code.status

\* Fault: the row is not missed.
PollReadBlind(q) ==
  /\ poll[q] = "idle" /\ code.status # "none"
  /\ poll' = [poll EXCEPT ![q] = Seen]
  /\ UNCHANGED <<accounts, code, tab, answers, handed, left>>

\* Fault: the expiry is left to the cleanup.
PollReadStatus(q) ==
  /\ poll[q] = "idle" /\ code.status # "none"
  /\ IF code.status = "gone"
     THEN answers' = answers \cup {"invalid_grant"} /\ UNCHANGED poll
     ELSE poll' = [poll EXCEPT ![q] = code.status] /\ UNCHANGED answers
  /\ UNCHANGED <<accounts, code, tab, handed, left>>

\* A row that is gone is answered at once.
PollRead(q) ==
  /\ poll[q] = "idle" /\ code.status # "none"
  /\ IF code.status = "gone"
     THEN answers' = answers \cup {"invalid_grant"} /\ UNCHANGED poll
     ELSE poll' = [poll EXCEPT ![q] = Seen] /\ UNCHANGED answers
  /\ UNCHANGED <<accounts, code, tab, handed, left>>

Answer(q, what) ==
  /\ poll' = [poll EXCEPT ![q] = "idle"]
  /\ answers' = answers \cup {what}
  /\ handed' = IF what = "tokens" THEN handed + 1 ELSE handed

\* DeleteDeviceCode: the row that was read is deleted, whatever has become of
\* it.  Its error is ignored: the device is told the same, and the row stays
\* as it is ("undeleted").
DeleteAndTell(q, what) ==
  \/ code' = Gone /\ Answer(q, what) /\ UNCHANGED left
  \/ Fail /\ Answer(q, "undeleted") /\ UNCHANGED code

PollExpired(q) ==
  /\ poll[q] = "expired"
  /\ DeleteAndTell(q, "expired_token")
  /\ UNCHANGED <<accounts, tab>>

\* Fault: the row is deleted only if it is denied still.
PollDeniedGuarded(q) ==
  /\ poll[q] = "denied"
  /\ code' = IF code.status = "denied" THEN Gone ELSE code
  /\ Answer(q, "access_denied")
  /\ UNCHANGED <<accounts, tab, left>>

PollDenied(q) ==
  /\ poll[q] = "denied"
  /\ DeleteAndTell(q, "access_denied")
  /\ UNCHANGED <<accounts, tab>>

\* authorization_pending or slow_down: the device waits, for longer when it
\* has polled too fast, which UpdateDeviceCodePoll records.
PollPending(q) ==
  /\ poll[q] = "pending"
  /\ poll' = [poll EXCEPT ![q] = "idle"]
  /\ UNCHANGED <<accounts, code, tab, answers, handed, left>>

\* Fault: the tokens are those that were read, the row is deleted after it.
PollApprovedRead(q) ==
  /\ poll[q] = "approved"
  /\ code' = Gone
  /\ Answer(q, "tokens")
  /\ UNCHANGED <<accounts, tab, left>>

\* ConsumeApprovedDeviceCode: DELETE ... WHERE status = 'approved' RETURNING.
Consumed == code.status = "approved" /\ code' = Gone

\* The query may fail, and tokens that cannot be decrypted are lost.  "lost" is
\* an invalid_grant as well: the code takes it that another poll consumed the
\* row, but the row may only have been denied after this poll read it.
PollApproved(q) ==
  /\ poll[q] = "approved"
  /\ \/ Consumed /\ Answer(q, "tokens") /\ UNCHANGED left
     \/ /\ Consumed \/ UNCHANGED code
        /\ Fail /\ poll' = [poll EXCEPT ![q] = "idle"]
        /\ UNCHANGED <<answers, handed>>
     \/ /\ code.status # "approved"
        /\ Answer(q, "lost")
        /\ UNCHANGED <<code, left>>
  /\ UNCHANGED <<accounts, tab>>

----------------------------------------------------------------------------
(* The tab: the pages of the device flow, of the login and of the consent. *)

Open(t, at, flow) == tab' = [tab EXCEPT ![t] = [Closed EXCEPT !.at = at, !.flow = flow]]

Verifiable == code.status = "pending" /\ ~code.expired

\* HandleVerifyUserCode sends a pending code on to Hydra.
VerifyUserCode(t) ==
  /\ tab[t] = Closed /\ Verifiable
  /\ Open(t, "login", TRUE)
  /\ UNCHANGED <<accounts, devices, left>>

\* The dashboard: oauthRedirect without a page of Hydra to return to.
OpenDashboard(t, p) ==
  /\ tab[t] = Closed /\ left > 0 /\ p \notin session
  /\ left' = left - 1
  /\ tab' = [tab EXCEPT ![t] = [Closed EXCEPT !.at = "find", !.who = p]]
  /\ UNCHANGED <<accounts, devices>>

\* LoginHandler: Hydra or the cookie knows the person.
LoginKnown(t, p) ==
  /\ tab[t].at = "login" /\ p \in session
  /\ tab' = [tab EXCEPT ![t].at = "consent", ![t].who = p]
  /\ UNCHANGED <<accounts, devices, left>>

\* Otherwise the login page sends the person to a provider and back.
LoginPage(t, p) ==
  /\ tab[t].at = "login"
  /\ tab' = [tab EXCEPT ![t].at = "find", ![t].who = p]
  /\ UNCHANGED <<accounts, devices, left>>

\* CreateOAuthConnection, by which the account is found from now on as it is
\* by its email, and then the page of Hydra for which the auth_token is good,
\* or the dashboard.
SignedIn(t) ==
  /\ session' = session \cup {tab[t].who}
  /\ IF tab[t].flow THEN Goto(t, "consent") ELSE Close(t)

\* resolveOrCreateOAuthUser: by the connection or by the email.  A lookup
\* that fails counts as one that found nobody.
FindUser(t) ==
  /\ tab[t].at = "find"
  /\ \/ account[tab[t].who].there /\ SignedIn(t) /\ UNCHANGED left
     \/ FailUnless(~account[tab[t].who].there) /\ Goto(t, "first") /\ UNCHANGED session
  /\ UNCHANGED <<account, projects, devices>>

\* UserExists; when it fails the person is not the first.
CheckFirst(t) ==
  /\ tab[t].at = "first"
  /\ LET first == \A p \in Person : ~account[p].there
     IN  \/ tab' = [tab EXCEPT ![t].at = "create", ![t].first = first] /\ UNCHANGED left
         \/ first /\ Fail /\ Goto(t, "create")
  /\ UNCHANGED <<accounts, devices>>

\* Fault: whoever does not find an account makes a default project.
CreateUserProject(t) ==
  /\ tab[t].at = "create"
  /\ account' = [account EXCEPT ![tab[t].who] =
                   IF @.there THEN @ ELSE [NoAccount EXCEPT !.there = TRUE, !.superadmin = tab[t].first]]
  /\ Goto(t, "project")
  /\ UNCHANGED <<projects, session, devices, left>>

\* The email is unique: the second of two INSERTs fails, and any may.
CreateUser(t) ==
  /\ tab[t].at = "create"
  /\ \/ /\ ~account[tab[t].who].there
        /\ account' = [account EXCEPT ![tab[t].who] =
                         [NoAccount EXCEPT !.there = TRUE, !.superadmin = tab[t].first]]
        /\ Goto(t, "project")
        /\ UNCHANGED left
     \/ /\ FailUnless(account[tab[t].who].there)
        /\ Goto(t, "again")
        /\ UNCHANGED account
  /\ UNCHANGED <<projects, session, devices>>

\* Then the account is looked up once more, and may not be there.
FindAgain(t) ==
  /\ tab[t].at = "again"
  /\ \/ account[tab[t].who].there /\ SignedIn(t) /\ UNCHANGED left
     \/ FailUnless(~account[tab[t].who].there) /\ Close(t) /\ UNCHANGED session
  /\ UNCHANGED <<account, projects, devices>>

\* CreateProject and AssignFreePlan; a failure is logged.
CreateDefaultProject(t) ==
  /\ tab[t].at = "project"
  /\ \/ projects' = [projects EXCEPT ![tab[t].who].default = @ + 1] /\ UNCHANGED left
     \/ Fail /\ UNCHANGED projects
  /\ SignedIn(t)
  /\ UNCHANGED <<account, devices>>

\* The consent page: the person chooses one of his projects, or refuses.
Consent(t) ==
  /\ tab[t].at = "consent" /\ Owns(tab[t].who) > 0
  /\ Goto(t, "callback") \/ Goto(t, "refused")
  /\ UNCHANGED <<accounts, devices, left>>

\* HandleCallback finds the code by its nonce while it is pending.
Callback(t) ==
  /\ tab[t].at \in {"callback", "refused"}
  /\ \/ /\ Verifiable
        /\ Goto(t, IF tab[t].at = "refused" THEN "deny" ELSE "exchange")
        /\ UNCHANGED left
     \/ FailUnless(~Verifiable) /\ Close(t)
  /\ UNCHANGED <<accounts, devices>>

\* The code of Hydra is exchanged for the tokens.
Exchange(t) ==
  /\ tab[t].at = "exchange"
  /\ \/ Goto(t, "approve") /\ UNCHANGED left
     \/ Close(t) /\ Fail
  /\ UNCHANGED <<accounts, devices>>

\* UPDATE ... WHERE id, whatever the status is by now.  If it fails the tab is
\* done all the same: the error of DenyDeviceCode is ignored, that of
\* ApproveDeviceCode is shown to the person.
Rewrite(status) ==
  \/ /\ code' = IF code.status = "gone" THEN code ELSE [code EXCEPT !.status = status]
     /\ UNCHANGED left
  \/ Fail /\ UNCHANGED code

Approve(t) ==
  /\ tab[t].at = "approve"
  /\ Rewrite("approved")
  /\ Close(t)
  /\ UNCHANGED <<accounts, poll, answers, handed>>

Deny(t) ==
  /\ tab[t].at = "deny"
  /\ Rewrite("denied")
  /\ Close(t)
  /\ UNCHANGED <<accounts, poll, answers, handed>>

\* handleCreateProject counts the projects, and then creates one.
CountProjects(t, p) ==
  /\ tab[t] = Closed /\ p \in session
  /\ account[p].superadmin \/ Owns(p) < MaxProjects
  /\ Fail
  /\ tab' = [tab EXCEPT ![t] = [Closed EXCEPT !.at = "insert", !.who = p]]
  /\ UNCHANGED <<accounts, devices>>

CreateProject(t) ==
  /\ tab[t].at = "insert"
  /\ \/ projects' = [projects EXCEPT ![tab[t].who].more = @ + 1] /\ UNCHANGED left
     \/ Fail /\ UNCHANGED projects
  /\ Close(t)
  /\ UNCHANGED <<account, session, devices>>

\* The person closes a page that waits for him.
Leave(t) ==
  /\ tab[t].at \in {"login", "consent"}
  /\ Close(t)
  /\ UNCHANGED <<accounts, devices, left>>

----------------------------------------------------------------------------
Decides(q) == PollExpired(q) \/ PollDenied(q) \/ PollPending(q) \/ PollApproved(q)

Next ==
  \/ RequestCode \/ Expire \/ Cleanup
  \/ \E q \in Poll : PollRead(q) \/ Decides(q)
  \/ \E t \in Tab :
       \/ VerifyUserCode(t) \/ FindUser(t) \/ CheckFirst(t) \/ CreateUser(t) \/ FindAgain(t)
       \/ CreateDefaultProject(t) \/ Consent(t) \/ Callback(t) \/ Exchange(t)
       \/ Approve(t) \/ Deny(t) \/ CreateProject(t) \/ Leave(t)
       \/ \E p \in Person :
            OpenDashboard(t, p) \/ LoginKnown(t, p) \/ LoginPage(t, p) \/ CountProjects(t, p)

Spec == Init /\ [][Next]_vars

\* Time passes, the device polls on, and the handler of a poll runs to its end.
Fairness ==
  /\ WF_vars(Expire)
  /\ \A q \in Poll : WF_vars(PollRead(q)) /\ WF_vars(Decides(q))

FairSpec == Spec /\ Fairness

----------------------------------------------------------------------------
(* Properties.                                                             *)

\* The types of the variables.
TypeOK ==
  /\ account \in [Person -> Account]
  /\ projects \in [Person -> Projects]
  /\ session \subseteq Person
  /\ code \in Code
  /\ tab \in [Tab -> TabState]
  /\ poll \in [Poll -> PollState]
  /\ answers \subseteq FinalAnswer
  /\ handed \in Nat
  /\ left \in 0..Budget

\* The tokens are handed out to one poll only, however many run together and
\* however many tabs approve the code.
TokensHandedOutOnce == handed <= 1

\* Answers after which there is no row any more.
Refusals == {"access_denied", "expired_token", "invalid_grant"}

\* A device that has been told its user refused, or the code was too old, or
\* there is none, and whose row was deleted or had gone, is handed no tokens
\* after that, though a second tab approves what the first one has denied.
\* Where the row was not deleted ("undeleted"), or was denied after the poll had
\* read it ("lost"), the device may still get them, from a poll that had read
\* "approved" or by a tab that is in the callback already: after any final answer
\* none begins to approve or deny.
RefusedForGood ==
  [][/\ answers \cap Refusals # {} => handed' = handed
     /\ answers # {} => \A t \in Tab : tab'[t].at \in {"exchange", "deny"} =>
                                        tab[t].at = tab'[t].at]_vars

\* A device that polls is told in the end, whatever the browser does.
DeviceIsTold == code.status = "pending" ~> answers # {}

\* Signing in twice at the same time, or after a lookup that failed, does not
\* make a second default project, nor a second account.
OneDefaultProject == \A p \in Person : projects[p].default <= 1
============================================================================

--------------------------- MODULE AdminSessions ----------------------------
(***************************************************************************)
(* The administrator's session: the row of geo_admin_users on the server,  *)
(* the token in each browser's localStorage, and the tabs of the React     *)
(* frontend, whose requests carry the token of the moment they were sent   *)
(* and whose answers arrive in any order.  Some calls the backend forwards *)
(* to the monitoring service, whose HTTP status it passes on.  Tokens are  *)
(* numbered in the order they are issued.  One enabled administrator; who  *)
(* types the right password is the environment's choice.                   *)
(***************************************************************************)
EXTENDS Naturals, FiniteSets

CONSTANTS
    Tabs,
    Browsers,
    BrowserOf,      \* the browser whose localStorage a tab shares
    Pages,          \* the routes below RequireAuth
    Home,           \* the route "/"
    Polling,        \* pages with a refetchInterval: dashboard, list, detail
    Login,          \* the route "/login"
    None,
    MaxLogins,      \* bound: tokens ever issued
    MaxCalls        \* bound: calls other than reads under way at once when one is sent

ASSUME BrowserAssumption == BrowserOf \in [Tabs -> Browsers]
ASSUME PagesAssumption ==
    /\ Home \in Pages
    /\ Polling \subseteq Pages
    /\ Login \notin Pages
    /\ None \notin Pages \cup Tabs \cup {Login}
ASSUME BoundAssumption == MaxLogins \in Nat /\ MaxCalls \in Nat

VARIABLES
    tokenHash,      \* auth_token_hash as a token number; 0 is NULL
    expired,        \* token_expires_at has passed
    issued,         \* tokens issued so far
    stored,         \* localStorage: the browser's token, 0 if there is none
    path,           \* the tab's location.pathname
    from,           \* the tab's location.state.from
    back,           \* the tab's sessionStorage item redirectAfterLogin
    left,           \* auxiliary: the page a tab was sent to the login page from
    requests        \* requests and answers under way

serverVars == <<tokenHash, expired, issued>>
tabVars == <<path, from, back, left>>
vars == <<serverVars, stored, tabVars, requests>>

Tokens == 0..MaxLogins
Kinds == {"read", "forward", "login", "logout"}

(* tab is None once nobody waits for the answer any more; "checked" is a   *)
(* logout between the authenticating middleware and its UPDATE, or a call  *)
(* that the service is asked; "refused" and "unauthorized" are the 401 of  *)
(* the backend and that of the service, which no browser can tell apart.   *)
Request == [tab : Tabs \cup {None}, kind : Kinds, token : Tokens,
            answer : {"none", "checked", "ok", "refused", "unauthorized", "failed"}]

Is401(r) == r.answer \in {"refused", "unauthorized"}
Answered(r) == r.answer \in {"ok", "failed"} \/ Is401(r)

(* The calls that change the row, of which the server goes on with one     *)
(* whose tab has gone away.                                                *)
IsForm(r) == r.kind \in {"login", "logout"}

(* WHERE auth_token_hash = ? AND token_expires_at > NOW() *)
Live(n) == n # 0 /\ tokenHash = n /\ ~expired

Init ==
    /\ tokenHash = 0 /\ expired = FALSE /\ issued = 0
    /\ stored = [b \in Browsers |-> 0]
    /\ path = [t \in Tabs |-> Login]
    /\ from = [t \in Tabs |-> None]
    /\ back = [t \in Tabs |-> None]
    /\ left = [t \in Tabs |-> None]
    /\ requests = {}
-----------------------------------------------------------------------------
(* The browser. *)

Token(t) == stored[BrowserOf[t]]

(* A page that goes away no longer waits for its answers; the server goes  *)
(* on with what changes its state.                                         *)
Orphaned(waiting) ==
    {[r EXCEPT !.tab = None] : r \in {q \in waiting : IsForm(q) /\ ~Answered(q)}}

Abandon(t) ==
    LET waiting == {r \in requests : r.tab = t}
    IN  (requests \ waiting) \cup Orphaned(waiting)

(* The router shows page p, or RequireAuth the login page instead. *)
Enter(t, p) ==
    LET admitted == p = Login \/ Token(t) # 0
        origin == IF admitted THEN None ELSE p
    IN  /\ path' = [path EXCEPT ![t] = IF admitted THEN p ELSE Login]
        /\ from' = [from EXCEPT ![t] = origin]
        /\ left' = [left EXCEPT ![t] = origin]

(* A typed address: the page starts anew.  The login page has no links, so *)
(* this is also how it is left without logging in.                         *)
Open(t, p) ==
    /\ Enter(t, p)
    /\ requests' = Abandon(t)
    /\ UNCHANGED <<serverVars, stored, back>>

(* The login page is reloaded: location.state survives, as history.state.  *)
Reload(t) ==
    /\ path[t] = Login
    /\ requests' = Abandon(t)
    /\ UNCHANGED <<serverVars, stored, tabVars>>

(* A link inside the application: requests of the old page go on. *)
Follow(t, p) ==
    /\ path[t] # Login
    /\ Enter(t, p)
    /\ UNCHANGED <<serverVars, stored, back, requests>>

(* The interceptor attaches what localStorage holds at this moment; a page *)
(* has one request of a kind under way (a query is not fetched twice, the  *)
(* login button is disabled).                                              *)
Send(t, kind) ==
    /\ \A r \in requests : r.tab = t => r.kind # kind
    /\ kind # "read" => Cardinality({r \in requests : r.kind # "read"}) < MaxCalls
    /\ requests' = requests \cup
          {[tab |-> t, kind |-> kind, token |-> Token(t), answer |-> "none"]}
    /\ UNCHANGED <<serverVars, stored, tabVars>>

Poll(t) == path[t] \in Polling /\ Send(t, "read")
Read(t) == path[t] \in Pages \ Polling /\ Send(t, "read")

(* The callback URL, the cities; a submission, a sync, a stop. *)
Forward(t) == path[t] \in Pages /\ Send(t, "forward")

SubmitLogin(t) == path[t] = Login /\ Send(t, "login")
ClickLogout(t) == path[t] # Login /\ Send(t, "logout")
-----------------------------------------------------------------------------
(* The server. *)

(* An answer nobody waits for is dropped. *)
Answer(r, next) ==
    requests' = (requests \ {r}) \cup
        IF r.tab = None /\ Answered(next) THEN {} ELSE {next}

(* Mutant of Authenticate: a lookup that fails counts as no user. *)
AuthenticateOrRefuse(r) ==
    /\ r.kind # "login" /\ r.answer = "none"
    /\ \E found \in {FALSE, Live(r.token)} :
          Answer(r, [r EXCEPT !.answer = IF ~found THEN "refused"
                                         ELSE IF r.kind = "read" THEN "ok" ELSE "checked"])
    /\ UNCHANGED <<serverVars, stored, tabVars>>

(* The middleware before every /api route but login and health. *)
Authenticate(r) ==
    /\ r.kind # "login" /\ r.answer = "none"
    /\ Answer(r, [r EXCEPT !.answer = IF ~Live(r.token) THEN "refused"
                                      ELSE IF r.kind = "read" THEN "ok" ELSE "checked"])
    /\ UNCHANGED <<serverVars, stored, tabVars>>

RefuseLogin(r) ==
    /\ r.kind = "login" /\ r.answer = "none"
    /\ Answer(r, [r EXCEPT !.answer = "refused"])
    /\ UNCHANGED <<serverVars, stored, tabVars>>

(* Mutant of IssueToken: a login while the row holds a token prolongs it.  *)
IssueTokenProlong(r) ==
    /\ r.kind = "login" /\ r.answer = "none"
    /\ issued < MaxLogins
    /\ IF tokenHash = 0 THEN tokenHash' = issued + 1 /\ issued' = issued + 1
                        ELSE UNCHANGED <<tokenHash, issued>>
    /\ expired' = FALSE
    /\ Answer(r, [r EXCEPT !.answer = "ok", !.token = tokenHash'])
    /\ UNCHANGED <<stored, tabVars>>

(* issueToken: the one row holds one token, the previous one is gone. *)
IssueToken(r) ==
    /\ r.kind = "login" /\ r.answer = "none"
    /\ issued < MaxLogins
    /\ issued' = issued + 1
    /\ tokenHash' = issued + 1
    /\ expired' = FALSE
    /\ Answer(r, [r EXCEPT !.answer = "ok", !.token = issued + 1])
    /\ UNCHANGED <<stored, tabVars>>

(* Mutant of LogoutUser: only the expiry is cleared, at the next login. *)
LogoutUserLater(r) ==
    /\ r.kind = "logout" /\ r.answer = "checked"
    /\ Answer(r, [r EXCEPT !.answer = "ok"])
    /\ UNCHANGED <<serverVars, stored, tabVars>>

(* logoutUser clears the row by user id, whatever token it holds by now. *)
LogoutUser(r) ==
    /\ r.kind = "logout" /\ r.answer = "checked"
    /\ tokenHash' = 0
    /\ expired' = FALSE
    /\ Answer(r, [r EXCEPT !.answer = "ok"])
    /\ UNCHANGED <<issued, stored, tabVars>>

ServiceAnswers(r) ==
    /\ r.kind = "forward" /\ r.answer = "checked"
    /\ Answer(r, [r EXCEPT !.answer = "ok"])
    /\ UNCHANGED <<serverVars, stored, tabVars>>

(* The service answers HTTP 401, and so does the error handler.            *)
ServiceRefuses(r) ==
    /\ r.kind = "forward" /\ r.answer = "checked"
    /\ Answer(r, [r EXCEPT !.answer = "unauthorized"])
    /\ UNCHANGED <<serverVars, stored, tabVars>>

(* A query or a call of the service fails and the error handler answers    *)
(* 502 or another status of the service, or an answer is lost and the      *)
(* client's timeout ends the wait.                                         *)
Fail(r) ==
    /\ r.answer # "failed"
    /\ Answer(r, [r EXCEPT !.answer = "failed"])
    /\ UNCHANGED <<serverVars, stored, tabVars>>

(* The client's timeout ends the wait for a request still being handled.   *)
TimeOut(r) ==
    /\ r.tab # None /\ IsForm(r) /\ ~Answered(r)
    /\ requests' = (requests \ {r}) \cup Orphaned({r}) \cup {[r EXCEPT !.answer = "failed"]}
    /\ UNCHANGED <<serverVars, stored, tabVars>>

(* Seven days later. *)
Expire ==
    /\ tokenHash # 0 /\ ~expired
    /\ expired' = TRUE
    /\ UNCHANGED <<tokenHash, issued, stored, tabVars, requests>>
-----------------------------------------------------------------------------
(* The answer arrives in its tab. *)

SetStored(t, n) == stored' = [stored EXCEPT ![BrowserOf[t]] = n]

(* LoginPage.submit: state.from, else what the interceptor remembered. *)
Target(t) ==
    IF from[t] # None THEN from[t] ELSE IF back[t] # None THEN back[t] ELSE Home

(* window.location.href = '/login' *)
ToLogin(t, origin) ==
    /\ path' = [path EXCEPT ![t] = Login]
    /\ from' = [from EXCEPT ![t] = None]
    /\ left' = [left EXCEPT ![t] = origin]
    /\ requests' = Abandon(t)

(* Mutant of Refused: the guard on the login page is missing. *)
RefusedAnywhere(r) ==
    /\ Is401(r) /\ r.kind # "logout"
    /\ SetStored(r.tab, 0)
    /\ back' = [back EXCEPT ![r.tab] = path[r.tab]]
    /\ ToLogin(r.tab, IF path[r.tab] = Login THEN left[r.tab] ELSE path[r.tab])
    /\ UNCHANGED serverVars

(* Mutant of Refused: the message is shown and nothing else happens. *)
RefusedQuietly(r) ==
    /\ Is401(r) /\ r.kind # "logout"
    /\ requests' = requests \ {r}
    /\ UNCHANGED <<serverVars, stored, tabVars>>

(* The interceptor's branch for 401, whoever it is from and whatever token *)
(* is stored by now: any page but the login page is remembered and left.   *)
Refused(r) ==
    /\ Is401(r) /\ r.kind # "logout"
    /\ SetStored(r.tab, 0)
    /\ IF path[r.tab] = Login
         THEN /\ requests' = requests \ {r}
              /\ UNCHANGED tabVars
         ELSE /\ back' = [back EXCEPT ![r.tab] = path[r.tab]]
              /\ ToLogin(r.tab, path[r.tab])
    /\ UNCHANGED serverVars

LoggedIn(r) ==
    /\ r.answer = "ok" /\ r.kind = "login"
    /\ SetStored(r.tab, r.token)
    /\ path' = [path EXCEPT ![r.tab] = Target(r.tab)]
    /\ from' = [from EXCEPT ![r.tab] = None]
    /\ back' = [back EXCEPT ![r.tab] = None]
    /\ left' = [left EXCEPT ![r.tab] = None]
    /\ requests' = requests \ {r}
    /\ UNCHANGED serverVars

(* AppLayout.logout: the local session ends whatever the answer says; a    *)
(* 401 passes through the interceptor first.                               *)
LoggedOut(r) ==
    /\ Answered(r) /\ r.kind = "logout"
    /\ SetStored(r.tab, 0)
    /\ back' = IF Is401(r) /\ path[r.tab] # Login
                 THEN [back EXCEPT ![r.tab] = path[r.tab]] ELSE back
    /\ ToLogin(r.tab, None)
    /\ UNCHANGED serverVars

(* Data for the page, or a message on it. *)
Shown(r) ==
    /\ \/ r.kind \in {"read", "forward"} /\ r.answer \in {"ok", "failed"}
       \/ r.kind = "login" /\ r.answer = "failed"
    /\ requests' = requests \ {r}
    /\ UNCHANGED <<serverVars, stored, tabVars>>

Receive(r) ==
    /\ r.tab # None
    /\ Refused(r) \/ LoggedIn(r) \/ LoggedOut(r) \/ Shown(r)
-----------------------------------------------------------------------------
Next ==
    \/ \E t \in Tabs :
          \/ \E p \in Pages \cup {Login} : Open(t, p) \/ Follow(t, p)
          \/ Reload(t)
          \/ Poll(t) \/ Read(t) \/ Forward(t) \/ SubmitLogin(t) \/ ClickLogout(t)
    \/ \E r \in requests :
          \/ Authenticate(r) \/ RefuseLogin(r) \/ IssueToken(r) \/ LogoutUser(r)
          \/ ServiceAnswers(r) \/ ServiceRefuses(r) \/ Fail(r) \/ TimeOut(r)
          \/ Receive(r)
    \/ Expire

Spec == Init /\ [][Next]_vars

(* What the code schedules by itself: refetches of the page in front, the  *)
(* handling of a request, the delivery of its answer.  A query that is     *)
(* tried for ever succeeds again and again (SF).                           *)
RequestOf(t, kind) == {r \in requests : r.tab = t /\ r.kind = kind}

Fairness ==
    \A t \in Tabs :
        /\ WF_vars(Poll(t))
        /\ SF_vars(\E r \in RequestOf(t, "read") : Authenticate(r))
        /\ SF_vars(\E r \in RequestOf(t, "read") : Refused(r))
        /\ WF_vars(\E r \in RequestOf(t, "read") : Shown(r))

FairSpec == Spec /\ Fairness
-----------------------------------------------------------------------------
TypeOK ==
    /\ tokenHash \in Tokens /\ issued \in Tokens /\ expired \in BOOLEAN
    /\ stored \in [Browsers -> Tokens]
    /\ path \in [Tabs -> Pages \cup {Login}]
    /\ from \in [Tabs -> Pages \cup {None}]
    /\ back \in [Tabs -> Pages \cup {Login, None}]
    /\ left \in [Tabs -> Pages \cup {None}]
    /\ requests \subseteq Request

(* A 401 of the backend's middleware is final: the token it was asked with *)
(* is dead and stays dead while the answer travels, and a failing lookup   *)
(* is not taken for a dead token (server.js middleware, issueToken).  Not  *)
(* said of the service's own 401, which the error handler passes on.       *)
RefusalsFinal ==
    \A r \in requests : r.answer = "refused" /\ r.kind # "login" => ~Live(r.token)

(* A logout answered with success has ended the session it was sent for,   *)
(* whatever logins happened between its check and its UPDATE.              *)
LoggedOutIsOut ==
    \A r \in requests : r.answer = "ok" /\ r.kind = "logout" => ~Live(r.token)

(* No token number is in use before it is issued. *)
TokensIssued ==
    /\ tokenHash <= issued
    /\ \A b \in Browsers : stored[b] <= issued
    /\ \A r \in requests : r.token <= issued

(* Inductive. *)
SessionInv == TypeOK /\ TokensIssued /\ RefusalsFinal /\ LoggedOutIsOut

(* A tab that was sent to the login page against its will goes back to the *)
(* page it was on, by whichever of the two ways that was remembered: a 401 *)
(* (redirectAfterLogin) or RequireAuth (location.state), however many      *)
(* refusals, failed logins and detours lie between.                        *)
LoginLeadsBack ==
    [][\A t \in Tabs :
          (/\ path[t] = Login /\ left[t] # None /\ left'[t] = None
           /\ stored'[BrowserOf[t]] \notin {0, Token(t)})
              => path'[t] = left[t]]_vars

(* A tab on a polling page whose session has ended finds out by itself.    *)
DeadSessionsEnd ==
    \A t \in Tabs :
        path[t] \in Polling /\ ~Live(Token(t))
            ~> path[t] \notin Polling \/ Live(Token(t))
=============================================================================

------------------------ MODULE AdminSessionsProofs -------------------------
(***************************************************************************)
(* SessionInv is inductive.  The argument: a token that is not live never  *)
(* becomes live again (a login issues a number nobody holds), so a verdict *)
(* about a token stays true while its answer travels.  And left, the page  *)
(* a tab has lost, is where the login page would return to (LeftIsTarget). *)
(***************************************************************************)
EXTENDS AdminSessions, TLAPS

(* What an answer under way claims. *)
Sound(r) ==
    /\ r.answer = "refused" /\ r.kind # "login" => ~Live(r.token)
    /\ r.answer = "ok" /\ r.kind = "logout" => ~Live(r.token)

LEMMA InvBySound ==
    SessionInv <=> /\ TypeOK
                   /\ tokenHash <= issued
                   /\ \A b \in Browsers : stored[b] <= issued
                   /\ \A r \in requests : r.token <= issued /\ Sound(r)
BY DEF SessionInv, TokensIssued, RefusalsFinal, LoggedOutIsOut, Sound

(* A dead token stays dead: the three ways the row changes. *)
LEMMA DeadStaysDead ==
    ASSUME TypeOK, tokenHash <= issued,
           \/ UNCHANGED serverVars
           \/ issued' = issued + 1 /\ tokenHash' = issued + 1
           \/ tokenHash' = 0 /\ issued' = issued
           \/ UNCHANGED <<tokenHash, issued>> /\ expired' = TRUE,
           NEW n \in Tokens, n <= issued, ~Live(n)
    PROVE  ~Live(n)'
BY BoundAssumption DEF TypeOK, Tokens, Live, serverVars

(* Requests that lose their tab keep everything else. *)
LEMMA AbandonKeeps ==
    ASSUME TypeOK, NEW t \in Tabs, NEW r \in Abandon(t)
    PROVE  /\ r \in Request
           /\ \E q \in requests :
                 q.kind = r.kind /\ q.token = r.token /\ q.answer = r.answer
<1>1. CASE r \in requests
    BY <1>1 DEF TypeOK
<1>2. CASE r \notin requests
    <2>1. PICK q \in requests : r = [q EXCEPT !.tab = None]
        BY <1>2 DEF Abandon, Orphaned
    <2>2. q \in Request
        BY DEF TypeOK
    <2>3. QED
        BY <2>1, <2>2 DEF Request
<1>3. QED
    BY <1>1, <1>2

(* Steps of a tab: the server's row stays, and so does what every request  *)
(* says; new requests claim nothing.                                       *)
LEMMA TabStep ==
    ASSUME SessionInv, TypeOK', UNCHANGED serverVars,
           \A b \in Browsers : stored'[b] <= issued,
           \A r \in requests' :
              \/ r.answer = "none" /\ r.token <= issued
              \/ r.answer = "failed" /\ r.token <= issued
              \/ \E q \in requests :
                    q.kind = r.kind /\ q.token = r.token /\ q.answer = r.answer
    PROVE  SessionInv'
BY InvBySound DEF SessionInv, TokensIssued, RefusalsFinal, LoggedOutIsOut, Live, serverVars

LEMMA NavigationStep ==
    ASSUME SessionInv, NEW t \in Tabs, NEW p \in Pages \cup {Login},
           Open(t, p) \/ Follow(t, p) \/ Reload(t)
    PROVE  SessionInv'
<1>1. TypeOK
    BY DEF SessionInv
<1>2. \A r \in requests' : r \in Request /\ \E q \in requests :
          q.kind = r.kind /\ q.token = r.token /\ q.answer = r.answer
    BY <1>1, AbandonKeeps DEF Open, Follow, Reload, TypeOK
<1>3. TypeOK'
    BY <1>1, <1>2, PagesAssumption
    DEF Open, Follow, Reload, Enter, TypeOK, serverVars, tabVars
<1>4. UNCHANGED <<serverVars, stored>>
    BY DEF Open, Follow, Reload
<1>5. QED
    BY <1>2, <1>3, <1>4, TabStep DEF SessionInv, TokensIssued, serverVars

LEMMA SendStep ==
    ASSUME SessionInv, NEW t \in Tabs, NEW kind \in Kinds, Send(t, kind)
    PROVE  SessionInv'
<1>1. TypeOK /\ TokensIssued
    BY DEF SessionInv
<1>2. Token(t) \in Tokens /\ Token(t) <= issued
    BY <1>1, BrowserAssumption DEF Token, TypeOK, TokensIssued
<1> DEFINE new == [tab |-> t, kind |-> kind, token |-> Token(t), answer |-> "none"]
<1>3. new \in Request
    BY <1>2 DEF Request
<1>4. requests' = requests \cup {new} /\ UNCHANGED <<serverVars, stored, tabVars>>
    BY DEF Send
<1>5. TypeOK'
    BY <1>1, <1>3, <1>4 DEF TypeOK, serverVars, tabVars
<1>6. QED
    BY <1>1, <1>2, <1>4, <1>5, TabStep DEF TokensIssued

(* Steps of the server: one request is replaced by its next state. *)
LEMMA ServerStep ==
    ASSUME SessionInv, NEW r \in requests, NEW next \in Request,
           Answer(r, next), UNCHANGED <<stored, tabVars>>,
           tokenHash' \in Tokens, issued' \in Tokens, expired' \in BOOLEAN,
           \/ UNCHANGED serverVars
           \/ issued' = issued + 1 /\ tokenHash' = issued + 1
           \/ tokenHash' = 0 /\ issued' = issued
           \/ UNCHANGED <<tokenHash, issued>> /\ expired' = TRUE,
           next.token <= issued', Sound(next)'
    PROVE  SessionInv'
<1>1. TypeOK /\ tokenHash <= issued
    BY InvBySound
<1>2. requests' \subseteq requests \cup {next}
    BY DEF Answer
<1>3. TypeOK'
    BY <1>1, <1>2 DEF TypeOK, tabVars
<1>4. issued <= issued' /\ tokenHash' <= issued'
    BY <1>1, BoundAssumption DEF TypeOK, Tokens, serverVars
<1>5. \A b \in Browsers : stored'[b] <= issued'
    BY <1>1, <1>4, InvBySound, BoundAssumption DEF TypeOK, Tokens
<1>6. ASSUME NEW q \in requests PROVE q.token <= issued' /\ Sound(q)'
    <2>1. q.token \in Tokens /\ q.token <= issued /\ Sound(q)
        BY <1>1, InvBySound DEF TypeOK, Request
    <2>2. ~Live(q.token) => ~Live(q.token)'
        BY <1>1, <2>1, DeadStaysDead
    <2>3. q.token <= issued'
        BY <1>1, <1>3, <1>4, <2>1, BoundAssumption DEF TypeOK, Tokens
    <2>4. QED
        BY <2>1, <2>2, <2>3 DEF Sound
<1>7. QED
    BY <1>2, <1>3, <1>4, <1>5, <1>6, InvBySound
    DEF SessionInv, TokensIssued, RefusalsFinal, LoggedOutIsOut, Sound

LEMMA HandlingStep ==
    ASSUME SessionInv, NEW r \in requests,
           \/ Authenticate(r) \/ RefuseLogin(r) \/ IssueToken(r)
           \/ LogoutUser(r) \/ ServiceAnswers(r) \/ ServiceRefuses(r) \/ Fail(r)
    PROVE  SessionInv'
<1>1. TypeOK /\ tokenHash <= issued /\ r \in Request /\ r.token <= issued /\ Sound(r)
    BY InvBySound DEF TypeOK
<1>2. r.token \in Tokens /\ r.kind \in Kinds /\ issued \in Tokens
    BY <1>1 DEF Request, TypeOK
<1>3. CASE Authenticate(r)
    <2>1. PICK next \in Request :
              /\ Answer(r, next)
              /\ next.token = r.token /\ next.kind = r.kind
              /\ next.answer = "refused" => ~Live(r.token)
              /\ ~(next.answer = "ok" /\ next.kind = "logout")
        BY <1>1, <1>3 DEF Authenticate, Request
    <2>2. UNCHANGED <<serverVars, stored, tabVars>>
        BY <1>3 DEF Authenticate
    <2>3. Sound(next)'
        BY <2>1, <2>2 DEF Sound, Live, serverVars
    <2>4. QED
        BY <1>1, <1>2, <2>1, <2>2, <2>3, ServerStep DEF serverVars, TypeOK
<1>4. CASE RefuseLogin(r)
    <2> DEFINE next == [r EXCEPT !.answer = "refused"]
    <2>1. next \in Request /\ next.token = r.token /\ next.kind = "login" /\ Sound(next)'
        BY <1>1, <1>4 DEF Request, RefuseLogin, Sound
    <2>2. Answer(r, next) /\ UNCHANGED <<serverVars, stored, tabVars>>
        BY <1>4 DEF RefuseLogin
    <2>3. QED
        BY <1>1, <1>2, <2>1, <2>2, ServerStep DEF serverVars, TypeOK
<1>5. CASE IssueToken(r)
    <2>1. issued + 1 \in Tokens
        BY <1>2, <1>5, BoundAssumption DEF IssueToken, Tokens
    <2>2. PICK next \in Request :
              /\ Answer(r, next)
              /\ next.token = issued + 1 /\ next.kind = "login" /\ next.answer = "ok"
        <3> DEFINE new == [r EXCEPT !.answer = "ok", !.token = issued + 1]
        <3>1. new \in Request /\ new.token = issued + 1 /\ new.kind = r.kind
              /\ new.answer = "ok"
            BY <1>1, <2>1 DEF Request
        <3>2. Answer(r, new) /\ r.kind = "login"
            BY <1>5 DEF IssueToken
        <3> HIDE DEF new
        <3>3. QED
            BY <3>1, <3>2
    <2>3. Sound(next)'
        BY <2>2 DEF Sound
    <2>4. /\ UNCHANGED <<stored, tabVars>>
          /\ issued' = issued + 1 /\ tokenHash' = issued + 1 /\ expired' = FALSE
        BY <1>5 DEF IssueToken
    <2>5. next.token <= issued'
        BY <1>2, <2>2, <2>4 DEF Tokens
    <2>6. tokenHash' \in Tokens /\ issued' \in Tokens /\ expired' \in BOOLEAN
        BY <2>1, <2>4
    <2>7. QED
        BY <2>2, <2>3, <2>4, <2>5, <2>6, ServerStep
<1>6. CASE LogoutUser(r)
    <2> DEFINE next == [r EXCEPT !.answer = "ok"]
    <2>1. next \in Request /\ next.token = r.token /\ next.answer = "ok"
        BY <1>1 DEF Request
    <2>2. /\ Answer(r, next) /\ UNCHANGED <<stored, tabVars>>
          /\ issued' = issued /\ tokenHash' = 0 /\ expired' = FALSE
        BY <1>6 DEF LogoutUser
    <2>3. Sound(next)'
        BY <2>1, <2>2 DEF Sound, Live
    <2>4. 0 \in Tokens
        BY BoundAssumption DEF Tokens
    <2>5. QED
        BY <1>1, <1>2, <2>1, <2>2, <2>3, <2>4, ServerStep
<1>7. CASE Fail(r)
    <2> DEFINE next == [r EXCEPT !.answer = "failed"]
    <2>1. next \in Request /\ next.token = r.token /\ next.answer = "failed" /\ Sound(next)'
        BY <1>1 DEF Request, Sound
    <2>2. Answer(r, next) /\ UNCHANGED <<serverVars, stored, tabVars>>
        BY <1>7 DEF Fail
    <2>3. QED
        BY <1>1, <1>2, <2>1, <2>2, ServerStep DEF serverVars, TypeOK
<1>8. CASE ServiceAnswers(r) \/ ServiceRefuses(r)
    <2>1. PICK answer \in {"ok", "unauthorized"} : Answer(r, [r EXCEPT !.answer = answer])
        BY <1>8 DEF ServiceAnswers, ServiceRefuses
    <2> DEFINE next == [r EXCEPT !.answer = answer]
    <2>2. r.kind = "forward" /\ UNCHANGED <<serverVars, stored, tabVars>>
        BY <1>8 DEF ServiceAnswers, ServiceRefuses
    <2>3. /\ next \in Request /\ next.token = r.token /\ next.kind = "forward"
          /\ next.answer \in {"ok", "unauthorized"}
        BY <1>1, <2>2 DEF Request
    <2>4. Sound(next)'
        BY <2>3 DEF Sound
    <2>5. QED
        BY <1>1, <1>2, <2>1, <2>2, <2>3, <2>4, ServerStep DEF serverVars, TypeOK
<1>9. QED
    BY <1>3, <1>4, <1>5, <1>6, <1>7, <1>8

LEMMA TimeOutStep ==
    ASSUME SessionInv, NEW r \in requests, TimeOut(r)
    PROVE  SessionInv'
<1>1. TypeOK /\ TokensIssued /\ r \in Request
    BY DEF SessionInv, TypeOK
<1> DEFINE orphan == [r EXCEPT !.tab = None]
           failed == [r EXCEPT !.answer = "failed"]
<1>2. requests' \subseteq requests \cup {orphan, failed}
    BY DEF TimeOut, Orphaned
<1>3. /\ orphan \in Request /\ failed \in Request
      /\ orphan.kind = r.kind /\ orphan.token = r.token /\ orphan.answer = r.answer
      /\ failed.answer = "failed" /\ failed.token = r.token
    BY <1>1 DEF Request
<1>4. UNCHANGED <<serverVars, stored, tabVars>>
    BY DEF TimeOut
<1>5. TypeOK'
    BY <1>1, <1>2, <1>3, <1>4 DEF TypeOK, serverVars, tabVars
<1>6. QED
    BY <1>1, <1>2, <1>3, <1>4, <1>5, TabStep DEF TokensIssued

LEMMA ReceiveStep ==
    ASSUME SessionInv, NEW r \in requests, Receive(r)
    PROVE  SessionInv'
<1>1. /\ TypeOK /\ TokensIssued /\ r \in Request
      /\ r.tab \in Tabs /\ r.token \in Tokens /\ r.token <= issued
      /\ 0 \in Tokens /\ 0 <= issued
    BY BoundAssumption DEF SessionInv, TypeOK, TokensIssued, Receive, Request, Tokens
<1>2. \A q \in requests' : q \in Request /\ \E o \in requests :
          o.kind = q.kind /\ o.token = q.token /\ o.answer = q.answer
    BY <1>1, AbandonKeeps DEF Receive, Refused, LoggedIn, LoggedOut, Shown, ToLogin, TypeOK
<1>3. /\ stored' \in [Browsers -> Tokens]
      /\ \A b \in Browsers : stored'[b] <= issued
      /\ UNCHANGED serverVars
    BY <1>1 DEF Receive, Refused, LoggedIn, LoggedOut, Shown, SetStored, TypeOK, TokensIssued
<1>4. TypeOK'
    <2>1. CASE Refused(r)
        BY <1>1, <1>2, <1>3, <2>1 DEF Refused, ToLogin, TypeOK, serverVars, tabVars
    <2>2. CASE LoggedIn(r)
        <3>1. Target(r.tab) \in Pages \cup {Login}
            BY <1>1, PagesAssumption DEF Target, TypeOK
        <3>2. QED
            BY <1>1, <1>2, <1>3, <2>2, <3>1 DEF LoggedIn, TypeOK, serverVars
    <2>3. CASE LoggedOut(r)
        BY <1>1, <1>2, <1>3, <2>3 DEF LoggedOut, ToLogin, TypeOK, serverVars
    <2>4. CASE Shown(r)
        BY <1>1, <1>2, <1>3, <2>4 DEF Shown, TypeOK, serverVars, tabVars
    <2>5. QED
        BY <2>1, <2>2, <2>3, <2>4 DEF Receive
<1>5. QED
    BY <1>2, <1>3, <1>4, TabStep DEF serverVars

LEMMA ExpireStep ==
    ASSUME SessionInv, Expire
    PROVE  SessionInv'
<1>1. TypeOK'
    BY DEF SessionInv, TypeOK, Expire, tabVars
<1>2. QED
    BY <1>1 DEF SessionInv, TokensIssued, RefusalsFinal, LoggedOutIsOut, Live, Expire

(* A token refused by the middleware is dead, and so is one that was       *)
(* logged out, for any number of tabs, browsers and logins.                *)
THEOREM SessionsAreSound == Spec => []SessionInv
<1>1. Init => SessionInv
    <2>1. 0 \in Tokens
        BY BoundAssumption DEF Tokens
    <2>2. Init => TypeOK
        BY <2>1, PagesAssumption DEF Init, TypeOK
    <2>3. Init => TokensIssued /\ RefusalsFinal /\ LoggedOutIsOut
        BY DEF Init, TokensIssued, RefusalsFinal, LoggedOutIsOut
    <2>4. QED
        BY <2>2, <2>3 DEF SessionInv
<1>2. SessionInv /\ [Next]_vars => SessionInv'
    <2> SUFFICES ASSUME SessionInv, [Next]_vars PROVE SessionInv'
        OBVIOUS
    <2>1. ASSUME NEW t \in Tabs, \/ Poll(t) \/ Read(t) \/ Forward(t)
                             \/ SubmitLogin(t) \/ ClickLogout(t)
          PROVE  SessionInv'
        <3>1. PICK kind \in Kinds : Send(t, kind)
            BY <2>1 DEF Poll, Read, Forward, SubmitLogin, ClickLogout, Kinds
        <3>2. QED
            BY <3>1, SendStep
    <2>2. CASE UNCHANGED vars
        BY <2>2 DEF vars, serverVars, tabVars, SessionInv, TypeOK, TokensIssued,
           RefusalsFinal, LoggedOutIsOut, Live
    <2>3. QED
        BY <2>1, <2>2, NavigationStep, HandlingStep, TimeOutStep, ReceiveStep, ExpireStep
        DEF Next
<1>3. QED
    BY <1>1, <1>2, PTL DEF Spec

(* When the middleware answers 401, the token of the call is dead and      *)
(* stays dead until the answer has arrived, whatever logins come meanwhile *)
(* (server.js, issueToken).  The service's 401 is another matter: it is    *)
(* passed on about a token that may well be live.                          *)
THEOREM RefusalsAreFinal == Spec => []RefusalsFinal
<1>1. SessionInv => RefusalsFinal
    BY DEF SessionInv
<1>2. QED
    BY <1>1, SessionsAreSound, PTL

(* A logout answered with success has ended the session it was sent for    *)
(* (logoutUser clears the row whatever token it holds by then).            *)
THEOREM LogoutsHold == Spec => []LoggedOutIsOut
<1>1. SessionInv => LoggedOutIsOut
    BY DEF SessionInv
<1>2. QED
    BY <1>1, SessionsAreSound, PTL
-----------------------------------------------------------------------------
(* What a tab on the login page remembers, in its location.state or its    *)
(* sessionStorage, is the page it lost.                                    *)
LeftIsTarget == \A t \in Tabs : left[t] # None => Target(t) = left[t]

LEMMA EnterKeeps ==
    ASSUME TypeOK, LeftIsTarget, NEW t \in Tabs, NEW p \in Pages \cup {Login},
           Enter(t, p), UNCHANGED back
    PROVE  LeftIsTarget'
<1>1. ASSUME NEW q \in Tabs, left'[q] # None
      PROVE  Target(q)' = left'[q]
    <2>1. CASE q = t
        BY <1>1, <2>1 DEF Enter, Target, TypeOK
    <2>2. CASE q # t
        <3>1. from'[q] = from[q] /\ left'[q] = left[q] /\ back'[q] = back[q]
            BY <2>2 DEF Enter, TypeOK
        <3>2. QED
            BY <1>1, <3>1 DEF LeftIsTarget, Target
    <2>3. QED
        BY <2>1, <2>2
<1>2. QED
    BY <1>1 DEF LeftIsTarget

(* An answer changes the memory of its own tab only. *)
LEMMA ReceiveKeepsOrigin ==
    ASSUME TypeOK, LeftIsTarget, NEW r \in requests, Receive(r)
    PROVE  /\ LeftIsTarget'
           /\ \A q \in Tabs \ {r.tab} : left'[q] = left[q]
<1>1. r \in Request /\ r.tab \in Tabs
    BY DEF TypeOK, Receive, Request
<1>2. CASE UNCHANGED tabVars
    <2>1. UNCHANGED <<from, back, left>>
        BY <1>2 DEF tabVars
    <2>2. QED
        BY <2>1 DEF LeftIsTarget, Target
<1>3. CASE Refused(r) /\ path[r.tab] # Login
    <2>1. /\ from' = [from EXCEPT ![r.tab] = None]
          /\ back' = [back EXCEPT ![r.tab] = path[r.tab]]
          /\ left' = [left EXCEPT ![r.tab] = path[r.tab]]
        BY <1>3 DEF Refused, ToLogin
    <2>2. path[r.tab] # None
        BY <1>1, PagesAssumption DEF TypeOK
    <2>3. QED
        BY <1>1, <2>1, <2>2 DEF LeftIsTarget, Target, TypeOK
<1>4. CASE LoggedIn(r) \/ LoggedOut(r)
    <2>1. /\ left' = [left EXCEPT ![r.tab] = None]
          /\ from' = [from EXCEPT ![r.tab] = None]
          /\ \A q \in Tabs \ {r.tab} : back'[q] = back[q]
        BY <1>4 DEF LoggedIn, LoggedOut, ToLogin, TypeOK
    <2>2. QED
        BY <1>1, <2>1 DEF LeftIsTarget, Target, TypeOK
<1>5. QED
    BY <1>2, <1>3, <1>4 DEF Receive, Refused, Shown

LEMMA LeftStep ==
    ASSUME TypeOK, LeftIsTarget, [Next]_vars PROVE LeftIsTarget'
<1>1. CASE UNCHANGED tabVars
    <2>1. UNCHANGED <<from, back, left>>
        BY <1>1 DEF tabVars
    <2>2. QED
        BY <2>1 DEF LeftIsTarget, Target
<1>2. ASSUME NEW t \in Tabs, NEW p \in Pages \cup {Login}, Open(t, p) \/ Follow(t, p)
      PROVE  LeftIsTarget'
    BY <1>2, EnterKeeps DEF Open, Follow
<1>3. ASSUME NEW r \in requests, Receive(r) PROVE LeftIsTarget'
    BY <1>3, ReceiveKeepsOrigin
<1>4. \/ UNCHANGED tabVars
      \/ \E t \in Tabs, p \in Pages \cup {Login} : Open(t, p) \/ Follow(t, p)
      \/ \E r \in requests : Receive(r)
    BY DEF Next, vars, Reload, Poll, Read, Forward, SubmitLogin, ClickLogout, Send,
           Authenticate, RefuseLogin, IssueToken, LogoutUser, ServiceAnswers, ServiceRefuses,
           Fail, TimeOut, Expire
<1>5. QED
    BY <1>1, <1>2, <1>3, <1>4

(* A login that gives the browser a new token leads the tab back to the    *)
(* page it lost to RequireAuth or to a 401, for any number of tabs,        *)
(* refusals and detours (LoginPage.submit, the interceptor in api.ts).     *)
THEOREM LoginsLeadBack == Spec => LoginLeadsBack
<1> DEFINE Back(t) == (/\ path[t] = Login /\ left[t] # None /\ left'[t] = None
                       /\ stored'[BrowserOf[t]] \notin {0, Token(t)})
                          => path'[t] = left[t]
<1>1. Init => LeftIsTarget
    BY DEF Init, LeftIsTarget
<1>2. SessionInv => TypeOK
    BY DEF SessionInv
<1>3. ASSUME TypeOK, LeftIsTarget, [Next]_vars, NEW t \in Tabs PROVE Back(t)
    <2>1. SUFFICES ASSUME left[t] # None, left'[t] = None,
                          stored'[BrowserOf[t]] \notin {0, stored[BrowserOf[t]]}
                   PROVE  path'[t] = left[t]
        BY DEF Token
    <2>2. PICK r \in requests : Receive(r)
        BY <1>3, <2>1
        DEF Next, vars, Open, Follow, Reload, Poll, Read, Forward, SubmitLogin, ClickLogout,
            Send, Authenticate, RefuseLogin, IssueToken, LogoutUser, ServiceAnswers,
            ServiceRefuses, Fail, TimeOut, Expire
    <2>3. r.tab = t
        BY <1>3, <2>1, <2>2, ReceiveKeepsOrigin
    <2>4. LoggedIn(r)
        BY <1>3, <2>1, <2>2, <2>3, BrowserAssumption
        DEF Receive, Refused, LoggedOut, Shown, SetStored, TypeOK
    <2>5. QED
        BY <1>3, <2>1, <2>3, <2>4 DEF LoggedIn, LeftIsTarget, TypeOK
<1>4. TypeOK /\ LeftIsTarget /\ [Next]_vars => [\A t \in Tabs : Back(t)]_vars
    BY <1>3
<1>5. TypeOK /\ LeftIsTarget /\ [Next]_vars => LeftIsTarget'
    BY LeftStep
<1>6. QED
    BY <1>1, <1>2, <1>4, <1>5, SessionsAreSound, PTL DEF Spec, LoginLeadsBack
=============================================================================

------------------------------- MODULE SignIn -------------------------------
(***************************************************************************)
(* A browser tab of the dashboard that signs in to the proxy, stays signed *)
(* in and signs out, against the account of LocalAuth.                     *)
(*                                                                         *)
(* The tabs of a browser share the session cookie; each has its own CSRF   *)
(* token and status.  A call takes the cookie with it when it is sent, the *)
(* proxy serves it, and its answer may come back in any order, or never.   *)
(* What the other tabs do is one step each.                                *)
(***************************************************************************)
EXTENDS LocalAuth, Bags

CONSTANTS
    MaxCalls     \* calls under way when another is sent, but for those a page sends by itself

VARIABLES
    cookie,     \* govyn_session, of the whole browser; that it drops the cookie when
                \* the session's time is over makes no difference to what is said of it here
    tab,        \* its proxy, status and CSRF token
    calls,      \* the calls under way, a bag
    belied      \* history: the cookie has changed since the tab last asked

signInVars == <<file, password, given, entry, wrong, cookie, tab, calls, belied>>

-----------------------------------------------------------------------------
\* AuthStatus; "hasUrl" says that the tab knows the address of a proxy.
Tab == [hasUrl : BOOLEAN, token : Ids \cup {NoId},
        status : {"loading", "needs_proxy", "unconfigured", "unauthenticated", "authenticated"}]

\* "page" is the call a page makes every ten seconds.
Kinds == {"session", "login", "logout", "password", "page"}

\* A call is "sent", for a change of password "admitted" while its body arrives, and
\* then answered, perhaps with the id of a session.  Of a page's call only its sending
\* and its end are told apart.
Call == [kind : Kinds, cookie : Ids \cup {NoId}, token : Ids \cup {NoId},
         state : {"sent", "admitted", "signedIn", "signedOut", "unconfigured",
                  "done", "refused"},
         id : Ids \cup {NoId}]

TypeOK ==
    /\ AuthTypeOK
    /\ cookie \in Ids \cup {NoId}
    /\ tab \in Tab
    /\ IsABag(calls) /\ BagToSet(calls) \subseteq Call
    /\ belied \in BOOLEAN

With(bag, c) == bag (+) SetToBag({c})

Without(bag, c) == bag (-) SetToBag({c})

OfUser(c) == c.kind # "page"

AtRest == \A c \in BagToSet(calls) : ~OfUser(c)

UnderWay(kind) == \E c \in BagToSet(calls) : c.kind = kind

\* The ids nobody has.  A random one is any of them.
Fresh ==
    Ids \ ({cookie, tab.token}
             \cup (IF isConfigured THEN {s.id : s \in file} ELSE {})
             \cup UNION {{c.cookie, c.token, c.id} : c \in BagToSet(calls)})

NewId == CHOOSE id \in Ids : id \in Fresh

-----------------------------------------------------------------------------
(* Sending.                                                                  *)

\* apiFetch: the browser adds the cookie, and the client the token to what is no GET;
\* signing in looks at neither.
Sent(kind) ==
    [kind |-> kind,
     cookie |-> IF kind = "login" THEN NoId ELSE cookie,
     token |-> IF kind \in {"logout", "password"} THEN tab.token ELSE NoId,
     state |-> "sent", id |-> NoId]

Room == BagCardinality(calls) - Cardinality({c \in BagToSet(calls) : ~OfUser(c)}) < MaxCalls

\* A tab that asks with nothing under way learns the cookie as it is.
Asked == belied' = (belied /\ ~AtRest)

\* refreshSession.
Refreshed(rest) ==
    /\ calls' = With(rest, Sent("session"))
    /\ tab' = [tab EXCEPT !.status = "loading", !.hasUrl = TRUE]

\* setProxyUrl with another address: the effect asks for the session there.
SetProxyUrl ==
    /\ Room
    /\ Refreshed(calls)
    /\ Asked
    /\ UNCHANGED <<authVars, cookie>>

\* handleLogin of the form of AuthGate, which is there in one status only; with
\* the address edited, the effect of setProxyUrl sends a second call.
Login(edited) ==
    /\ tab.status = "unauthenticated"
    /\ ~UnderWay("login") /\ Fresh # {}
    /\ Room
    /\ calls' = LET logging == With(calls, Sent("login"))
                IN  IF edited THEN With(logging, Sent("session")) ELSE logging
    /\ tab' = [tab EXCEPT !.status = "loading"]
    /\ Asked
    /\ UNCHANGED <<authVars, cookie>>

\* The menu, the settings page, and the page that refreshes itself.
FromPage(kind) ==
    /\ tab.status = "authenticated"
    /\ calls' = With(calls, Sent(kind))
    /\ UNCHANGED <<authVars, cookie, tab, belied>>

SignOut == Room /\ FromPage("logout")

ChangesPassword == Room /\ FromPage("password")

Poll == ~UnderWay("page") /\ FromPage("page")

-----------------------------------------------------------------------------
(* Serving: what the proxy does with a call.                                 *)

\* From here on only the answer counts.
Answered(c, state, id) ==
    calls' = With(Without(calls, c),
                    [kind |-> c.kind, cookie |-> NoId, token |-> NoId, state |-> state, id |-> id])

Waiting(c, kind) == c.kind = kind /\ c.state = "sent"

OnlyServes == UNCHANGED <<cookie, tab, belied>>

ServeSession(c) ==
    /\ Waiting(c, "session")
    /\ IF ~isConfigured THEN Answered(c, "unconfigured", NoId)
       ELSE IF getSession(c.cookie) THEN Answered(c, "signedIn", c.cookie)
       ELSE Answered(c, "signedOut", NoId)
    /\ Asks(c.cookie)
    /\ OnlyServes /\ UNCHANGED limiterVars

ServeLogin(c) ==
    /\ Waiting(c, "login")
    /\ \/ /\ (~isConfigured /\ UNCHANGED authVars) \/ LoginLimited \/ LoginFails
          /\ Answered(c, "refused", NoId)
       \/ LoginSucceeds(NewId) /\ Answered(c, "signedIn", NewId)
    /\ OnlyServes

\* Without a cookie, or without an account, there is nothing to end.
ServeLogout(c) ==
    /\ Waiting(c, "logout")
    /\ \/ /\ c.cookie = NoId \/ ~isConfigured
          /\ UNCHANGED authVars
          /\ Answered(c, "done", NoId)
       \/ /\ c.cookie # NoId /\ isConfigured
          /\ ~validateCsrfToken(c.cookie, c.token)
          /\ Asks(c.cookie) /\ UNCHANGED limiterVars
          /\ Answered(c, "refused", NoId)
       \/ /\ validateCsrfToken(c.cookie, c.token)
          /\ Logout(c.cookie)
          /\ Answered(c, "done", NoId)
    /\ OnlyServes

\* Session and token are checked before the body is there ...
ServePassword(c) ==
    /\ Waiting(c, "password")
    /\ IF validateCsrfToken(c.cookie, c.token)
       THEN calls' = With(Without(calls, c), [c EXCEPT !.state = "admitted"])
       ELSE Answered(c, "refused", NoId)
    /\ Asks(c.cookie)
    /\ OnlyServes /\ UNCHANGED limiterVars

\* ... and the session once more when it is.
ServeBody(c) ==
    /\ c.state = "admitted"
    /\ \/ /\ ChangePassword(c.cookie)
          /\ Answered(c, "done", NoId)
       \/ /\ ChangeRefused(c.cookie)
          /\ Answered(c, "refused", NoId)
    /\ OnlyServes

Serve(kind) ==
    \E c \in BagToSet(calls) :
        /\ c.kind = kind
        /\ \/ ServeSession(c) \/ ServeLogin(c) \/ ServeLogout(c)
           \/ ServePassword(c) \/ ServeBody(c)

-----------------------------------------------------------------------------
(* Answers.                                                                  *)

\* A call has settled.  A new cookie may belie what another call under way
\* is about to tell the tab.
Settled(c, newCookie) ==
    /\ calls' = Without(calls, c)
    /\ cookie' = newCookie
    /\ belied' = \/ belied
                 \/ newCookie # cookie /\ \E d \in BagToSet(Without(calls, c)) : OfUser(d)
    /\ UNCHANGED authVars

\* The tab takes on a status, and a token if it is signed in.
Shows(status, token) == tab' = [tab EXCEPT !.status = status, !.token = token]

\* Mutant: the token of the answer is not stored.
LearnSession_NoToken(c) ==
    \/ c.state = "signedIn" /\ Shows("authenticated", tab.token)
    \/ c.state = "signedOut" /\ Shows("unauthenticated", NoId)
    \/ c.state = "unconfigured" /\ Shows("unconfigured", NoId)

\* fetchAuthSession and what refreshSession makes of it.
LearnSession(c) ==
    \/ c.state = "signedIn" /\ Shows("authenticated", c.id)
    \/ c.state = "signedOut" /\ Shows("unauthenticated", NoId)
    \/ c.state = "unconfigured" /\ Shows("unconfigured", NoId)

SessionAnswered(c) ==
    /\ c.kind = "session"
    /\ LearnSession(c)
    /\ Settled(c, cookie)

LoginAnswered(c) ==
    /\ c.kind = "login"
    /\ \/ /\ c.state = "signedIn"
          /\ Shows("authenticated", c.id) /\ Settled(c, c.id)
       \/ /\ c.state = "refused"
          /\ Shows("unauthenticated", tab.token) /\ Settled(c, cookie)

\* Also after a 403 the tab counts as signed out; the cookie only goes with a 200.
LogoutAnswered(c) ==
    /\ c.kind = "logout"
    /\ c.state \in {"done", "refused"}
    /\ Shows("unauthenticated", NoId)
    /\ Settled(c, IF c.state = "done" THEN NoId ELSE cookie)

PasswordAnswered(c) ==
    /\ c.kind = "password"
    /\ \/ /\ c.state = "done"
          /\ Shows("unauthenticated", NoId) /\ Settled(c, NoId)
       \/ /\ c.state = "refused"
          /\ UNCHANGED tab /\ Settled(c, cookie)

\* Mutant: a 401 is an error of the page like any other.
Demands_Nothing(c) == FALSE

\* apiFetch: the answer, a 401, says that a sign-in is required.
Demands(c) == ~Admits(c.cookie)

\* govyn-auth-required: whatever the tab is doing, it asks for its session.  The call
\* may be served late, but its answer is there at once.
PageAnswered(c) ==
    /\ c.kind = "page"
    /\ IF Demands(c)
       THEN Refreshed(Without(calls, c)) /\ Asked
       ELSE calls' = Without(calls, c) /\ UNCHANGED <<tab, belied>>
    /\ Asks(c.cookie)
    /\ UNCHANGED <<limiterVars, cookie>>

Answer(kind) ==
    \E c \in BagToSet(calls) :
        /\ c.kind = kind
        /\ \/ SessionAnswered(c) \/ LoginAnswered(c) \/ LogoutAnswered(c)
           \/ PasswordAnswered(c) \/ PageAnswered(c)

\* The status after a call that failed.
AfterError(c) ==
    IF c.kind \in {"session", "login", "logout"} THEN "unauthenticated" ELSE tab.status

\* The connection breaks, before or after the proxy has served the call.  A page
\* whose call fails makes another: to this tab that is one call that takes longer.
Fails(c) ==
    /\ OfUser(c)
    /\ Shows(AfterError(c), IF c.kind = "logout" THEN NoId ELSE tab.token)
    /\ Settled(c, cookie)

-----------------------------------------------------------------------------
\* The tab, loaded before, is reloaded: its token survives, its calls do not.
Reload ==
    /\ tab.status # "loading"
    /\ IF tab.hasUrl
       THEN Refreshed(EmptyBag)
       ELSE Shows("needs_proxy", NoId) /\ calls' = EmptyBag
    /\ belied' = FALSE
    /\ UNCHANGED <<authVars, cookie>>

\* Another tab signs in or out, and the answer has come.  It leaves an id for a
\* sign-in under way.
OtherTab ==
    /\ \/ /\ \E id \in Fresh : id # NewId
          /\ LoginSucceeds(NewId)
          /\ cookie' = NewId
       \/ getSession(cookie) /\ Logout(cookie) /\ cookie' = NoId
    /\ belied' = TRUE
    /\ UNCHANGED <<tab, calls>>

Shell ==
    /\ SetupAdmin \/ ResetPassword
    /\ UNCHANGED <<cookie, tab, calls, belied>>

ProxyRestarts == Restart /\ UNCHANGED <<cookie, tab, calls, belied>>

Tick == AuthTick /\ UNCHANGED <<cookie, tab, calls, belied>>

Init ==
    /\ AuthInit
    /\ cookie = NoId
    /\ tab = [hasUrl |-> FALSE, status |-> "needs_proxy", token |-> NoId]
    /\ calls = EmptyBag
    /\ belied = FALSE

Next ==
    \/ SetProxyUrl \/ Login(TRUE) \/ Login(FALSE)
    \/ SignOut \/ ChangesPassword \/ Poll \/ Reload
    \/ \E kind \in Kinds : Serve(kind) \/ Answer(kind)
    \/ \E c \in BagToSet(calls) : Fails(c)
    \/ OtherTab \/ Shell \/ ProxyRestarts \/ Tick

Spec == Init /\ [][Next]_signInVars

\* What a page does by itself: it makes its call, and the call comes back.
Refreshes == Poll \/ Answer("page")

\* The answer to who is signed in is on its way.
AnswersTab == \E kind \in {"session", "login"} : Serve(kind) \/ Answer(kind)

\* The proxy serves, answers arrive, and an open page goes on refreshing itself;
\* people and the shell owe nothing.
FairSpec == Spec /\ WF_signInVars(Refreshes) /\ WF_signInVars(AnswersTab)

-----------------------------------------------------------------------------
\* A tab that shows itself signed in has the token that goes with the cookie, so that
\* its changes are accepted, also while calls of its own are under way: unless the
\* cookie has changed through another tab, or under such a call
\* (AuthContext.tsx:44-132, api-client.ts:223-299).
TokenFits ==
    tab.status = "authenticated" /\ ~belied => tab.token = cookie

\* A session that ends, by time, on the shell or through another tab, is noticed by
\* a tab whose page refreshes itself: whatever calls, errors and 401s overlap, it
\* comes to an end of its checks, signed out (api-client.ts:216-218, AuthContext.tsx:53-71).
EndNoticed ==
    tab.status = "authenticated" /\ isConfigured /\ ~getSession(cookie) ~>
        tab.status \notin {"authenticated", "loading"} \/ getSession(cookie)
=============================================================================

-------------------------- MODULE DashboardProofs --------------------------
(***************************************************************************)
(* Proofs about the dashboard.  About signing in, for any ids, lifetime    *)
(* and limits:                                                             *)
(*   - a session in the file was opened with the password in the file;     *)
(*   - the limiter bounds wrong passwords, wherever its windows fall;      *)
(*   - a tab that shows itself signed in has the token of the cookie.      *)
(* About its pages, for any texts and any number of calls under way:       *)
(*   - a page at rest that asked last and alone, and was not refused,      *)
(*     shows what the proxy has;                                           *)
(*   - nothing but a save takes edits out of the editor.                   *)
(***************************************************************************)
EXTENDS Pages, SignIn, Counting, TLAPS

\* SessionsOfPassword, and that the sessions are records, so that what the clock sets in
\* them is defined.
Valid(s) == s \in [id : {s.id}, left : {s.left}, of : {password}]
ValidSessions == isConfigured => \A s \in file : Valid(s)

-----------------------------------------------------------------------------
(* The handlers.                                                             *)

\* A handler saves no sessions but those it read, with the password it read.
LEMMA SavesStep ==
    ASSUME ValidSessions, isConfigured, NEW S \in SUBSET file, Saves(S)
    PROVE  ValidSessions'
    BY DEF ValidSessions, Valid, Saves

LEMMA CleanedStep ==
    ASSUME ValidSessions, isConfigured, Saves(Cleaned)
    PROVE  ValidSessions'
    BY SavesStep DEF Cleaned

LEMMA IdleStep ==
    ASSUME ValidSessions, UNCHANGED <<file, password>>
    PROVE  ValidSessions'
    BY DEF ValidSessions, isConfigured, Valid

LEMMA AsksStep ==
    ASSUME ValidSessions, NEW id, Asks(id)
    PROVE  ValidSessions'
<1>1. CASE isConfigured /\ id # NoId
    BY <1>1, CleanedStep DEF Asks
<1>2. CASE ~(isConfigured /\ id # NoId)
    BY <1>2, IdleStep DEF Asks, accountVars
<1> QED
    BY <1>1, <1>2

LEMMA NoneStep ==
    ASSUME file' = {}
    PROVE  ValidSessions'
    BY DEF ValidSessions

\* The session that is opened is of the password it is saved with.
LEMMA LoginSucceedsStep ==
    ASSUME ValidSessions, NEW id, LoginSucceeds(id)
    PROVE  ValidSessions'
<1> DEFINE opened == [id |-> id, left |-> Lifetime, of |-> password]
<1>1. \A s \in Cleaned : Valid(s)
    BY DEF LoginSucceeds, ValidSessions, Cleaned
<1>2. Valid(opened)
    BY DEF Valid
<1>3. file' = Cleaned \cup {opened} /\ password' = password
    BY DEF LoginSucceeds, Saves
<1> HIDE DEF opened
<1>4. \A s \in file' : Valid(s)
    BY <1>1, <1>2, <1>3
<1> QED
    BY <1>3, <1>4 DEF ValidSessions, Valid

LEMMA LogoutStep ==
    ASSUME ValidSessions, NEW id, isConfigured, Logout(id)
    PROVE  ValidSessions'
    BY SavesStep DEF Logout

\* The clock changes no more than the time a session has left.
LEMMA TickStep ==
    ASSUME ValidSessions, AuthTick
    PROVE  ValidSessions'
<1>1. CASE isConfigured
    <2>1. ASSUME NEW s \in file
          PROVE  Valid([s EXCEPT !.left = Elapsed(@)])
        <3> DEFINE m == Elapsed(s.left)
                   t == [s EXCEPT !.left = m]
        <3>1. s \in [id : {s.id}, left : {s.left}, of : {password}]
            BY <1>1 DEF ValidSessions, Valid
        <3>2. t \in [id : {s.id}, left : {m}, of : {password}]
            <4> HIDE DEF m
            <4> QED
                BY <3>1
        <3>3. t \in [id : {t.id}, left : {t.left}, of : {password}]
            <4> HIDE DEF t, m
            <4> QED
                BY <3>2
        <3> QED
            BY <3>3 DEF Valid
    <2>2. file' = {[s EXCEPT !.left = Elapsed(@)] : s \in file} /\ password' = password
        BY <1>1 DEF AuthTick
    <2> QED
        BY <2>1, <2>2 DEF ValidSessions, Valid
<1>2. CASE ~isConfigured
    BY <1>2, IdleStep DEF AuthTick
<1> QED
    BY <1>1, <1>2

-----------------------------------------------------------------------------
(* The proxy serves a call.                                                  *)

LEMMA ServeStep ==
    ASSUME ValidSessions, NEW kind, Serve(kind)
    PROVE  ValidSessions'
<1>1. PICK c \in BagToSet(calls) :
          \/ ServeSession(c) \/ ServeLogin(c) \/ ServeLogout(c)
          \/ ServePassword(c) \/ ServeBody(c)
    BY DEF Serve
<1>2. CASE ServeSession(c) \/ ServePassword(c)
    BY <1>2, AsksStep DEF ServeSession, ServePassword
<1>3. CASE ServeLogin(c)
    <2>1. CASE LoginLimited \/ (~isConfigured /\ (UNCHANGED authVars))
        BY <2>1, IdleStep DEF LoginLimited, authVars
    <2>2. CASE LoginFails
        BY <2>2, CleanedStep DEF LoginFails
    <2>3. CASE LoginSucceeds(NewId)
        BY <2>3, LoginSucceedsStep
    <2> QED
        BY <1>3, <2>1, <2>2, <2>3 DEF ServeLogin
<1>4. CASE ServeLogout(c)
    <2>1. CASE UNCHANGED authVars
        BY <2>1, IdleStep DEF authVars
    <2>2. CASE Asks(c.cookie)
        BY <2>2, AsksStep
    <2>3. CASE validateCsrfToken(c.cookie, c.token) /\ Logout(c.cookie)
        BY <2>3, LogoutStep DEF validateCsrfToken, getSession
    <2> QED
        BY <1>4, <2>1, <2>2, <2>3 DEF ServeLogout
<1>5. CASE ServeBody(c)
    <2>1. CASE ChangePassword(c.cookie)
        BY <2>1, NoneStep DEF ChangePassword, Renewed
    <2>2. CASE ChangeRefused(c.cookie)
        BY <2>2, CleanedStep, IdleStep DEF ChangeRefused, accountVars
    <2> QED
        BY <1>5, <2>1, <2>2 DEF ServeBody
<1> QED
    BY <1>1, <1>2, <1>3, <1>4, <1>5

\* Answers leave the file alone, but for the look at the session of a page's call.
LEMMA AnswerStep ==
    ASSUME ValidSessions, NEW kind, Answer(kind)
    PROVE  ValidSessions'
<1>1. PICK c \in BagToSet(calls) :
          \/ SessionAnswered(c) \/ LoginAnswered(c) \/ LogoutAnswered(c)
          \/ PasswordAnswered(c) \/ PageAnswered(c)
    BY DEF Answer
<1>2. CASE PageAnswered(c)
    BY <1>2, AsksStep DEF PageAnswered
<1>3. CASE SessionAnswered(c) \/ LoginAnswered(c) \/ LogoutAnswered(c) \/ PasswordAnswered(c)
    BY <1>3, IdleStep
       DEF SessionAnswered, LoginAnswered, LogoutAnswered, PasswordAnswered, Settled, authVars
<1> QED
    BY <1>1, <1>2, <1>3

LEMMA OtherTabStep ==
    ASSUME ValidSessions, OtherTab
    PROVE  ValidSessions'
    BY LoginSucceedsStep, LogoutStep DEF OtherTab, getSession

-----------------------------------------------------------------------------
(* Sessions end with their password.                                         *)

LEMMA Inductive == Spec => []ValidSessions
<1>1. Init => ValidSessions
    BY DEF Init, AuthInit, ValidSessions, isConfigured
<1>2. ValidSessions /\ [Next]_signInVars => ValidSessions'
    <2> SUFFICES ASSUME ValidSessions, [Next]_signInVars PROVE ValidSessions'
        OBVIOUS
    <2>1. CASE \E kind \in Kinds : Serve(kind) \/ Answer(kind)
        BY <2>1, ServeStep, AnswerStep
    <2>2. CASE \/ SetProxyUrl \/ Login(TRUE) \/ Login(FALSE)
               \/ SignOut \/ ChangesPassword \/ Poll \/ Reload
        BY <2>2, IdleStep
           DEF SetProxyUrl, Login, SignOut, ChangesPassword, Poll, FromPage, Reload, authVars
    <2>3. CASE \E c \in BagToSet(calls) : Fails(c)
        BY <2>3, IdleStep DEF Fails, Settled, authVars
    <2>4. CASE OtherTab
        BY <2>4, OtherTabStep
    <2>5. CASE Shell
        BY <2>5, NoneStep DEF Shell, SetupAdmin, ResetPassword, Renewed
    <2>6. CASE ProxyRestarts
        BY <2>6, IdleStep DEF ProxyRestarts, Restart, accountVars
    <2>7. CASE Tick
        BY <2>7, TickStep DEF Tick
    <2>8. CASE UNCHANGED signInVars
        BY <2>8, IdleStep DEF signInVars
    <2> QED
        BY <2>1, <2>2, <2>3, <2>4, <2>5, <2>6, <2>7, <2>8 DEF Next
<1> QED
    BY <1>1, <1>2, PTL DEF Spec

\* Whatever calls are under way when the password is changed in the dashboard or reset
\* on the shell, also between a handler's reading of the file and its writing, there is
\* no session in the file that another password has opened than the one that is there.
THEOREM SessionsEnd == Spec => []SessionsOfPassword
<1>1. ValidSessions => SessionsOfPassword
    BY DEF ValidSessions, Valid, SessionsOfPassword
<1> QED
    BY <1>1, Inductive, PTL

-----------------------------------------------------------------------------
(* Wrong passwords by their age, and the sums of the younger ones.           *)

Ages == 0..(AttemptWindow - 1)

Younger(n) == {a \in Ages : a < n}

\* The wrong passwords of the last n ticks.
Recent(w, n) == SumFunctionOnSet(w, Younger(n))

LEMMA Younger1 ==
    /\ \A n : IsFiniteSet(Younger(n))
    /\ Younger(0) = {}
    /\ \A n \in Ages : Younger(n + 1) = Younger(n) \cup {n} /\ n \notin Younger(n)
    /\ \A n \in Nat : n >= AttemptWindow => Younger(n) = Ages
    /\ AttemptWindow \in Nat /\ 0 \in Ages /\ Ages \subseteq Nat
<1>1. AttemptWindow \in Nat \ {0}
    BY AuthConstants
<1>2. AttemptWindow \in Nat /\ 0 \in Ages /\ Ages \subseteq Nat
    BY <1>1 DEF Ages
<1>3. \A n : IsFiniteSet(Younger(n))
    <2>1. 0 \in Int /\ AttemptWindow - 1 \in Int
        BY <1>1
    <2>2. IsFiniteSet(Ages)
        BY <2>1, FS_Interval DEF Ages
    <2>3. \A n : Younger(n) \subseteq Ages
        BY DEF Younger
    <2> QED
        BY <2>2, <2>3, FS_Subset
<1>4. \A n \in Nat : n >= AttemptWindow => Younger(n) = Ages
    <2>1. \A a \in Ages : a \in Nat /\ a < AttemptWindow
        BY <1>1 DEF Ages
    <2>2. \A n \in Nat : n >= AttemptWindow => \A a \in Ages : a < n
        BY <1>1, <2>1
    <2> QED
        BY <2>2, Zenon DEF Younger
<1>5. \A n \in Ages : Younger(n + 1) = Younger(n) \cup {n} /\ n \notin Younger(n)
    <2> SUFFICES ASSUME NEW n \in Ages
                 PROVE  Younger(n + 1) = Younger(n) \cup {n} /\ n \notin Younger(n)
        OBVIOUS
    <2>1. n \in Nat /\ \A a \in Ages : a < n + 1 <=> a < n \/ a = n
        BY <1>2
    <2>2. ~(n < n)
        BY <2>1
    <2> QED
        BY <2>1, <2>2 DEF Younger
<1>6. Younger(0) = {}
    <2>1. \A a \in Ages : ~(a < 0)
        BY <1>2
    <2> QED
        BY <2>1 DEF Younger
<1> QED
    BY <1>2, <1>3, <1>4, <1>5, <1>6

LEMMA RecentIs ==
    ASSUME NEW w \in [Ages -> Nat]
    PROVE  /\ \A n : Recent(w, n) \in Nat
           /\ Recent(w, 0) = 0
           /\ \A n \in Ages : Recent(w, n + 1) = Recent(w, n) + w[n]
           /\ \A n \in Nat : n >= AttemptWindow => Recent(w, n) = Recent(w, AttemptWindow)
           /\ \A n \in Nat : Recent(w, n) <= Recent(w, AttemptWindow)
<1>1. \A n : \A a \in Younger(n) : a \in Ages /\ w[a] \in Nat
    BY DEF Younger
<1>2. \A n : Recent(w, n) \in Nat
    BY <1>1, Younger1, SumType DEF Recent
<1>3. Recent(w, 0) = 0
    BY Younger1, SumNone DEF Recent
<1>4. ASSUME NEW n \in Ages PROVE Recent(w, n + 1) = Recent(w, n) + w[n]
    <2>1. w[n] \in Nat
        OBVIOUS
    <2> QED
        BY <1>1, <2>1, Younger1, SumAdd DEF Recent
<1>5. \A n \in Nat : n >= AttemptWindow => Recent(w, n) = Recent(w, AttemptWindow)
    <2>1. AttemptWindow \in Nat /\ AttemptWindow >= AttemptWindow
        BY Younger1
    <2> QED
        BY <2>1, Younger1 DEF Recent
<1>6. ASSUME NEW n \in Nat PROVE Recent(w, n) <= Recent(w, AttemptWindow)
    <2>1. AttemptWindow \in Nat /\ AttemptWindow >= AttemptWindow
        BY Younger1
    <2>2. Younger(AttemptWindow) = Ages /\ Younger(n) \in SUBSET Ages /\ IsFiniteSet(Ages)
        BY <2>1, Younger1 DEF Younger
    <2>3. \A a \in Ages : w[a] \in Nat
        OBVIOUS
    <2> QED
        BY <2>2, <2>3, SumLess DEF Recent
<1> QED
    BY <1>2, <1>3, <1>4, <1>5, <1>6

\* One more of them, just now.
LEMMA RecentMore ==
    ASSUME NEW w \in [Ages -> Nat], NEW v, v = [w EXCEPT ![0] = @ + 1]
    PROVE  /\ v \in [Ages -> Nat] /\ v[0] = w[0] + 1
           /\ \A n \in Nat \ {0} : Recent(v, n) = Recent(w, n) + 1
<1>1. v \in [Ages -> Nat] /\ v[0] = w[0] + 1 /\ \A a \in Ages \ {0} : v[a] = w[a]
    <2>1. w[0] \in Nat
        BY Younger1
    <2> QED
        BY <2>1, Younger1
<1>2. ASSUME NEW n \in Nat \ {0} PROVE Recent(v, n) = Recent(w, n) + 1
    <2> DEFINE R == Younger(n) \ {0}
    <2>1. Younger(n) = R \cup {0} /\ 0 \notin R /\ IsFiniteSet(R) /\ R \subseteq Ages \ {0}
        <3>1. 0 \in Younger(n)
            BY Younger1 DEF Younger
        <3>2. IsFiniteSet(R)
            <4>1. IsFiniteSet(Younger(n)) /\ R \subseteq Younger(n)
                BY Younger1
            <4> QED
                BY <4>1, FS_Subset
        <3>3. R \subseteq Ages \ {0}
            BY DEF Younger
        <3> QED
            BY <3>1, <3>2, <3>3
    <2> HIDE DEF R
    <2>2. \A a \in R : w[a] \in Nat /\ v[a] = w[a] /\ v[a] \in Nat
        BY <1>1, <2>1
    <2>3. w[0] \in Nat /\ v[0] \in Nat
        BY <1>1, Younger1
    <2>4. SumFunctionOnSet(w, R \cup {0}) = SumFunctionOnSet(w, R) + w[0]
        <3>1. IsFiniteSet(R) /\ 0 \notin R /\ w[0] \in Nat /\ \A a \in R : w[a] \in Nat
            BY <2>1, <2>2, <2>3
        <3> QED
            BY ONLY <3>1, SumAdd
    <2>5. SumFunctionOnSet(v, R \cup {0}) = SumFunctionOnSet(v, R) + v[0]
        <3>1. IsFiniteSet(R) /\ 0 \notin R /\ v[0] \in Nat /\ \A a \in R : v[a] \in Nat
            BY <2>1, <2>2, <2>3
        <3> QED
            BY ONLY <3>1, SumAdd
    <2>6. SumFunctionOnSet(v, R) = SumFunctionOnSet(w, R)
        BY <2>1, <2>2, SumSame
    <2>7. SumFunctionOnSet(w, R) \in Nat
        BY <2>1, <2>2, SumType
    <2> QED
        BY <1>1, <2>1, <2>3, <2>4, <2>5, <2>6, <2>7 DEF Recent
<1> QED
    BY <1>1, <1>2

\* All of them a tick older; the oldest leave.
LEMMA RecentOlder ==
    ASSUME NEW w \in [Ages -> Nat], NEW v, v = [a \in DOMAIN w |-> IF a = 0 THEN 0 ELSE w[a - 1]]
    PROVE  /\ v \in [Ages -> Nat] /\ v[0] = 0
           /\ \A n \in Ages : Recent(v, n + 1) = Recent(w, n)
           /\ Recent(v, AttemptWindow) <= Recent(w, AttemptWindow)
<1>1. \A a \in Ages : a \in Nat /\ (a # 0 => a - 1 \in Ages) /\ a + 1 \in Nat
    BY Younger1 DEF Ages
<1>2. /\ v \in [Ages -> Nat] /\ v[0] = 0
      /\ \A a \in Ages \ {0} : v[a] = w[a - 1]
    BY <1>1, Younger1
<1>3. \A n \in Ages : Recent(v, n + 1) = Recent(w, n)
    <2> DEFINE B == {n \in Ages : Recent(v, n + 1) # Recent(w, n)}
    <2>1. SUFFICES ASSUME B # {} PROVE FALSE
        OBVIOUS
    <2>2. PICK n \in B : \A m \in B : n <= m
        <3>1. B \in SUBSET Nat
            BY <1>1
        <3> HIDE DEF B
        <3> QED
            BY <2>1, <3>1, Least
    <2>3. n \in Ages /\ n \in Nat /\ Recent(v, n + 1) # Recent(w, n)
        BY <1>1
    <2>4. Recent(v, n + 1) = Recent(v, n) + v[n]
        BY <1>2, <2>3, RecentIs
    <2>5. CASE n = 0
        <3>1. Recent(v, 0) = 0 /\ Recent(w, 0) = 0
            BY <1>2, RecentIs
        <3> QED
            BY <1>2, <2>3, <2>4, <2>5, <3>1
    <2>6. CASE n # 0
        <3> DEFINE m == n - 1
        <3>1. m \in Ages /\ m \in Nat /\ n = m + 1 /\ ~(n <= m)
            BY <1>1, <2>3, <2>6
        <3> HIDE DEF m
        <3>2. Recent(v, n) = Recent(w, m)
            BY <2>2, <3>1
        <3>3. v[n] = w[m]
            BY <1>2, <2>3, <2>6 DEF m
        <3>4. Recent(w, n) = Recent(w, m) + w[m]
            BY <3>1, RecentIs
        <3> QED
            BY <2>3, <2>4, <3>2, <3>3, <3>4
    <2> QED
        BY <2>5, <2>6
<1>4. Recent(v, AttemptWindow) <= Recent(w, AttemptWindow)
    <2> DEFINE m == AttemptWindow - 1
    <2>1. m \in Ages /\ m \in Nat /\ AttemptWindow = m + 1
        BY AuthConstants DEF Ages
    <2> HIDE DEF m
    <2>2. Recent(v, AttemptWindow) = Recent(w, m)
        BY <1>3, <2>1
    <2> QED
        BY <2>1, <2>2, RecentIs
<1> QED
    BY <1>2, <1>3, <1>4

\* None at all.
LEMMA RecentNone ==
    NoneWrong \in [Ages -> Nat] /\ Recent(NoneWrong, AttemptWindow) = 0
<1>1. NoneWrong \in [Ages -> Nat] /\ \A a \in Ages : NoneWrong[a] = 0
    BY DEF NoneWrong, Ages
<1>2. \A a \in Younger(AttemptWindow) : NoneWrong[a] = 0
    BY <1>1 DEF Younger
<1> QED
    BY <1>1, <1>2, Younger1, SumZero DEF Recent
-----------------------------------------------------------------------------
(* The limiter.                                                              *)

LEMMA LimiterConstants ==
    /\ AttemptWindow \in Nat /\ BlockTime \in Nat /\ MaxAttempts \in Nat
    /\ AttemptWindow >= 1 /\ AttemptWindow <= BlockTime /\ MaxAttempts >= 2
    /\ NotBlocked \notin Nat /\ AttemptWindow \in Nat \ {0}
    BY AuthConstants

\* An entry counts every failure since its first, which is as old as the entry; of the
\* window before it the first failure, at least, is a window old, so that all but one
\* less than its count are left.
OpenEntry(e, w) ==
    /\ e.count + 1 <= MaxAttempts
    /\ e.age < AttemptWindow =>
          /\ Recent(w, e.age) + 1 <= e.count
          /\ Recent(w, e.age + 1) <= e.count
          /\ Recent(w, AttemptWindow) + 2 <= Recent(w, e.age + 1) + MaxAttempts
    /\ e.age >= AttemptWindow => Recent(w, AttemptWindow) + 1 <= e.count
    /\ e.age > AttemptWindow => w[0] = 0

\* During a block nothing fails.
BlockedEntry(e, w) ==
    /\ Recent(w, AttemptWindow) + 2 <= 2 * MaxAttempts
    /\ Recent(w, BlockTime - e.blocked) = 0

Bounded(e, w) ==
    /\ w \in [Ages -> Nat]
    /\ e = NoEntry => Recent(w, AttemptWindow) = 0
    /\ e # NoEntry => /\ e \in Entry
                      /\ e.blocked = NotBlocked => OpenEntry(e, w)
                      /\ e.blocked # NotBlocked => BlockedEntry(e, w)

LEMMA EntryType ==
    /\ NoEntry \notin Entry
    /\ \A e \in Entry : /\ e.count \in Nat /\ e.age \in Nat /\ e.age <= AttemptWindow + 1
                        /\ e.blocked # NotBlocked => e.blocked \in Nat /\ e.blocked <= BlockTime
<1>1. Entry \subseteq [count : Nat, age : Nat, blocked : Nat \cup {NotBlocked}]
    BY AuthConstants DEF Entry
<1>2. NoEntry \notin Entry
    BY <1>1, AuthConstants
<1> QED
    BY <1>2, LimiterConstants DEF Entry

LEMMA MadeEntry ==
    ASSUME NEW c \in Nat, NEW a \in Nat, a <= AttemptWindow + 1,
           NEW b, b = NotBlocked \/ (b \in Nat /\ b <= BlockTime)
    PROVE  [count |-> c, age |-> a, blocked |-> b] \in Entry
    BY LimiterConstants DEF Entry

LEMMA ResetBounded == Bounded(NoEntry, NoneWrong)
    BY RecentNone DEF Bounded

\* A window begins.
LEMMA FirstBounded ==
    ASSUME NEW w \in [Ages -> Nat], w[0] = 0, Recent(w, AttemptWindow) + 2 <= MaxAttempts,
           NEW v, v = [w EXCEPT ![0] = @ + 1]
    PROVE  Bounded([count |-> 1, age |-> 0, blocked |-> NotBlocked], v)
<1> DEFINE e == [count |-> 1, age |-> 0, blocked |-> NotBlocked]
<1>1. e \in Entry /\ e.count = 1 /\ e.age = 0 /\ e.blocked = NotBlocked
    BY LimiterConstants, MadeEntry
<1> HIDE DEF e
<1>2. v \in [Ages -> Nat] /\ v[0] = 1 /\ Recent(v, AttemptWindow) = Recent(w, AttemptWindow) + 1
    <2>1. /\ v \in [Ages -> Nat] /\ v[0] = w[0] + 1
          /\ \A n \in Nat \ {0} : Recent(v, n) = Recent(w, n) + 1
        BY RecentMore
    <2> QED
        BY ONLY <2>1, LimiterConstants, w[0] = 0
<1>3. Recent(v, 0) = 0 /\ Recent(v, 0 + 1) = Recent(v, 0) + v[0]
    BY <1>2, RecentIs, Younger1
<1>4. Recent(w, AttemptWindow) \in Nat
    BY RecentIs
<1>5. OpenEntry(e, v)
    BY <1>1, <1>2, <1>3, <1>4, LimiterConstants DEF OpenEntry
<1> QED
    BY <1>1, <1>2, <1>5, EntryType DEF Bounded, e

LEMMA FailureBounded ==
    ASSUME Bounded(entry, wrong), ~Limited, NEW v, v = [wrong EXCEPT ![0] = @ + 1]
    PROVE  Bounded(Failed, v)
<1> DEFINE T == Recent(wrong, AttemptWindow)
<1>1. wrong \in [Ages -> Nat]
    BY DEF Bounded
<1>2. /\ v \in [Ages -> Nat] /\ v[0] = wrong[0] + 1
      /\ \A n \in Nat \ {0} : Recent(v, n) = Recent(wrong, n) + 1
    BY <1>1, RecentMore
<1>3. T \in Nat /\ (\A n : Recent(wrong, n) \in Nat) /\ wrong[0] \in Nat
    BY <1>1, RecentIs, Younger1
<1>4. T = 0 => wrong[0] = 0
    <2>1. Recent(wrong, 0) = 0 /\ Recent(wrong, 0 + 1) = Recent(wrong, 0) + wrong[0]
          /\ Recent(wrong, 0 + 1) <= T
        BY <1>1, RecentIs, Younger1
    <2> QED
        BY <1>3, <2>1
<1> HIDE DEF T
<1>5. CASE Current = NoEntry
    <2>1. T = 0
        <3>1. CASE entry = NoEntry
            BY <3>1 DEF Bounded, T
        <3>2. CASE entry # NoEntry
            <4>1. entry.blocked = 0 /\ entry.blocked # NotBlocked
                BY <1>5, <3>2, LimiterConstants DEF Current
            <4>2. Recent(wrong, BlockTime - 0) = 0 /\ BlockTime - 0 = BlockTime
                BY <3>2, <4>1, LimiterConstants DEF Bounded, BlockedEntry
            <4>3. Recent(wrong, BlockTime) = T
                BY <1>1, LimiterConstants, RecentIs DEF T
            <4> QED
                BY <4>2, <4>3
        <3> QED
            BY <3>1, <3>2
    <2>2. Failed = [count |-> 1, age |-> 0, blocked |-> NotBlocked]
        BY <1>5 DEF Failed
    <2>3. T + 2 <= MaxAttempts
        BY <2>1, LimiterConstants
    <2> QED
        BY <1>1, <1>4, <2>1, <2>2, <2>3, FirstBounded DEF T
<1>6. CASE Current # NoEntry
    <2>1. Current = entry /\ entry # NoEntry /\ entry.blocked = NotBlocked /\ entry \in Entry
        BY <1>6 DEF Current, Limited, Bounded
    <2>2. OpenEntry(entry, wrong)
        BY <2>1 DEF Bounded
    <2> DEFINE c == entry.count
               a == entry.age
    <2>3. c \in Nat /\ a \in Nat /\ a <= AttemptWindow + 1
        BY <2>1, EntryType
    <2>4. /\ c + 1 <= MaxAttempts
          /\ a < AttemptWindow =>
                /\ Recent(wrong, a) + 1 <= c
                /\ Recent(wrong, a + 1) <= c
                /\ T + 2 <= Recent(wrong, a + 1) + MaxAttempts
          /\ a >= AttemptWindow => T + 1 <= c
          /\ a > AttemptWindow => wrong[0] = 0
        BY <2>2 DEF OpenEntry, T
    <2>5. CASE a > AttemptWindow
        <3>1. Failed = [count |-> 1, age |-> 0, blocked |-> NotBlocked]
            BY <2>1, <2>5 DEF Failed
        <3>2. T + 2 <= MaxAttempts /\ wrong[0] = 0
            BY <1>3, <2>3, <2>4, <2>5, LimiterConstants
        <3> QED
            BY <1>1, <3>1, <3>2, FirstBounded DEF T
    <2>6. CASE ~(a > AttemptWindow)
        <3> DEFINE b == IF c + 1 >= MaxAttempts THEN BlockTime ELSE NotBlocked
                   e == [count |-> c + 1, age |-> a, blocked |-> b]
        <3>1. Failed = e
            BY <2>1, <2>6 DEF Failed, Entry
        <3>2. b = NotBlocked \/ (b \in Nat /\ b <= BlockTime)
            BY LimiterConstants
        <3>3. e \in Entry /\ e.count = c + 1 /\ e.age = a /\ e.blocked = b
            <4> HIDE DEF b, c, a
            <4> QED
                BY <2>3, <3>2, MadeEntry
        <3>4. Recent(v, AttemptWindow) = T + 1
            BY ONLY <1>2, LimiterConstants DEF T
        <3>5. CASE c + 1 >= MaxAttempts
            <4>1. e.blocked = BlockTime /\ e.blocked # NotBlocked
                BY <3>3, <3>5, LimiterConstants
            <4>2. BlockTime - e.blocked = 0 /\ Recent(v, 0) = 0
                <5>1. BlockTime - e.blocked = 0
                    BY ONLY <4>1, LimiterConstants
                <5> QED
                    BY <1>2, <5>1, RecentIs
            <4>3. Recent(wrong, a + 1) \in Nat
                BY <1>3
            <4> HIDE DEF a, c
            <4>4. T + 1 + 2 <= 2 * MaxAttempts
                BY <1>3, <2>3, <2>4, <4>3, LimiterConstants
            <4> QED
                BY <1>2, <3>1, <3>3, <3>4, <4>1, <4>2, <4>4, EntryType DEF Bounded, BlockedEntry
        <3>6. CASE ~(c + 1 >= MaxAttempts)
            <4>1. e.blocked = NotBlocked
                BY <3>3, <3>6
            <4>2. Recent(v, a + 1) = Recent(wrong, a + 1) + 1 /\ Recent(wrong, a + 1) \in Nat
                <5>1. a + 1 \in Nat \ {0}
                    BY ONLY <2>3
                <5> QED
                    BY ONLY <1>2, <1>3, <5>1
            <4>3. Recent(v, a) <= Recent(wrong, a) + 1 /\ Recent(wrong, a) \in Nat /\ Recent(v, a) \in Nat
                <5>1. Recent(v, 0) = 0 /\ Recent(wrong, 0) = 0
                    BY <1>1, <1>2, RecentIs
                <5>2. Recent(v, a) \in Nat
                    BY <1>2, RecentIs
                <5>3. CASE a = 0
                    BY <1>3, <5>1, <5>3
                <5>4. CASE a # 0
                    <6>1. a \in Nat \ {0}
                        BY ONLY <2>3, <5>4
                    <6>2. Recent(v, a) = Recent(wrong, a) + 1 /\ Recent(wrong, a) \in Nat
                        BY ONLY <1>2, <1>3, <6>1
                    <6> QED
                        BY ONLY <6>2
                <5> QED
                    BY <5>3, <5>4
            <4>4. a = 0 => Recent(v, a) = 0
                BY <1>2, RecentIs
            <4> HIDE DEF a, c, e
            <4>5. OpenEntry(e, v)
                BY <1>3, <2>3, <2>4, <2>6, <3>3, <3>4, <3>6, <4>2, <4>3, <4>4, LimiterConstants DEF OpenEntry
            <4> QED
                BY <1>2, <3>1, <3>3, <4>1, <4>5, EntryType DEF Bounded
        <3> QED
            BY <3>5, <3>6
    <2> QED
        BY <2>5, <2>6
<1> QED
    BY <1>5, <1>6

LEMMA TickBounded ==
    ASSUME Bounded(entry, wrong), AuthTick
    PROVE  Bounded(entry', wrong')
<1> DEFINE T == Recent(wrong, AttemptWindow)
           U == Recent(wrong', AttemptWindow)
<1>1. wrong \in [Ages -> Nat]
    BY DEF Bounded
<1>2. /\ wrong' \in [Ages -> Nat] /\ wrong'[0] = 0
      /\ \A n \in Ages : Recent(wrong', n + 1) = Recent(wrong, n)
      /\ U <= T
    <2>1. wrong' = [a \in DOMAIN wrong |-> IF a = 0 THEN 0 ELSE wrong[a - 1]]
        BY DEF AuthTick
    <2> QED
        BY <1>1, <2>1, RecentOlder
<1>3. /\ T \in Nat /\ U \in Nat
      /\ \A n : Recent(wrong, n) \in Nat /\ Recent(wrong', n) \in Nat
    BY <1>1, <1>2, RecentIs
<1>4. \A n \in Nat : n < AttemptWindow <=> n \in Ages
    BY LimiterConstants DEF Ages
<1> HIDE DEF T, U
<1>5. CASE entry = NoEntry
    <2>1. entry' = NoEntry /\ T = 0
        BY <1>5 DEF AuthTick, Bounded, T
    <2>2. U = 0
        BY <1>2, <1>3, <2>1
    <2> QED
        BY <1>2, <2>1, <2>2 DEF Bounded, U
<1>6. CASE entry # NoEntry
    <2> DEFINE c == entry.count
               a == entry.age
               b == entry.blocked
    <2>1. entry \in Entry /\ c \in Nat /\ a \in Nat /\ a <= AttemptWindow + 1
          /\ (b # NotBlocked => b \in Nat /\ b <= BlockTime)
        BY <1>6, EntryType DEF Bounded
    <2>2. CASE b = NotBlocked
        <3> DEFINE g == IF a > AttemptWindow THEN a ELSE a + 1
                   e == [count |-> c, age |-> g, blocked |-> NotBlocked]
        <3>1. entry' = e
            BY <1>6, <2>1, <2>2 DEF AuthTick, Entry
        <3>2. g \in Nat /\ g <= AttemptWindow + 1 /\ (a <= AttemptWindow => g = a + 1)
              /\ (a > AttemptWindow => g = a)
            <4> HIDE DEF a
            <4> QED
                BY <2>1, LimiterConstants
        <3>3. e \in Entry /\ e.count = c /\ e.age = g /\ e.blocked = NotBlocked
            <4> HIDE DEF g, c, a
            <4> QED
                BY <2>1, <3>2, MadeEntry
        <3>4. /\ c + 1 <= MaxAttempts
              /\ a < AttemptWindow =>
                    /\ Recent(wrong, a) + 1 <= c
                    /\ Recent(wrong, a + 1) <= c
                    /\ T + 2 <= Recent(wrong, a + 1) + MaxAttempts
              /\ a >= AttemptWindow => T + 1 <= c
            BY <1>6, <2>2 DEF Bounded, OpenEntry, T
        <3> HIDE DEF a, c, g, e
        <3>5. g > AttemptWindow => wrong'[0] = 0
            BY <1>2
        <3>6. g >= AttemptWindow => U + 1 <= c
            <4>1. CASE a >= AttemptWindow
                BY <1>2, <1>3, <2>1, <3>4, <4>1
            <4>2. CASE a < AttemptWindow
                <5>1. SUFFICES ASSUME g >= AttemptWindow PROVE U + 1 <= c
                    OBVIOUS
                <5>2. AttemptWindow = a + 1
                    BY <2>1, <3>2, <4>2, <5>1, LimiterConstants
                <5>3. U = Recent(wrong, a)
                    BY <1>2, <1>4, <2>1, <4>2, <5>2 DEF U
                <5> QED
                    BY <3>4, <4>2, <5>3
            <4> QED
                BY <2>1, <4>1, <4>2, LimiterConstants
        <3>7. g < AttemptWindow => /\ Recent(wrong', g) + 1 <= c
                                   /\ Recent(wrong', g + 1) <= c
                                   /\ U + 2 <= Recent(wrong', g + 1) + MaxAttempts
            <4> SUFFICES ASSUME g < AttemptWindow
                         PROVE  /\ Recent(wrong', g) + 1 <= c
                                /\ Recent(wrong', g + 1) <= c
                                /\ U + 2 <= Recent(wrong', g + 1) + MaxAttempts
                OBVIOUS
            <4>1. g = a + 1 /\ a < AttemptWindow /\ a \in Ages /\ g \in Ages
                BY <1>4, <2>1, <3>2, LimiterConstants
            <4>2. Recent(wrong', g) = Recent(wrong, a) /\ Recent(wrong', g + 1) = Recent(wrong, a + 1)
                BY <1>2, <4>1
            <4>3. Recent(wrong, a + 1) \in Nat /\ Recent(wrong, a) \in Nat
                BY <1>3
            <4> QED
                BY <1>2, <1>3, <2>1, <3>4, <4>1, <4>2, <4>3, LimiterConstants
        <3>8. OpenEntry(e, wrong')
            BY <3>3, <3>4, <3>5, <3>6, <3>7 DEF OpenEntry, U
        <3> QED
            BY <1>2, <3>1, <3>3, <3>8, EntryType DEF Bounded
    <2>3. CASE b # NotBlocked
        <3> DEFINE d == Elapsed(b)
                   e == [count |-> c, age |-> a, blocked |-> d]
        <3>1. entry' = e
            BY <1>6, <2>1, <2>3 DEF AuthTick, Entry
        <3>2. b \in Nat /\ b <= BlockTime /\ d \in Nat /\ d <= BlockTime /\ d # NotBlocked
              /\ (b = 0 => d = 0) /\ (b # 0 => d = b - 1)
            <4>1. b \in Nat /\ b <= BlockTime
                BY <2>1, <2>3
            <4> HIDE DEF b
            <4> QED
                BY <4>1, LimiterConstants DEF Elapsed
        <3>3. e \in Entry /\ e.blocked = d
            <4> HIDE DEF d, c, a
            <4> QED
                BY <2>1, <3>2, MadeEntry
        <3>4. T + 2 <= 2 * MaxAttempts /\ Recent(wrong, BlockTime - b) = 0
            BY <1>6, <2>3 DEF Bounded, BlockedEntry, T
        <3> HIDE DEF a, b, c, d, e
        <3> DEFINE n == BlockTime - b
                   m == BlockTime - d
        <3>5. n \in Nat /\ m \in Nat /\ (b = 0 => m = n /\ n = BlockTime) /\ (b # 0 => m = n + 1)
            BY <3>2, LimiterConstants
        <3>6. Recent(wrong, n) = 0
            BY <3>4
        <3> HIDE DEF n, m
        <3>7. Recent(wrong', m) = 0
            <4>1. CASE n < AttemptWindow
                <5>1. b # 0 /\ m = n + 1 /\ n \in Ages
                    BY <1>4, <3>2, <3>5, <4>1, LimiterConstants
                <5> QED
                    BY <1>2, <3>6, <5>1
            <4>2. CASE n >= AttemptWindow
                <5>1. m \in Nat /\ m >= AttemptWindow
                    BY <3>5, <4>2, LimiterConstants
                <5>2. Recent(wrong', m) = U /\ Recent(wrong, n) = T
                    BY <1>1, <1>2, <3>5, <4>2, <5>1, RecentIs DEF T, U
                <5> QED
                    BY <1>2, <1>3, <3>6, <5>2
            <4> QED
                BY <3>5, <4>1, <4>2, LimiterConstants
        <3>8. U + 2 <= 2 * MaxAttempts
            BY <1>2, <1>3, <3>4, LimiterConstants
        <3>9. BlockedEntry(e, wrong')
            BY <3>3, <3>7, <3>8 DEF BlockedEntry, U, m
        <3> QED
            BY <1>2, <3>1, <3>2, <3>3, <3>9, EntryType DEF Bounded
    <2> QED
        BY <2>2, <2>3
<1> QED
    BY <1>5, <1>6

LEMMA BoundHeld ==
    ASSUME Bounded(entry, wrong)
    PROVE  AttemptsBounded
<1> DEFINE T == Recent(wrong, AttemptWindow)
<1>1. wrong \in [Ages -> Nat] /\ DOMAIN wrong = Ages
    BY DEF Bounded
<1>2. MapThenSumSet(LAMBDA a : wrong[a], DOMAIN wrong) = T
    <2>1. Younger(AttemptWindow) = Ages
        BY LimiterConstants, Younger1
    <2>2. MapThenSumSet(LAMBDA a : wrong[a], Ages) = SumFunctionOnSet(wrong, Ages)
        BY DEF MapThenSumSet, SumFunctionOnSet, FoldFunctionOnSet
    <2> QED
        BY <1>1, <2>1, <2>2 DEF Recent
<1>3. T \in Nat /\ \A n : Recent(wrong, n) \in Nat
    BY <1>1, RecentIs
<1> HIDE DEF T
<1>4. T + 2 <= 2 * MaxAttempts
    <2>1. CASE entry = NoEntry
        BY <2>1, LimiterConstants DEF Bounded, T
    <2>2. CASE entry # NoEntry /\ entry.blocked # NotBlocked
        BY <2>2 DEF Bounded, BlockedEntry, T
    <2>3. CASE entry # NoEntry /\ entry.blocked = NotBlocked
        <3> DEFINE c == entry.count
                   a == entry.age
        <3>1. c \in Nat /\ a \in Nat
            BY <2>3, EntryType DEF Bounded
        <3>2. /\ c + 1 <= MaxAttempts
              /\ a < AttemptWindow => /\ Recent(wrong, a + 1) <= c
                                      /\ T + 2 <= Recent(wrong, a + 1) + MaxAttempts
              /\ a >= AttemptWindow => T + 1 <= c
            BY <2>3 DEF Bounded, OpenEntry, T
        <3>3. Recent(wrong, a + 1) \in Nat
            BY <1>3
        <3> HIDE DEF a, c
        <3> QED
            BY <1>3, <3>1, <3>2, <3>3, LimiterConstants
    <2> QED
        BY <2>1, <2>2, <2>3
<1> QED
    BY <1>2, <1>3, <1>4, LimiterConstants DEF AttemptsBounded

\* What the handlers do to the limiter: nothing, unless a password is right or wrong,
\* the proxy restarts or time passes.
LimiterNext ==
    \/ UNCHANGED <<entry, wrong>>
    \/ ~Limited /\ entry' = Failed /\ wrong' = [wrong EXCEPT ![0] = @ + 1]
    \/ entry' = NoEntry /\ wrong' = NoneWrong
    \/ AuthTick

LEMMA LimiterSteps ==
    ASSUME [Next]_signInVars
    PROVE  LimiterNext
<1>1. CASE \E kind \in Kinds : Serve(kind)
    <2>1. PICK c \in BagToSet(calls) :
              \/ ServeSession(c) \/ ServeLogin(c) \/ ServeLogout(c)
              \/ ServePassword(c) \/ ServeBody(c)
        BY <1>1 DEF Serve
    <2>2. CASE ServeSession(c) \/ ServePassword(c)
        BY <2>2 DEF ServeSession, ServePassword, limiterVars, LimiterNext
    <2>3. CASE ServeLogin(c)
        BY <2>3 DEF ServeLogin, LoginLimited, LoginFails, LoginSucceeds, authVars, LimiterNext
    <2>4. CASE ServeLogout(c)
        BY <2>4 DEF ServeLogout, Logout, limiterVars, authVars, LimiterNext
    <2>5. CASE ServeBody(c)
        BY <2>5 DEF ServeBody, ChangePassword, Renewed, ChangeRefused, limiterVars, LimiterNext
    <2> QED
        BY <2>1, <2>2, <2>3, <2>4, <2>5
<1>2. CASE \E kind \in Kinds : Answer(kind)
    BY <1>2 DEF Answer, SessionAnswered, LoginAnswered, LogoutAnswered, PasswordAnswered, PageAnswered,
                Settled, limiterVars, authVars, LimiterNext
<1>3. CASE \/ SetProxyUrl \/ Login(TRUE) \/ Login(FALSE)
           \/ SignOut \/ ChangesPassword \/ Poll \/ Reload
    BY <1>3 DEF SetProxyUrl, Login, SignOut, ChangesPassword, Poll, FromPage, Reload, authVars, LimiterNext
<1>4. CASE \E c \in BagToSet(calls) : Fails(c)
    BY <1>4 DEF Fails, Settled, authVars, LimiterNext
<1>5. CASE OtherTab
    BY <1>5 DEF OtherTab, LoginSucceeds, Logout, limiterVars, LimiterNext
<1>6. CASE Shell \/ ProxyRestarts \/ Tick
    BY <1>6 DEF Shell, SetupAdmin, ResetPassword, Renewed, limiterVars, ProxyRestarts, Restart, Tick, LimiterNext
<1>7. CASE UNCHANGED signInVars
    BY <1>7 DEF signInVars, LimiterNext
<1> QED
    BY <1>1, <1>2, <1>3, <1>4, <1>5, <1>6, <1>7 DEF Next

LEMMA LimiterAlways == Spec => []Bounded(entry, wrong)
<1> DEFINE Inv == Bounded(entry, wrong)
<1>1. Init => Inv
    BY ResetBounded DEF Init, AuthInit
<1>2. Inv /\ [Next]_signInVars => Inv'
    <2> SUFFICES ASSUME Inv, [Next]_signInVars PROVE Inv'
        OBVIOUS
    <2>1. CASE UNCHANGED <<entry, wrong>>
        BY <2>1
    <2>2. CASE ~Limited /\ entry' = Failed /\ wrong' = [wrong EXCEPT ![0] = @ + 1]
        BY <2>2, FailureBounded
    <2>3. CASE entry' = NoEntry /\ wrong' = NoneWrong
        BY <2>3, ResetBounded
    <2>4. CASE AuthTick
        BY <2>4, TickBounded
    <2> QED
        BY <2>1, <2>2, <2>3, <2>4, LimiterSteps DEF LimiterNext
<1> HIDE DEF Inv
<1>3. Spec => []Inv
    BY <1>1, <1>2, PTL DEF Spec
<1> QED
    BY <1>3 DEF Inv

\* Wrong passwords stay bounded across the windows of the limiter, which start with a
\* failure: whatever is tried when, beside right passwords, blocks and restarts, for
\* any number of attempts, any window and any block no shorter than it.
THEOREM AttemptsStayBounded == Spec => []AttemptsBounded
<1>1. Bounded(entry, wrong) => AttemptsBounded
    BY BoundHeld
<1> QED
    BY <1>1, LimiterAlways, PTL

-----------------------------------------------------------------------------
(* Bags of calls.                                                            *)

LEMMA WithIs ==
    ASSUME NEW B, IsABag(B), NEW c
    PROVE  /\ IsABag(With(B, c)) /\ BagToSet(With(B, c)) = BagToSet(B) \cup {c}
           /\ \A d \in BagToSet(B) : d # c => With(B, c)[d] = B[d]
           /\ c \notin BagToSet(B) => With(B, c)[c] = 1
<1>1. \A d \in DOMAIN B : B[d] \in Nat /\ B[d] > 0
    BY DEF IsABag
<1>2. SetToBag({c}) = [e \in {c} |-> 1]
    BY DEF SetToBag
<1>3. DOMAIN SetToBag({c}) = {c} /\ SetToBag({c})[c] = 1
    BY <1>2
<1> DEFINE W == With(B, c)
<1>4. W = [e \in DOMAIN B \cup DOMAIN SetToBag({c}) |->
              (IF e \in DOMAIN B THEN B[e] ELSE 0)
            + (IF e \in DOMAIN SetToBag({c}) THEN SetToBag({c})[e] ELSE 0)]
    BY DEF With, (+)
<1> HIDE DEF W
<1>5. /\ DOMAIN W = DOMAIN B \cup {c}
      /\ \A e \in DOMAIN B \cup {c} :
            W[e] = (IF e \in DOMAIN B THEN B[e] ELSE 0) + (IF e = c THEN 1 ELSE 0)
    BY <1>3, <1>4
<1>6. \A e \in DOMAIN W : W[e] \in Nat /\ W[e] > 0
    BY <1>1, <1>5
<1>7. W = [e \in DOMAIN W |-> W[e]]
    BY <1>4
<1>8. IsABag(W)
    BY <1>6, <1>7 DEF IsABag
<1> QED
    BY <1>1, <1>5, <1>8 DEF BagToSet, W

LEMMA WithoutIs ==
    ASSUME NEW B, IsABag(B), NEW c
    PROVE  /\ IsABag(Without(B, c))
           /\ BagToSet(Without(B, c)) \subseteq BagToSet(B)
           /\ BagToSet(B) \ {c} \subseteq BagToSet(Without(B, c))
           /\ \A d \in BagToSet(Without(B, c)) : d # c => Without(B, c)[d] = B[d]
           /\ c \in BagToSet(B) /\ B[c] = 1 => c \notin BagToSet(Without(B, c))
<1>1. \A d \in DOMAIN B : B[d] \in Nat /\ B[d] > 0
    BY DEF IsABag
<1>2. SetToBag({c}) = [e \in {c} |-> 1]
    BY DEF SetToBag
<1>3. DOMAIN SetToBag({c}) = {c} /\ SetToBag({c})[c] = 1
    BY <1>2
<1> DEFINE L == [e \in DOMAIN B |-> IF e \in DOMAIN SetToBag({c}) THEN B[e] - SetToBag({c})[e] ELSE B[e]]
           W == Without(B, c)
<1>4. W = [e \in {d \in DOMAIN L : L[d] > 0} |-> L[e]]
    BY DEF Without, (-)
<1>5. DOMAIN L = DOMAIN B /\ \A e \in DOMAIN B : L[e] = IF e = c THEN B[e] - 1 ELSE B[e]
    BY <1>3
<1> HIDE DEF L, W
<1>6. DOMAIN W = {d \in DOMAIN B : L[d] > 0} /\ \A e \in DOMAIN W : W[e] = L[e]
    BY <1>4, <1>5
<1>7. \A e \in DOMAIN W : e \in DOMAIN B /\ L[e] > 0 /\ W[e] = L[e]
    BY <1>6
<1>8. \A e \in DOMAIN B : e # c => e \in DOMAIN W /\ W[e] = B[e]
    BY <1>1, <1>5, <1>6
<1>9. \A e \in DOMAIN W : W[e] \in Nat /\ W[e] > 0
    <2> SUFFICES ASSUME NEW e \in DOMAIN W PROVE W[e] \in Nat /\ W[e] > 0
        OBVIOUS
    <2>1. e \in DOMAIN B /\ L[e] > 0 /\ W[e] = L[e]
        BY <1>7
    <2>2. L[e] = IF e = c THEN B[e] - 1 ELSE B[e]
        BY <1>5, <2>1
    <2> QED
        BY <1>1, <2>1, <2>2
<1>10. W = [e \in DOMAIN W |-> W[e]]
    BY <1>4
<1>11. IsABag(W)
    BY <1>9, <1>10 DEF IsABag
<1>12. c \in DOMAIN B /\ B[c] = 1 => c \notin DOMAIN W
    <2> SUFFICES ASSUME c \in DOMAIN B, B[c] = 1, c \in DOMAIN W PROVE FALSE
        OBVIOUS
    <2>1. L[c] > 0 /\ L[c] = B[c] - 1
        BY <1>5, <1>7
    <2> QED
        BY <2>1
<1>13. DOMAIN W \subseteq DOMAIN B /\ DOMAIN B \ {c} \subseteq DOMAIN W
    BY <1>7, <1>8
<1>14. \A e \in DOMAIN W : e # c => W[e] = B[e]
    BY <1>8, <1>13
<1> QED
    BY <1>11, <1>12, <1>13, <1>14 DEF BagToSet, W

LEMMA EmptyIs == IsABag(EmptyBag) /\ BagToSet(EmptyBag) = {}
    BY DEF EmptyBag, SetToBag, IsABag, BagToSet

\* No more than one sign-in is under way.
OneLogin(B) ==
    \A c \in BagToSet(B) :
        c.kind = "login" => B[c] = 1 /\ \A d \in BagToSet(B) : d.kind = "login" => d = c

LEMMA OneLoginWith ==
    ASSUME NEW B, IsABag(B), OneLogin(B), NEW c,
           c.kind # "login" \/ \A d \in BagToSet(B) : d.kind # "login"
    PROVE  OneLogin(With(B, c))
    BY WithIs DEF OneLogin

LEMMA OneLoginWithout ==
    ASSUME NEW B, IsABag(B), OneLogin(B), NEW c \in BagToSet(B)
    PROVE  /\ OneLogin(Without(B, c))
           /\ c.kind = "login" => \A d \in BagToSet(Without(B, c)) : d.kind # "login"
<1>1. ASSUME NEW d \in BagToSet(Without(B, c)), d.kind = "login"
      PROVE  c.kind # "login" /\ d # c /\ Without(B, c)[d] = 1
    <2>1. d \in BagToSet(B) /\ B[d] = 1 /\ (c.kind = "login" => c = d)
        BY <1>1, WithoutIs DEF OneLogin
    <2>2. d # c
        BY <1>1, <2>1, WithoutIs
    <2> QED
        BY <2>1, <2>2, WithoutIs
<1>2. \A d \in BagToSet(Without(B, c)) : d \in BagToSet(B)
    BY WithoutIs
<1> QED
    BY <1>1, <1>2 DEF OneLogin

-----------------------------------------------------------------------------
(* What a tab and its calls know of the cookie.                              *)

\* A question for the session that was asked with a cookie, or an answer to it.
Told(c, k) ==
    c.kind = "session" => /\ c.state = "sent" => c.cookie = k
                          /\ c.state = "signedIn" => c.id = k

Fits(t, bag, k) ==
    /\ t.status = "authenticated" => t.token = k
    /\ \A c \in BagToSet(bag) : Told(c, k)

IdsOf(c) == {c.cookie, c.token, c.id}

\* The ids that somebody has.
Known ==
    {cookie, tab.token, NoId}
        \cup (IF isConfigured THEN {s.id : s \in file} ELSE {})
        \cup UNION {IdsOf(c) : c \in BagToSet(calls)}

LoginWaits(bag) == \E c \in BagToSet(bag) : c.kind = "login" /\ c.state = "sent"

Typed ==
    /\ file \in File \cup {NoFile}
    /\ cookie \in Ids \cup {NoId}
    /\ tab \in Tab
    /\ IsABag(calls) /\ BagToSet(calls) \subseteq Call
    /\ belied \in BOOLEAN

SignInInv ==
    /\ Typed
    /\ ~belied => Fits(tab, calls, cookie)
    /\ OneLogin(calls)
    /\ LoginWaits(calls) => Fresh # {}

LEMMA FreshIs == Fresh = Ids \ Known
<1>1. NoId \notin Ids
    BY AuthConstants
<1>2. UNION {{c.cookie, c.token, c.id} : c \in BagToSet(calls)} = UNION {IdsOf(c) : c \in BagToSet(calls)}
    BY DEF IdsOf
<1> QED
    BY <1>1, <1>2, Zenon DEF Known, Fresh

LEMMA KnownIs ==
    ASSUME Typed
    PROVE  /\ Known \subseteq Ids \cup {NoId}
           /\ Fresh = Ids \ Known
           /\ NoId \in Known /\ cookie \in Known /\ tab.token \in Known
           /\ \A c \in BagToSet(calls) : IdsOf(c) \subseteq Known
<1>1. \A c \in BagToSet(calls) : IdsOf(c) \subseteq Ids \cup {NoId}
    BY DEF Typed, Call, IdsOf
<1>2. isConfigured => \A s \in file : s.id \in Ids
    BY DEF Typed, File, Session, isConfigured
<1>3. cookie \in Ids \cup {NoId} /\ tab.token \in Ids \cup {NoId} /\ NoId \notin Ids
    BY AuthConstants DEF Typed, Tab
<1> QED
    BY <1>1, <1>2, <1>3, FreshIs DEF Known

\* The passwords that were given are numbered, and so is the one in the file.
Numbered == password \in Nat /\ given \in Nat

NumberedNext ==
    \/ UNCHANGED <<password, given>>
    \/ Gives /\ password' \in {password, given'}

LEMMA AsksNumbered ==
    ASSUME NEW id, Asks(id)
    PROVE  NumberedNext
    BY DEF Asks, Saves, accountVars, NumberedNext

LEMMA NumberedSteps ==
    ASSUME [Next]_signInVars
    PROVE  NumberedNext
<1>1. CASE \E kind \in Kinds : Serve(kind)
    <2>1. PICK c \in BagToSet(calls) :
              \/ ServeSession(c) \/ ServeLogin(c) \/ ServeLogout(c)
              \/ ServePassword(c) \/ ServeBody(c)
        BY <1>1 DEF Serve
    <2>2. CASE ServeSession(c) \/ ServePassword(c)
        BY <2>2, AsksNumbered DEF ServeSession, ServePassword
    <2>3. CASE ServeLogin(c)
        BY <2>3 DEF ServeLogin, LoginLimited, LoginFails, LoginSucceeds, Saves, authVars, NumberedNext
    <2>4. CASE ServeLogout(c)
        BY <2>4, AsksNumbered DEF ServeLogout, Logout, Saves, authVars, NumberedNext
    <2>5. CASE ServeBody(c)
        BY <2>5 DEF ServeBody, ChangePassword, Renewed, ChangeRefused, Saves, accountVars, NumberedNext
    <2> QED
        BY <2>1, <2>2, <2>3, <2>4, <2>5
<1>2. CASE \E kind \in Kinds : Answer(kind)
    <2>1. PICK c \in BagToSet(calls) :
              \/ SessionAnswered(c) \/ LoginAnswered(c) \/ LogoutAnswered(c)
              \/ PasswordAnswered(c) \/ PageAnswered(c)
        BY <1>2 DEF Answer
    <2>2. CASE PageAnswered(c)
        BY <2>2, AsksNumbered DEF PageAnswered
    <2>3. CASE ~PageAnswered(c)
        BY <2>1, <2>3 DEF SessionAnswered, LoginAnswered, LogoutAnswered, PasswordAnswered,
                          Settled, authVars, NumberedNext
    <2> QED
        BY <2>2, <2>3
<1>3. CASE \/ SetProxyUrl \/ Login(TRUE) \/ Login(FALSE)
           \/ SignOut \/ ChangesPassword \/ Poll \/ Reload
    BY <1>3 DEF SetProxyUrl, Login, SignOut, ChangesPassword, Poll, FromPage, Reload, authVars, NumberedNext
<1>4. CASE \E c \in BagToSet(calls) : Fails(c)
    BY <1>4 DEF Fails, Settled, authVars, NumberedNext
<1>5. CASE OtherTab
    BY <1>5 DEF OtherTab, LoginSucceeds, Logout, Saves, NumberedNext
<1>6. CASE Shell
    BY <1>6 DEF Shell, SetupAdmin, ResetPassword, Renewed, NumberedNext
<1>7. CASE ProxyRestarts \/ Tick
    BY <1>7 DEF ProxyRestarts, Restart, accountVars, Tick, AuthTick, NumberedNext
<1>8. CASE UNCHANGED signInVars
    BY <1>8 DEF signInVars, NumberedNext
<1> QED
    BY <1>1, <1>2, <1>3, <1>4, <1>5, <1>6, <1>7, <1>8 DEF Next

LEMMA NumbersHeld == Spec => []Numbered
<1>1. Init => Numbered
    BY DEF Init, AuthInit, Numbered
<1>2. Numbered /\ [Next]_signInVars => Numbered'
    BY NumberedSteps DEF Numbered, NumberedNext, Gives
<1> QED
    BY <1>1, <1>2, PTL DEF Spec

\* The sessions lose some, or their time.
FileKept ==
    \/ file' = file
    \/ file' = {}
    \/ isConfigured /\ file' \in File /\ \A s \in file' : \E t \in file : t.id = s.id

LEMMA FileLater ==
    ASSUME Typed, FileKept
    PROVE  /\ file' \in File \cup {NoFile}
           /\ isConfigured' => \A s \in file' : s.id \in Known
<1>1. file' \in File \cup {NoFile}
    BY DEF Typed, FileKept, File
<1>2. isConfigured => \A s \in file : s.id \in Known
    BY DEF Known
<1>3. ASSUME isConfigured', NEW s \in file' PROVE s.id \in Known
    <2>1. isConfigured /\ \E t \in file : t.id = s.id
        BY <1>3 DEF FileKept, isConfigured
    <2> QED
        BY <1>2, <2>1
<1> QED
    BY <1>1, <1>3

TabCalls(bag, K) == IsABag(bag) /\ \A c \in BagToSet(bag) : c \in Call /\ IdsOf(c) \subseteq K

\* What a step leaves, when K is all that anybody knows after it.
Later(K) ==
    /\ tab' \in Tab /\ {cookie', tab'.token} \subseteq K
    /\ TabCalls(calls', K)
    /\ belied' \in BOOLEAN
    /\ ~belied' => Fits(tab', calls', cookie')
    /\ OneLogin(calls')
    /\ LoginWaits(calls') => Ids \ K # {}

LEMMA SignInStep ==
    ASSUME SignInInv, NEW K \in SUBSET (Ids \cup {NoId}), NoId \in K,
           file' \in File \cup {NoFile}, isConfigured' => \A s \in file' : s.id \in K,
           Later(K)
    PROVE  SignInInv'
<1>1. BagToSet(calls)' = BagToSet(calls')
    BY DEF BagToSet
<1>2. Typed'
    BY <1>1 DEF Typed, Later, TabCalls
<1>3. Known' \subseteq K
    BY <1>1 DEF Known, Later, TabCalls
<1>4. (Fresh = Ids \ Known)'
    BY FreshIs, PTL
<1>5. (LoginWaits(calls) => Fresh # {})'
    BY <1>3, <1>4 DEF Later
<1> QED
    BY <1>2, <1>5 DEF SignInInv, Later

\* A step that brings no new id.
LEMMA NoneNew ==
    ASSUME SignInInv, FileKept, Later(Known)
    PROVE  SignInInv'
    BY SignInStep, FileLater, KnownIs DEF SignInInv

\* A session is opened.
LEMMA OneNew ==
    ASSUME SignInInv, Numbered, Fresh # {}, LoginSucceeds(NewId), Later(Known \cup {NewId})
    PROVE  SignInInv'
<1> DEFINE K == Known \cup {NewId}
           opened == [id |-> NewId, left |-> Lifetime, of |-> password]
<1>1. NewId \in Ids
    BY DEF NewId, Fresh
<1>2. K \in SUBSET (Ids \cup {NoId}) /\ NoId \in K
    BY <1>1, KnownIs DEF SignInInv
<1>3. isConfigured /\ file \in File /\ Cleaned \subseteq file /\ file' = Cleaned \cup {opened}
    BY DEF SignInInv, Typed, LoginSucceeds, Saves, isConfigured, Cleaned
<1>4. opened \in Session
    BY <1>1, AuthConstants DEF Session, Numbered
<1>5. file' \in File
    BY <1>3, <1>4 DEF File
<1>6. \A s \in file : s.id \in Known
    BY <1>3 DEF Known
<1>7. \A s \in file' : s.id \in K
    BY <1>3, <1>6
<1> QED
    BY <1>2, <1>5, <1>7, SignInStep
-----------------------------------------------------------------------------
(* What the calls and the tab become.                                        *)

LEMMA CallsWith ==
    ASSUME NEW K, NEW B, TabCalls(B, K), NEW c \in Call, IdsOf(c) \subseteq K
    PROVE  /\ TabCalls(With(B, c), K)
           /\ c.kind # "login" \/ c.state # "sent" => (LoginWaits(With(B, c)) => LoginWaits(B))
    BY WithIs DEF TabCalls, LoginWaits

LEMMA CallsWithout ==
    ASSUME NEW K, NEW B, TabCalls(B, K), NEW c
    PROVE  /\ TabCalls(Without(B, c), K)
           /\ BagToSet(Without(B, c)) \subseteq BagToSet(B)
           /\ LoginWaits(Without(B, c)) => LoginWaits(B)
    BY WithoutIs DEF TabCalls, LoginWaits

LEMMA CallsWider ==
    ASSUME NEW B, NEW K, NEW L, K \subseteq L, TabCalls(B, K)
    PROVE  TabCalls(B, L)
    BY DEF TabCalls

LEMMA TabSet ==
    ASSUME NEW t \in Tab
    PROVE  /\ \A status \in {"loading", "needs_proxy", "unconfigured", "unauthenticated", "authenticated"} :
                 /\ [t EXCEPT !.status = status] \in Tab
                 /\ [t EXCEPT !.status = status].status = status
                 /\ [t EXCEPT !.status = status].token = t.token
                 /\ [t EXCEPT !.status = status, !.hasUrl = TRUE] \in Tab
                 /\ [t EXCEPT !.status = status, !.hasUrl = TRUE].status = status
                 /\ [t EXCEPT !.status = status, !.hasUrl = TRUE].token = t.token
    BY DEF Tab

LEMMA TypedIs ==
    ASSUME SignInInv
    PROVE  /\ TabCalls(calls, Known)
           /\ tab \in Tab /\ tab.status \in {"loading", "needs_proxy", "unconfigured", "unauthenticated", "authenticated"}
           /\ Known \subseteq Ids \cup {NoId}
           /\ NoId \in Known /\ cookie \in Known /\ tab.token \in Known
           /\ \A c \in BagToSet(calls) : c \in Call /\ IdsOf(c) \subseteq Known
           /\ belied \in BOOLEAN
           /\ OneLogin(calls)
           /\ LoginWaits(calls) => Ids \ Known # {}
           /\ ~belied => Fits(tab, calls, cookie)
    BY KnownIs DEF SignInInv, Typed, TabCalls, Tab

LEMMA ShowsIs ==
    ASSUME SignInInv, NEW id \in Known,
           NEW status \in {"loading", "needs_proxy", "unconfigured", "unauthenticated", "authenticated"},
           Shows(status, id)
    PROVE  tab' \in Tab /\ tab'.status = status /\ tab'.token = id
<1>1. tab \in Tab /\ id \in Ids \cup {NoId}
    BY TypedIs
<1>2. tab' = [tab EXCEPT !.status = status, !.token = id]
    BY DEF Shows
<1> QED
    BY <1>1, <1>2 DEF Tab

LEMMA SentIs ==
    ASSUME SignInInv, NEW kind \in Kinds
    PROVE  /\ Sent(kind) \in Call /\ IdsOf(Sent(kind)) \subseteq Known
           /\ Told(Sent(kind), cookie)
           /\ Sent(kind).kind = kind /\ Sent(kind).state = "sent"
<1> DEFINE k == IF kind = "login" THEN NoId ELSE cookie
           t == IF kind \in {"logout", "password"} THEN tab.token ELSE NoId
<1>1. Sent(kind) = [kind |-> kind, cookie |-> k, token |-> t, state |-> "sent", id |-> NoId]
    BY DEF Sent
<1>2. k \in Known /\ t \in Known /\ NoId \in Known /\ Known \subseteq Ids \cup {NoId}
    BY TypedIs
<1>3. kind = "session" => k = cookie
    OBVIOUS
<1> HIDE DEF k, t
<1> QED
    BY <1>1, <1>2, <1>3 DEF Call, IdsOf, Told

\* A question and nothing else is sent after others of the tab have gone.
LEMMA RefreshedStep ==
    ASSUME SignInInv, NEW rest, TabCalls(rest, Known), BagToSet(rest) \subseteq BagToSet(calls),
           OneLogin(rest), Refreshed(rest),
           belied' \in BOOLEAN,
           belied' \/ ~belied \/ \A c \in BagToSet(rest) : ~OfUser(c),
           FileKept, UNCHANGED cookie
    PROVE  SignInInv'
<1> DEFINE c == Sent("session")
<1>1. c \in Call /\ IdsOf(c) \subseteq Known /\ Told(c, cookie) /\ c.kind = "session"
    BY SentIs DEF Kinds
<1> HIDE DEF c
<1>2. calls' = With(rest, c)
    BY DEF Refreshed, c
<1>3. tab' \in Tab /\ tab'.status = "loading" /\ tab'.token = tab.token
    BY TypedIs, TabSet DEF Refreshed
<1>4. TabCalls(calls', Known) /\ (LoginWaits(calls') => LoginWaits(rest))
    BY <1>1, <1>2, CallsWith
<1>5. LoginWaits(calls') => Ids \ Known # {}
    BY <1>4, TypedIs DEF LoginWaits
<1>6. OneLogin(calls')
    BY <1>1, <1>2, OneLoginWith DEF TabCalls
<1>7. ASSUME ~belied', NEW d \in BagToSet(calls') PROVE Told(d, cookie')
    <2>1. d = c \/ d \in BagToSet(rest)
        BY <1>2, WithIs DEF TabCalls
    <2>2. CASE d = c
        BY <1>1, <2>2
    <2>3. CASE d \in BagToSet(rest) /\ ~belied
        BY <2>3, TypedIs DEF Fits
    <2>4. CASE d \in BagToSet(rest) /\ ~OfUser(d)
        BY <2>4 DEF OfUser, Told
    <2> QED
        BY <1>7, <2>1, <2>2, <2>3, <2>4
<1>8. ~belied' => Fits(tab', calls', cookie')
    BY <1>3, <1>7 DEF Fits
<1>9. cookie' \in Known /\ tab'.token \in Known
    BY <1>3, TypedIs
<1>10. Later(Known)
    BY <1>3, <1>4, <1>5, <1>6, <1>8, <1>9 DEF Later
<1> QED
    BY <1>10, NoneNew

\* A page sends a call.
LEMMA SentStep ==
    ASSUME SignInInv, NEW kind \in Kinds \ {"session", "login"}, FromPage(kind)
    PROVE  SignInInv'
<1> DEFINE c == Sent(kind)
<1>1. c \in Call /\ IdsOf(c) \subseteq Known /\ Told(c, cookie) /\ c.kind \notin {"session", "login"}
    BY SentIs
<1> HIDE DEF c
<1>2. calls' = With(calls, c) /\ (UNCHANGED <<cookie, tab, belied>>) /\ file' = file
    BY DEF FromPage, c, authVars
<1>3. TabCalls(calls', Known) /\ (LoginWaits(calls') => LoginWaits(calls))
    BY <1>1, <1>2, CallsWith, TypedIs
<1>4. OneLogin(calls')
    BY <1>1, <1>2, OneLoginWith, TypedIs DEF TabCalls
<1>5. BagToSet(calls') = BagToSet(calls) \cup {c}
    BY <1>2, WithIs, TypedIs DEF TabCalls
<1>6. ~belied' => Fits(tab', calls', cookie')
    BY <1>1, <1>2, <1>5, TypedIs DEF Fits
<1>7. Later(Known)
    BY <1>2, <1>3, <1>4, <1>6, TypedIs DEF Later
<1> QED
    BY <1>2, <1>7, NoneNew DEF FileKept
-----------------------------------------------------------------------------
(* The tab sends.                                                            *)

LEMMA AskedIs ==
    ASSUME SignInInv, Asked
    PROVE  belied' \in BOOLEAN /\ (belied' \/ ~belied \/ \A c \in BagToSet(calls) : ~OfUser(c))
    BY TypedIs, Zenon DEF Asked, AtRest

LEMMA SetProxyUrlStep ==
    ASSUME SignInInv, SetProxyUrl
    PROVE  SignInInv'
<1>1. TabCalls(calls, Known) /\ OneLogin(calls)
    BY TypedIs
<1>2. file' = file /\ cookie' = cookie /\ Refreshed(calls)
    BY DEF SetProxyUrl, authVars
<1>3. belied' \in BOOLEAN /\ (belied' \/ ~belied \/ \A c \in BagToSet(calls) : ~OfUser(c))
    BY AskedIs DEF SetProxyUrl
<1> QED
    BY <1>1, <1>2, <1>3, RefreshedStep DEF FileKept

LEMMA LoginStep ==
    ASSUME SignInInv, NEW edited \in BOOLEAN, Login(edited)
    PROVE  SignInInv'
<1> DEFINE c == Sent("login")
           d == Sent("session")
           logging == With(calls, c)
<1>1. /\ c \in Call /\ IdsOf(c) \subseteq Known /\ Told(c, cookie) /\ c.kind = "login"
      /\ d \in Call /\ IdsOf(d) \subseteq Known /\ Told(d, cookie) /\ d.kind = "session"
    BY SentIs DEF Kinds
<1>2. calls' = IF edited THEN With(logging, d) ELSE logging
    BY DEF Login
<1> HIDE DEF c, d
<1>3. TabCalls(logging, Known) /\ BagToSet(logging) = BagToSet(calls) \cup {c}
    BY <1>1, CallsWith, WithIs, TypedIs DEF TabCalls
<1>4. OneLogin(logging)
    BY <1>1, OneLoginWith, TypedIs DEF TabCalls, Login, UnderWay
<1> HIDE DEF logging
<1>5. calls' = logging \/ calls' = With(logging, d)
    BY <1>2, Zenon
<1>6. TabCalls(calls', Known) /\ OneLogin(calls') /\ BagToSet(calls') \subseteq BagToSet(calls) \cup {c, d}
    <2>1. CASE calls' = logging
        BY <1>3, <1>4, <2>1
    <2>2. CASE calls' = With(logging, d)
        <3>1. TabCalls(calls', Known)
            BY <1>1, <1>3, <2>2, CallsWith
        <3>2. IsABag(logging)
            BY <1>3 DEF TabCalls
        <3>3. OneLogin(calls')
            BY <1>1, <1>4, <2>2, <3>2, OneLoginWith
        <3>4. BagToSet(calls') = BagToSet(logging) \cup {d}
            BY <2>2, <3>2, WithIs
        <3> QED
            BY <1>3, <3>1, <3>3, <3>4
    <2> QED
        BY <1>5, <2>1, <2>2
<1>7. tab' \in Tab /\ tab'.status = "loading" /\ tab'.token = tab.token
    BY TypedIs, TabSet DEF Login
<1>8. file' = file /\ cookie' = cookie /\ Fresh # {}
    BY DEF Login, authVars
<1>9. belied' \in BOOLEAN /\ (belied' \/ ~belied \/ \A b \in BagToSet(calls) : ~OfUser(b))
    BY AskedIs DEF Login
<1>10. ASSUME ~belied', NEW b \in BagToSet(calls') PROVE Told(b, cookie')
    <2>1. b \in {c, d} \/ b \in BagToSet(calls)
        BY <1>6
    <2>2. CASE b \in {c, d}
        BY <1>1, <1>8, <2>2
    <2>3. CASE b \in BagToSet(calls) /\ ~belied
        BY <1>8, <2>3, TypedIs DEF Fits
    <2>4. CASE b \in BagToSet(calls) /\ ~OfUser(b)
        BY <2>4 DEF OfUser, Told
    <2> QED
        BY <1>9, <1>10, <2>1, <2>2, <2>3, <2>4
<1>11. ~belied' => Fits(tab', calls', cookie')
    BY <1>7, <1>10 DEF Fits
<1>12. Ids \ Known # {}
    BY <1>8, FreshIs
<1>13. cookie' \in Known /\ tab'.token \in Known
    BY <1>7, <1>8, TypedIs
<1>14. Later(Known)
    BY <1>6, <1>7, <1>9, <1>11, <1>12, <1>13 DEF Later
<1> QED
    BY <1>8, <1>14, NoneNew DEF FileKept

LEMMA ReloadStep ==
    ASSUME SignInInv, Reload
    PROVE  SignInInv'
<1>1. IsABag(EmptyBag) /\ BagToSet(EmptyBag) = {}
    BY EmptyIs
<1>2. TabCalls(EmptyBag, Known) /\ OneLogin(EmptyBag) /\ ~LoginWaits(EmptyBag)
    BY <1>1 DEF TabCalls, OneLogin, LoginWaits
<1>3. file' = file /\ cookie' = cookie /\ belied' = FALSE
    BY DEF Reload, authVars
<1>4. CASE tab.hasUrl
    BY <1>1, <1>2, <1>3, <1>4, RefreshedStep DEF Reload, FileKept
<1>5. CASE ~tab.hasUrl
    <2>1. calls' = EmptyBag /\ Shows("needs_proxy", NoId)
        BY <1>5 DEF Reload
    <2>2. tab' \in Tab /\ tab'.status = "needs_proxy" /\ tab'.token = NoId
        BY <2>1, ShowsIs, TypedIs
    <2>3. Fits(tab', calls', cookie')
        BY <1>1, <2>1, <2>2 DEF Fits
    <2>4. cookie' \in Known /\ tab'.token \in Known
        BY <1>3, <2>2, TypedIs
    <2>5. Later(Known)
        BY <1>2, <1>3, <2>1, <2>2, <2>3, <2>4 DEF Later
    <2> QED
        BY <1>3, <2>5, NoneNew DEF FileKept
<1> QED
    BY <1>4, <1>5

-----------------------------------------------------------------------------
(* The proxy serves.                                                         *)

LEMMA CleanedKept ==
    ASSUME SignInInv, isConfigured, Saves(Cleaned)
    PROVE  FileKept
    BY DEF SignInInv, Typed, FileKept, Saves, Cleaned, File, isConfigured

LEMMA AsksKept ==
    ASSUME SignInInv, NEW id, Asks(id)
    PROVE  FileKept
    BY CleanedKept DEF Asks, accountVars, FileKept

\* The proxy answers, or puts off, a call and tells no more than the call brought.
LEMMA ServedStep ==
    ASSUME SignInInv, FileKept, NEW c \in BagToSet(calls), NEW d \in Call,
           IdsOf(d) \subseteq Known, d.kind = c.kind, d.state # "sent",
           Told(c, cookie) => Told(d, cookie),
           calls' = With(Without(calls, c), d), OnlyServes
    PROVE  SignInInv'
<1> DEFINE rest == Without(calls, c)
<1>1. TabCalls(rest, Known) /\ BagToSet(rest) \subseteq BagToSet(calls) /\ (LoginWaits(rest) => LoginWaits(calls))
    BY CallsWithout, TypedIs
<1>2. OneLogin(rest) /\ (c.kind = "login" => \A e \in BagToSet(rest) : e.kind # "login")
    BY OneLoginWithout, TypedIs DEF TabCalls
<1>3. calls' = With(rest, d)
    OBVIOUS
<1> HIDE DEF rest
<1>4. TabCalls(calls', Known) /\ (LoginWaits(calls') => LoginWaits(calls))
    BY <1>1, <1>3, CallsWith
<1>5. OneLogin(calls')
    BY <1>1, <1>2, <1>3, OneLoginWith DEF TabCalls
<1>6. BagToSet(calls') = BagToSet(rest) \cup {d}
    BY <1>1, <1>3, WithIs DEF TabCalls
<1>7. cookie' = cookie /\ tab' = tab /\ belied' = belied
    BY DEF OnlyServes
<1>8. ~belied' => Fits(tab', calls', cookie')
    BY <1>1, <1>6, <1>7, TypedIs DEF Fits
<1>9. Later(Known)
    BY <1>4, <1>5, <1>7, <1>8, TypedIs DEF Later
<1> QED
    BY <1>9, NoneNew

LEMMA AnsweredIs ==
    ASSUME SignInInv, NEW c \in BagToSet(calls), NEW id \in Known,
           NEW state \in {"signedIn", "signedOut", "unconfigured", "done", "refused"}
    PROVE  LET d == [kind |-> c.kind, cookie |-> NoId, token |-> NoId, state |-> state, id |-> id]
           IN  /\ d \in Call /\ IdsOf(d) \subseteq Known /\ d.kind = c.kind /\ d.state # "sent"
               /\ state # "signedIn" \/ id = cookie => Told(d, cookie)
    BY TypedIs DEF Call, IdsOf, Told

LEMMA AnsweredStep ==
    ASSUME SignInInv, FileKept, NEW c \in BagToSet(calls), NEW id \in Known,
           NEW state \in {"signedIn", "signedOut", "unconfigured", "done", "refused"},
           state = "signedIn" => c.kind = "session" /\ c.state = "sent" /\ id = c.cookie,
           Answered(c, state, id), OnlyServes
    PROVE  SignInInv'
<1> DEFINE d == [kind |-> c.kind, cookie |-> NoId, token |-> NoId, state |-> state, id |-> id]
<1>1. /\ d \in Call /\ IdsOf(d) \subseteq Known /\ d.kind = c.kind /\ d.state # "sent"
      /\ state # "signedIn" \/ id = cookie => Told(d, cookie)
    BY AnsweredIs
<1>2. calls' = With(Without(calls, c), d)
    BY DEF Answered
<1> HIDE DEF d
<1>3. Told(c, cookie) => Told(d, cookie)
    BY <1>1 DEF Told
<1> QED
    BY <1>1, <1>2, <1>3, ServedStep
LEMMA ServeSessionStep ==
    ASSUME SignInInv, NEW c \in BagToSet(calls), ServeSession(c)
    PROVE  SignInInv'
<1>1. FileKept /\ OnlyServes
    BY AsksKept DEF ServeSession
<1>2. NoId \in Known /\ c.cookie \in Known
    BY TypedIs DEF IdsOf
<1>3. c.kind = "session" /\ c.state = "sent"
    BY DEF ServeSession, Waiting
<1>4. \/ Answered(c, "unconfigured", NoId)
      \/ Answered(c, "signedIn", c.cookie)
      \/ Answered(c, "signedOut", NoId)
    BY Zenon DEF ServeSession
<1> QED
    BY <1>1, <1>2, <1>3, <1>4, AnsweredStep

LEMMA ServeLoginStep ==
    ASSUME SignInInv, Numbered, NEW c \in BagToSet(calls), ServeLogin(c)
    PROVE  SignInInv'
<1>1. NoId \in Known /\ OnlyServes
    BY TypedIs DEF ServeLogin
<1>2. CASE Answered(c, "refused", NoId) /\ file' = file
    BY <1>1, <1>2, AnsweredStep DEF FileKept
<1>3. CASE Answered(c, "refused", NoId) /\ isConfigured /\ Saves(Cleaned)
    BY <1>1, <1>3, AnsweredStep, CleanedKept
<1>4. CASE LoginSucceeds(NewId) /\ Answered(c, "signedIn", NewId)
    <2> DEFINE rest == Without(calls, c)
               d == [kind |-> c.kind, cookie |-> NoId, token |-> NoId, state |-> "signedIn", id |-> NewId]
               K == Known \cup {NewId}
    <2>1. c.kind = "login" /\ LoginWaits(calls) /\ Fresh # {}
        BY DEF ServeLogin, Waiting, LoginWaits, SignInInv
    <2>2. NewId \in Ids
        BY <2>1 DEF NewId, Fresh
    <2>3. TabCalls(rest, K) /\ BagToSet(rest) \subseteq BagToSet(calls) /\ OneLogin(rest)
          /\ \A e \in BagToSet(rest) : e.kind # "login"
        <3>1. TabCalls(calls, Known) /\ OneLogin(calls) /\ IsABag(calls)
            BY TypedIs DEF TabCalls
        <3>2. TabCalls(rest, Known) /\ BagToSet(rest) \subseteq BagToSet(calls)
            BY <3>1, CallsWithout
        <3>3. OneLogin(rest) /\ \A e \in BagToSet(rest) : e.kind # "login"
            BY <2>1, <3>1, OneLoginWithout
        <3> QED
            BY <3>2, <3>3, CallsWider
    <2>4. d \in Call /\ IdsOf(d) \subseteq K /\ d.kind = "login" /\ d.state = "signedIn"
        BY <1>1, <2>1, <2>2 DEF Call, IdsOf, Kinds
    <2>5. calls' = With(rest, d)
        BY <1>4 DEF Answered
    <2> HIDE DEF rest, d
    <2>6. BagToSet(calls') = BagToSet(rest) \cup {d}
        BY <2>3, <2>5, WithIs DEF TabCalls
    <2>7. TabCalls(calls', K) /\ OneLogin(calls')
        <3>1. IsABag(rest)
            BY <2>3 DEF TabCalls
        <3> QED
            BY <2>3, <2>4, <2>5, <3>1, CallsWith, OneLoginWith
    <2>8. ~LoginWaits(calls')
        BY <2>3, <2>4, <2>6 DEF LoginWaits
    <2>9. cookie' = cookie /\ tab' = tab /\ belied' = belied
        BY <1>1 DEF OnlyServes
    <2>10. ~belied' => Fits(tab', calls', cookie')
        BY <2>3, <2>4, <2>6, <2>9, TypedIs DEF Fits, Told
    <2>11. Later(K)
        BY <2>7, <2>8, <2>9, <2>10, TypedIs DEF Later
    <2> QED
        BY <1>4, <2>1, <2>11, OneNew
<1> QED
    BY <1>2, <1>3, <1>4 DEF ServeLogin, LoginLimited, LoginFails, authVars

LEMMA LogoutKept ==
    ASSUME SignInInv, isConfigured, NEW id, Logout(id)
    PROVE  FileKept
    BY DEF SignInInv, Typed, FileKept, Logout, Saves, File, isConfigured

LEMMA ServeLogoutStep ==
    ASSUME SignInInv, NEW c \in BagToSet(calls), ServeLogout(c)
    PROVE  SignInInv'
<1>1. NoId \in Known /\ OnlyServes
    BY TypedIs DEF ServeLogout
<1>2. CASE UNCHANGED authVars /\ Answered(c, "done", NoId)
    BY <1>1, <1>2, AnsweredStep DEF FileKept, authVars
<1>3. CASE Asks(c.cookie) /\ Answered(c, "refused", NoId)
    BY <1>1, <1>3, AnsweredStep, AsksKept
<1>4. CASE validateCsrfToken(c.cookie, c.token) /\ Logout(c.cookie) /\ Answered(c, "done", NoId)
    <2>1. FileKept
        BY <1>4, LogoutKept DEF validateCsrfToken, getSession
    <2> QED
        BY <1>1, <1>4, <2>1, AnsweredStep
<1> QED
    BY <1>2, <1>3, <1>4 DEF ServeLogout

LEMMA ServePasswordStep ==
    ASSUME SignInInv, NEW c \in BagToSet(calls), ServePassword(c)
    PROVE  SignInInv'
<1> DEFINE d == [c EXCEPT !.state = "admitted"]
<1>1. FileKept /\ OnlyServes /\ NoId \in Known
    BY AsksKept, TypedIs DEF ServePassword
<1>2. c.kind = "password"
    BY DEF ServePassword, Waiting
<1>3. calls' = With(Without(calls, c), d) \/ Answered(c, "refused", NoId)
    BY Zenon DEF ServePassword
<1>4. c \in Call /\ IdsOf(c) \subseteq Known
    BY TypedIs
<1>5. d \in Call /\ IdsOf(d) \subseteq Known /\ d.kind = c.kind /\ d.state # "sent" /\ Told(d, cookie)
    BY <1>2, <1>4 DEF Call, IdsOf, Told
<1> HIDE DEF d
<1>6. CASE calls' = With(Without(calls, c), d)
    BY <1>1, <1>5, <1>6, ServedStep
<1>7. CASE Answered(c, "refused", NoId)
    BY <1>1, <1>7, AnsweredStep
<1> QED
    BY <1>3, <1>6, <1>7

LEMMA ServeBodyStep ==
    ASSUME SignInInv, NEW c \in BagToSet(calls), ServeBody(c)
    PROVE  SignInInv'
<1>1. NoId \in Known /\ OnlyServes
    BY TypedIs DEF ServeBody
<1>2. CASE ChangePassword(c.cookie) /\ Answered(c, "done", NoId)
    BY <1>1, <1>2, AnsweredStep DEF ChangePassword, Renewed, FileKept
<1>3. CASE ChangeRefused(c.cookie) /\ Answered(c, "refused", NoId)
    <2>1. FileKept
        BY <1>3, CleanedKept DEF ChangeRefused, accountVars, FileKept
    <2> QED
        BY <1>1, <1>3, <2>1, AnsweredStep
<1> QED
    BY <1>2, <1>3 DEF ServeBody
-----------------------------------------------------------------------------
(* Answers come back.                                                        *)

\* An answer takes its call away and may bring a cookie.
LEMMA SettledStep ==
    ASSUME SignInInv, NEW c \in BagToSet(calls), NEW k \in Known, Settled(c, k),
           tab' \in Tab, tab'.token \in Known,
           ~belied => (tab'.status = "authenticated" => tab'.token = k)
    PROVE  SignInInv'
<1> DEFINE rest == Without(calls, c)
<1>1. TabCalls(rest, Known) /\ BagToSet(rest) \subseteq BagToSet(calls) /\ (LoginWaits(rest) => LoginWaits(calls))
    BY CallsWithout, TypedIs
<1>2. OneLogin(rest)
    BY OneLoginWithout, TypedIs DEF TabCalls
<1>3. calls' = rest /\ cookie' = k /\ file' = file
      /\ belied' = (belied \/ (k # cookie /\ \E d \in BagToSet(rest) : OfUser(d)))
    BY DEF Settled, authVars
<1> HIDE DEF rest
<1>4. belied' \in BOOLEAN
      /\ (~belied' => ~belied /\ (k = cookie \/ \A d \in BagToSet(rest) : ~OfUser(d)))
    BY <1>3, TypedIs, Zenon
<1>5. ASSUME ~belied', NEW d \in BagToSet(rest) PROVE Told(d, k)
    <2>1. CASE k = cookie
        BY <1>1, <1>4, <1>5, <2>1, TypedIs DEF Fits
    <2>2. CASE ~OfUser(d)
        BY <2>2 DEF OfUser, Told
    <2> QED
        BY <1>4, <1>5, <2>1, <2>2
<1>6. ~belied' => Fits(tab', calls', cookie')
    BY <1>3, <1>4, <1>5 DEF Fits
<1>7. Later(Known)
    BY <1>1, <1>2, <1>3, <1>4, <1>6, TypedIs DEF Later
<1> QED
    BY <1>3, <1>7, NoneNew DEF FileKept

LEMMA CallIs ==
    ASSUME SignInInv, NEW c \in BagToSet(calls)
    PROVE  c.id \in Known /\ c.cookie \in Known /\ (~belied => Told(c, cookie))
    BY TypedIs DEF IdsOf, Fits

LEMMA SessionAnsweredStep ==
    ASSUME SignInInv, NEW c \in BagToSet(calls), SessionAnswered(c)
    PROVE  SignInInv'
<1>1. c.kind = "session" /\ Settled(c, cookie) /\ cookie \in Known /\ NoId \in Known
    BY TypedIs DEF SessionAnswered
<1>2. CASE c.state = "signedIn" /\ Shows("authenticated", c.id)
    <2>1. tab' \in Tab /\ tab'.token = c.id /\ c.id \in Known
        BY <1>2, CallIs, ShowsIs
    <2>2. ~belied => c.id = cookie
        BY <1>1, <1>2, CallIs DEF Told
    <2> QED
        BY <1>1, <2>1, <2>2, SettledStep
<1>3. CASE Shows("unauthenticated", NoId) \/ Shows("unconfigured", NoId)
    <2>1. tab' \in Tab /\ tab'.token = NoId /\ tab'.status # "authenticated"
        BY <1>1, <1>3, ShowsIs
    <2> QED
        BY <1>1, <2>1, SettledStep
<1> QED
    BY <1>2, <1>3 DEF SessionAnswered, LearnSession

LEMMA LoginAnsweredStep ==
    ASSUME SignInInv, NEW c \in BagToSet(calls), LoginAnswered(c)
    PROVE  SignInInv'
<1>1. CASE Shows("authenticated", c.id) /\ Settled(c, c.id)
    <2>1. tab' \in Tab /\ tab'.token = c.id /\ c.id \in Known
        BY <1>1, CallIs, ShowsIs
    <2> QED
        BY <1>1, <2>1, SettledStep
<1>2. CASE Shows("unauthenticated", tab.token) /\ Settled(c, cookie)
    <2>1. tab' \in Tab /\ tab'.token \in Known /\ tab'.status # "authenticated" /\ cookie \in Known
        BY <1>2, TypedIs, ShowsIs
    <2> QED
        BY <1>2, <2>1, SettledStep
<1> QED
    BY <1>1, <1>2 DEF LoginAnswered

LEMMA LogoutAnsweredStep ==
    ASSUME SignInInv, NEW c \in BagToSet(calls), LogoutAnswered(c)
    PROVE  SignInInv'
<1> DEFINE k == IF c.state = "done" THEN NoId ELSE cookie
<1>1. Shows("unauthenticated", NoId) /\ Settled(c, k)
    BY DEF LogoutAnswered
<1>2. NoId \in Known /\ k \in Known
    BY TypedIs
<1> HIDE DEF k
<1>3. tab' \in Tab /\ tab'.token = NoId /\ tab'.status # "authenticated"
    BY <1>1, <1>2, ShowsIs
<1> QED
    BY <1>1, <1>2, <1>3, SettledStep

LEMMA PasswordAnsweredStep ==
    ASSUME SignInInv, NEW c \in BagToSet(calls), PasswordAnswered(c)
    PROVE  SignInInv'
<1>1. NoId \in Known /\ cookie \in Known /\ tab.token \in Known /\ tab \in Tab
    BY TypedIs
<1>2. CASE Shows("unauthenticated", NoId) /\ Settled(c, NoId)
    <2>1. tab' \in Tab /\ tab'.token = NoId /\ tab'.status # "authenticated"
        BY <1>1, <1>2, ShowsIs
    <2> QED
        BY <1>1, <1>2, <2>1, SettledStep
<1>3. CASE UNCHANGED tab /\ Settled(c, cookie)
    <2>1. ~belied => (tab.status = "authenticated" => tab.token = cookie)
        BY TypedIs DEF Fits
    <2> QED
        BY <1>1, <1>3, <2>1, SettledStep
<1> QED
    BY <1>2, <1>3 DEF PasswordAnswered

LEMMA PageAnsweredStep ==
    ASSUME SignInInv, NEW c \in BagToSet(calls), PageAnswered(c)
    PROVE  SignInInv'
<1> DEFINE rest == Without(calls, c)
<1>1. TabCalls(rest, Known) /\ BagToSet(rest) \subseteq BagToSet(calls) /\ (LoginWaits(rest) => LoginWaits(calls))
    BY CallsWithout, TypedIs
<1>2. OneLogin(rest)
    BY OneLoginWithout, TypedIs DEF TabCalls
<1>3. FileKept /\ cookie' = cookie
    BY AsksKept DEF PageAnswered
<1>4. \/ Refreshed(rest) /\ Asked
      \/ calls' = rest /\ UNCHANGED <<tab, belied>>
    BY Zenon DEF PageAnswered
<1> HIDE DEF rest
<1>5. CASE Refreshed(rest) /\ Asked
    <2>1. belied' \in BOOLEAN /\ (belied' \/ ~belied \/ \A d \in BagToSet(rest) : ~OfUser(d))
        BY <1>1, <1>5, AskedIs
    <2> QED
        BY <1>1, <1>2, <1>3, <1>5, <2>1, RefreshedStep
<1>6. CASE calls' = rest /\ UNCHANGED <<tab, belied>>
    <2>1. ~belied' => Fits(tab', calls', cookie')
        BY <1>1, <1>3, <1>6, TypedIs DEF Fits
    <2>2. Later(Known)
        BY <1>1, <1>2, <1>3, <1>6, <2>1, TypedIs DEF Later
    <2> QED
        BY <1>3, <2>2, NoneNew
<1> QED
    BY <1>4, <1>5, <1>6

LEMMA FailsStep ==
    ASSUME SignInInv, NEW c \in BagToSet(calls), Fails(c)
    PROVE  SignInInv'
<1> DEFINE status == AfterError(c)
           token == IF c.kind = "logout" THEN NoId ELSE tab.token
<1>1. Shows(status, token) /\ Settled(c, cookie)
    BY DEF Fails
<1>2. token \in Known /\ cookie \in Known
    BY TypedIs
<1>3. status \in {"loading", "needs_proxy", "unconfigured", "unauthenticated", "authenticated"}
    BY TypedIs DEF AfterError
<1>4. status = "authenticated" => tab.status = "authenticated" /\ token = tab.token
    BY DEF AfterError
<1> HIDE DEF status, token
<1>5. tab' \in Tab /\ tab'.status = status /\ tab'.token = token
    BY <1>1, <1>2, <1>3, ShowsIs
<1>6. ~belied => (tab'.status = "authenticated" => tab'.token = cookie)
    BY <1>4, <1>5, TypedIs DEF Fits
<1> QED
    BY <1>1, <1>2, <1>5, <1>6, SettledStep

-----------------------------------------------------------------------------
(* The rest of the world.                                                    *)

\* What leaves the tab and its calls alone.
LEMMA ElsewhereStep ==
    ASSUME SignInInv, FileKept, UNCHANGED <<tab, calls>>, cookie' \in Known,
           belied' = TRUE \/ UNCHANGED <<cookie, belied>>
    PROVE  SignInInv'
<1>1. ~belied' => Fits(tab', calls', cookie')
    BY TypedIs
<1>2. Later(Known)
    BY <1>1, TypedIs DEF Later
<1> QED
    BY <1>2, NoneNew

LEMMA OtherTabFits ==
    ASSUME SignInInv, Numbered, OtherTab
    PROVE  SignInInv'
<1>1. tab' = tab /\ calls' = calls /\ belied' = TRUE
    BY DEF OtherTab
<1>2. CASE (\E id \in Fresh : id # NewId) /\ LoginSucceeds(NewId) /\ cookie' = NewId
    <2> DEFINE K == Known \cup {NewId}
    <2>1. Fresh # {} /\ Ids \ K # {}
        BY <1>2, FreshIs
    <2>2. TabCalls(calls', K)
        BY <1>1, TypedIs, CallsWider
    <2>3. Later(K)
        BY <1>1, <1>2, <2>1, <2>2, TypedIs DEF Later
    <2> QED
        BY <1>2, <2>1, <2>3, OneNew
<1>3. CASE getSession(cookie) /\ Logout(cookie) /\ cookie' = NoId
    <2>1. FileKept
        BY <1>3, LogoutKept DEF getSession
    <2> QED
        BY <1>1, <1>3, <2>1, TypedIs, ElsewhereStep
<1> QED
    BY <1>2, <1>3 DEF OtherTab

LEMMA TickKept ==
    ASSUME SignInInv, AuthTick
    PROVE  FileKept
<1>1. CASE ~isConfigured
    BY <1>1 DEF AuthTick, FileKept
<1>2. CASE isConfigured
    <2>1. ASSUME NEW s \in file
          PROVE  [s EXCEPT !.left = Elapsed(@)] \in Session /\ [s EXCEPT !.left = Elapsed(@)].id = s.id
        <3> DEFINE m == Elapsed(s.left)
        <3>1. s \in Session
            BY <1>2 DEF SignInInv, Typed, File, isConfigured
        <3>2. m \in 0..Lifetime
            BY <3>1, AuthConstants DEF Elapsed, Session
        <3>3. [s EXCEPT !.left = m] \in Session /\ [s EXCEPT !.left = m].id = s.id
            <4> HIDE DEF m
            <4> QED
                BY <3>1, <3>2 DEF Session
        <3> QED
            BY <3>3
    <2>2. file' = {[s EXCEPT !.left = Elapsed(@)] : s \in file}
        BY <1>2 DEF AuthTick
    <2> QED
        BY <1>2, <2>1, <2>2 DEF FileKept, File
<1> QED
    BY <1>1, <1>2

-----------------------------------------------------------------------------
(* The tab and its token.                                                    *)

LEMMA SignInNext ==
    ASSUME SignInInv, Numbered, [Next]_signInVars
    PROVE  SignInInv'
<1>1. CASE \E kind \in Kinds : Serve(kind)
    BY <1>1, ServeSessionStep, ServeLoginStep, ServeLogoutStep, ServePasswordStep, ServeBodyStep DEF Serve
<1>2. CASE \E kind \in Kinds : Answer(kind)
    BY <1>2, SessionAnsweredStep, LoginAnsweredStep, LogoutAnsweredStep, PasswordAnsweredStep,
       PageAnsweredStep DEF Answer
<1>3. CASE SetProxyUrl \/ Login(TRUE) \/ Login(FALSE) \/ Reload
    BY <1>3, SetProxyUrlStep, LoginStep, ReloadStep
<1>4. CASE SignOut \/ ChangesPassword \/ Poll
    BY <1>4, SentStep DEF SignOut, ChangesPassword, Poll, Kinds
<1>5. CASE \E c \in BagToSet(calls) : Fails(c)
    BY <1>5, FailsStep
<1>6. CASE OtherTab
    BY <1>6, OtherTabFits
<1>7. CASE Shell \/ ProxyRestarts \/ Tick \/ UNCHANGED signInVars
    <2>1. FileKept
        <3>1. CASE Shell
            BY <3>1 DEF Shell, SetupAdmin, ResetPassword, Renewed, FileKept
        <3>2. CASE ProxyRestarts \/ UNCHANGED signInVars
            BY <3>2 DEF ProxyRestarts, Restart, accountVars, signInVars, FileKept
        <3>3. CASE Tick
            BY <3>3, TickKept DEF Tick
        <3> QED
            BY <1>7, <3>1, <3>2, <3>3
    <2>2. UNCHANGED <<tab, calls, cookie, belied>>
        BY <1>7 DEF Shell, ProxyRestarts, Tick, signInVars
    <2> QED
        BY <2>1, <2>2, TypedIs, ElsewhereStep
<1> QED
    BY <1>1, <1>2, <1>3, <1>4, <1>5, <1>6, <1>7 DEF Next

LEMMA SignInFirst == Init => SignInInv
<1> SUFFICES ASSUME Init PROVE SignInInv
    OBVIOUS
<1>1. IsABag(calls) /\ BagToSet(calls) = {}
    BY EmptyIs DEF Init
<1>2. Typed
    BY <1>1 DEF Init, AuthInit, Typed, Tab, File
<1>3. Fits(tab, calls, cookie)
    BY <1>1 DEF Init, Fits
<1>4. OneLogin(calls) /\ ~LoginWaits(calls)
    BY <1>1 DEF OneLogin, LoginWaits
<1> QED
    BY <1>2, <1>3, <1>4 DEF SignInInv

LEMMA SignInAlways == Spec => []SignInInv
    BY SignInFirst, SignInNext, NumbersHeld, PTL DEF Spec

\* Whatever calls of a tab overlap, fail or are lost with a reload, and whenever their
\* answers come back: a tab that shows itself signed in has the token of the cookie,
\* unless the cookie has changed under it.
THEOREM TokenKept == Spec => []TokenFits
<1>1. SignInInv => TokenFits
    BY DEF SignInInv, Fits, TokenFits
<1> QED
    BY <1>1, SignInAlways, PTL

\* The types of the account, the limiter, the tab and its calls.
THEOREM SignInTyped == Spec => []TypeOK
<1>1. Bounded(entry, wrong) => entry \in Entry \cup {NoEntry} /\ wrong \in [0..(AttemptWindow - 1) -> Nat]
    BY DEF Bounded, Ages
<1>2. Bounded(entry, wrong) /\ SignInInv /\ Numbered => TypeOK
    BY <1>1 DEF SignInInv, Typed, Numbered, TypeOK, AuthTypeOK
<1> QED
    BY <1>2, LimiterAlways, SignInAlways, NumbersHeld, PTL

-----------------------------------------------------------------------------
(* The pages of the dashboard: bags of calls, as BagsExt has them.           *)

LEMMA PageBagAdd ==
    ASSUME NEW B, IsABag(B), NEW c
    PROVE  IsABag(BagAdd(B, c)) /\ BagToSet(BagAdd(B, c)) = BagToSet(B) \cup {c}
    BY DEF IsABag, BagAdd, BagToSet

LEMMA PageBagRemove ==
    ASSUME NEW B, IsABag(B), NEW c
    PROVE  IsABag(BagRemove(B, c)) /\ BagToSet(BagRemove(B, c)) \subseteq BagToSet(B)
<1> DEFINE R == BagRemove(B, c)
<1>1. CASE c \notin DOMAIN B
    BY <1>1 DEF BagRemove
<1>2. CASE c \in DOMAIN B /\ B[c] = 1
    <2>1. R = [e \in DOMAIN B \ {c} |-> B[e]]
        BY <1>2 DEF BagRemove
    <2> QED
        BY <2>1 DEF IsABag, BagToSet
<1>3. CASE c \in DOMAIN B /\ B[c] # 1
    <2>1. R = [e \in DOMAIN B |-> IF e = c THEN B[e] - 1 ELSE B[e]]
        BY <1>3 DEF BagRemove
    <2>2. \A e \in DOMAIN B : B[e] \in Nat \ {0}
        BY DEF IsABag
    <2>3. \A e \in DOMAIN R : R[e] \in Nat \ {0}
        BY <1>3, <2>1, <2>2
    <2> QED
        BY <2>1, <2>3 DEF IsABag, BagToSet
<1> QED
    BY <1>1, <1>2, <1>3

LEMMA PageBagOf ==
    ASSUME NEW S
    PROVE  IsABag(SetToBag(S)) /\ BagToSet(SetToBag(S)) = S
    BY DEF IsABag, SetToBag, BagToSet

LEMMA PageBagNone ==
    /\ IsABag(EmptyBag) /\ BagToSet(EmptyBag) = {}
    /\ \A c : BagAdd(EmptyBag, c) = SetToBag({c})
    /\ \A c : BagRemove(SetToBag({c}), c) = EmptyBag
    /\ \A c : SetToBag({c}) # EmptyBag
    BY DEF IsABag, BagToSet, SetToBag, EmptyBag, BagAdd, BagRemove

-----------------------------------------------------------------------------
(* What is so of every page, and of its calls.                               *)

Fetches == {"get", "reload"}

\* A call under way, beside a page.
KnownCall(c, p) ==
    /\ c \in PageCall
    /\ p.subject # "settings"
    /\ c.kind # "save" => c.linked
    /\ c.kind \in Fetches => c.state # "orphan"
    /\ c.kind = "switch" => c.arg \in Value
    /\ c.kind = "decide" /\ c.state # "orphan" => p.name = "list"
    /\ p.name = "new" /\ c.state # "orphan" => c.kind = "create"

PageCalls(bag, p) == IsABag(bag) /\ \A c \in BagToSet(bag) : KnownCall(c, p)

\* Pages that have no calls, or never asked, vouch for nothing.
Placed(p, b) ==
    /\ p \in Page /\ b \in BOOLEAN
    /\ p.subject = "settings" \/ p.name = "new" => b /\ p.shown = Absent
    /\ p.subject # "policy" => p.name = "list"

PageTyped ==
    /\ LinkTypeOK
    /\ thing \in Value \cup {Absent}
    /\ editor \in Editor
    /\ Placed(page, pageBelied)
    /\ PageCalls(pageCalls, page)

LEMMA CallsMore ==
    ASSUME NEW B, NEW p, PageCalls(B, p), NEW c, KnownCall(c, p)
    PROVE  PageCalls(BagAdd(B, c), p)
    BY PageBagAdd DEF PageCalls

LEMMA CallsFewer ==
    ASSUME NEW B, NEW p, PageCalls(B, p), NEW c
    PROVE  PageCalls(BagRemove(B, c), p)
    BY PageBagRemove DEF PageCalls

\* Of the calls of a page that is left, none is about a page any more.
LEMMA CallsLeft ==
    ASSUME NEW B, NEW p, PageCalls(B, p), NEW other, other.subject # "settings"
    PROVE  PageCalls(Left(B), other)
<1> DEFINE O == {c \in BagToSet(B) : c.state \in {"sent", "orphan"} /\ c.kind \notin {"get", "reload"}}
           S == {[c EXCEPT !.state = "orphan"] : c \in O}
<1>1. Left(B) = SetToBag(S)
    BY DEF Left
<1>2. ASSUME NEW c \in O PROVE KnownCall([c EXCEPT !.state = "orphan"], other)
    <2>1. KnownCall(c, p) /\ c.kind \notin Fetches
        BY DEF PageCalls, Fetches
    <2> QED
        BY <2>1 DEF KnownCall, PageCall, Fetches
<1>3. \A c \in S : KnownCall(c, other)
    BY <1>2
<1> HIDE DEF S
<1> QED
    BY <1>1, <1>3, PageBagOf DEF PageCalls

LEMMA SentHas ==
    ASSUME NEW kind, NEW arg
    PROVE  /\ NewCall(kind, arg).kind = kind /\ NewCall(kind, arg).arg = arg
           /\ NewCall(kind, arg).state = "sent"
           /\ NewCall(kind, arg).linked = (kind # "save" \/ isConnected)
    BY DEF NewCall

LEMMA SentKnown ==
    ASSUME NEW kind \in {"get", "reload", "switch", "save", "create", "delete", "decide"},
           NEW arg \in Value \cup {Absent}, NEW p, p.subject # "settings",
           kind = "switch" => arg \in Value, kind = "decide" => p.name = "list",
           p.name = "new" => kind = "create"
    PROVE  KnownCall(NewCall(kind, arg), p)
<1> DEFINE l == kind # "save" \/ isConnected
<1>1. NewCall(kind, arg) = [kind |-> kind, arg |-> arg, state |-> "sent", got |-> Absent, linked |-> l]
    BY DEF NewCall
<1>2. l \in BOOLEAN /\ (kind # "save" => l)
    OBVIOUS
<1> HIDE DEF l
<1> QED
    BY <1>1, <1>2 DEF KnownCall, PageCall, Fetches

\* Whoever asks, the types stay.
LEMMA AsksTyped ==
    ASSUME LinkTypeOK', thing' \in Value \cup {Absent}, editor' \in Editor,
           NEW kind \in Fetches, NEW arg \in Value \cup {Absent},
           NEW p \in Page, p.subject # "settings", p.name # "new",
           p.subject # "policy" => p.name = "list",
           NEW rest, PageCalls(rest, p),
           Loads(rest, kind, p, arg)
    PROVE  PageTyped'
<1>1. KnownCall(NewCall(kind, arg), p)
    BY SentKnown DEF Fetches
<1>2. pageCalls' = BagAdd(rest, NewCall(kind, arg))
    BY DEF Loads
<1>3. PageCalls(pageCalls', p)
    BY <1>1, <1>2, CallsMore
<1>4. pageBelied' \in BOOLEAN
    BY Zenon DEF Loads
<1>5. page' \in Page /\ page'.name = p.name /\ page'.subject = p.subject
    BY DEF Loads, Page
<1> QED
    BY <1>3, <1>4, <1>5 DEF PageTyped, Placed, PageCalls, KnownCall

LEMMA GoesTyped ==
    ASSUME LinkTypeOK', thing' \in Value \cup {Absent}, page \in Page,
           NEW name \in {"list", "detail", "new"}, page.subject # "settings",
           name # "list" => page.subject = "policy",
           NEW bag, PageCalls(bag, page), Goes(name, bag)
    PROVE  PageTyped'
<1> DEFINE p == Mounted(page.subject, name)
<1>1. p \in Page /\ p.name = name /\ p.subject = page.subject /\ p.shown = Absent
    BY DEF Page, Mounted
<1>2. editor' \in Editor
    BY DEF Goes, Nothing, Editor
<1>3. PageCalls(Left(bag), p)
    BY <1>1, CallsLeft
<1> HIDE DEF p
<1>4. CASE isConnected /\ name # "new"
    <2>1. Loads(Left(bag), "get", p, Absent)
        BY <1>4 DEF Goes, p
    <2> QED
        BY <1>1, <1>2, <1>3, <1>4, <2>1, AsksTyped DEF Fetches
<1>5. CASE ~(isConnected /\ name # "new")
    <2>1. page' = p /\ pageCalls' = Left(bag) /\ pageBelied' = TRUE
        BY <1>5 DEF Goes, p
    <2> QED
        BY <1>1, <1>2, <1>3, <2>1 DEF PageTyped, Placed
<1> QED
    BY <1>4, <1>5

-----------------------------------------------------------------------------
(* The types of the connection and of the pages.                             *)

LEMMA BecomesTyped ==
    ASSUME NEW next \in Link, NEW bag, IsABag(bag), BagToSet(bag) \subseteq Ping,
           up \in BOOLEAN, Becomes(next, bag)
    PROVE  LinkTypeOK'
<1>1. IsABag(Pinged(bag, next.address)) /\ BagToSet(Pinged(bag, next.address)) \subseteq Ping
    <2>1. [address |-> next.address, result |-> "waiting"] \in Ping
        BY DEF Link, Ping
    <2> QED
        BY <2>1, PageBagAdd DEF Pinged
<1> QED
    BY <1>1 DEF Becomes, LinkTypeOK

LEMMA LinkSet ==
    ASSUME link \in Link, NEW n \in 0..3, NEW s \in {"connected", "disconnected", "reconnecting"}
    PROVE  [link EXCEPT !.failures = n, !.status = s] \in Link
    BY DEF Link

LEMMA LinkTyped ==
    ASSUME LinkTypeOK, LinkNext
    PROVE  LinkTypeOK'
<1>1. link \in Link /\ link.address \in Addresses /\ up \in BOOLEAN
    BY DEF LinkTypeOK, Link
<1> DEFINE ArePings(bag) == IsABag(bag) /\ BagToSet(bag) \subseteq Ping
<1>2. ArePings(pings)
    BY DEF LinkTypeOK
<1>3. ASSUME NEW a \in Addresses, NEW bag, ArePings(bag)
      PROVE  ArePings(Pinged(bag, a))
    <2>1. [address |-> a, result |-> "waiting"] \in Ping
        BY DEF Ping
    <2> QED
        BY <1>3, <2>1, PageBagAdd DEF Pinged
<1>4. \A p : ArePings(BagRemove(pings, p))
    BY <1>2, PageBagRemove
<1> HIDE DEF ArePings
<1>5. \A bag : \A next \in Link : ArePings(bag) /\ Becomes(next, bag) => LinkTypeOK'
    BY <1>1, BecomesTyped DEF ArePings
<1>6. CASE Interval
    <2>1. ArePings(pings')
        BY <1>1, <1>2, <1>3, <1>6 DEF Interval
    <2> QED
        BY <1>1, <1>6, <2>1 DEF Interval, LinkTypeOK, ArePings
<1>7. CASE Reconnect
    <2> DEFINE next == [link EXCEPT !.failures = 0, !.status = "reconnecting"]
    <2>1. next \in Link
        <3>1. 0 \in 0..3
            OBVIOUS
        <3> QED
            BY <1>1, <3>1, LinkSet
    <2>2. Becomes(next, Pinged(pings, link.address))
        BY <1>7 DEF Reconnect
    <2> HIDE DEF next
    <2> QED
        BY <1>1, <1>2, <1>3, <1>5, <2>1, <2>2
<1>8. ASSUME NEW a \in Addresses, SetAddress(a) PROVE LinkTypeOK'
    <2> DEFINE next == [address |-> a, failures |-> 0, status |-> "reconnecting"]
    <2>1. next \in Link
        BY DEF Link
    <2>2. Becomes(next, pings)
        BY <1>8 DEF SetAddress
    <2> HIDE DEF next
    <2> QED
        BY <1>2, <1>5, <2>1, <2>2
<1>9. ASSUME NEW a \in Addresses, PingServed(a) PROVE LinkTypeOK'
    <2> DEFINE p == [address |-> a, result |-> "waiting"]
               m == IF up /\ a = "proxy" THEN "ok" ELSE "failed"
               q == [p EXCEPT !.result = m]
    <2>1. m \in {"ok", "failed"}
        OBVIOUS
    <2>2. q \in Ping
        <3> HIDE DEF m
        <3> QED
            BY <2>1 DEF Ping
    <2>3. /\ pings' = BagAdd(BagRemove(pings, p), q)
          /\ UNCHANGED <<up, link>>
        BY <1>9 DEF PingServed
    <2> HIDE DEF p, q
    <2>4. ArePings(pings')
        BY <1>4, <2>2, <2>3, PageBagAdd DEF ArePings
    <2> QED
        BY <1>1, <2>3, <2>4 DEF LinkTypeOK, ArePings
<1>10. CASE PingSucceeded
    <2> DEFINE next == [link EXCEPT !.failures = 0, !.status = "connected"]
    <2>1. next \in Link
        <3>1. 0 \in 0..3
            OBVIOUS
        <3> QED
            BY <1>1, <3>1, LinkSet
    <2>2. PICK p : Becomes(next, BagRemove(pings, p))
        BY <1>10 DEF PingSucceeded
    <2> HIDE DEF next
    <2> QED
        BY <1>4, <1>5, <2>1, <2>2
<1>11. CASE PingFailed
    <2> DEFINE m == IF link.failures = 3 THEN 3 ELSE link.failures + 1
               s == IF m = 3 THEN "disconnected" ELSE "reconnecting"
               next == [link EXCEPT !.failures = m, !.status = s]
    <2>1. m \in 0..3
        BY <1>1 DEF Link
    <2>2. s \in {"disconnected", "reconnecting"}
        OBVIOUS
    <2>3. next \in Link
        <3> HIDE DEF m, s
        <3> QED
            BY <1>1, <2>1, <2>2, LinkSet
    <2>4. PICK p : Becomes(next, BagRemove(pings, p))
        BY <1>11 DEF PingFailed
    <2> HIDE DEF next
    <2> QED
        BY <1>4, <1>5, <2>3, <2>4
<1>12. CASE UpOrDown
    BY <1>1, <1>2, <1>12 DEF UpOrDown, LinkTypeOK, ArePings
<1> QED
    BY <1>6, <1>7, <1>8, <1>9, <1>10, <1>11, <1>12 DEF LinkNext

LEMMA ComesTyped ==
    ASSUME LinkTypeOK, ComesOrGoes
    PROVE  LinkTypeOK'
<1> DEFINE s == IF isConnected THEN "disconnected" ELSE "connected"
<1>1. [link EXCEPT !.status = s] \in Link
    <2>1. s \in {"connected", "disconnected"}
        OBVIOUS
    <2> HIDE DEF s
    <2> QED
        BY <2>1 DEF LinkTypeOK, Link
<1>2. link' = link \/ link' = [link EXCEPT !.status = s]
    BY DEF ComesOrGoes, UpOrDown
<1> HIDE DEF s
<1>3. pings' = pings /\ up' \in BOOLEAN
    BY DEF ComesOrGoes, UpOrDown, LinkTypeOK
<1> QED
    BY <1>1, <1>2, <1>3 DEF LinkTypeOK

LEMMA LinkKept ==
    ASSUME LinkTypeOK, UNCHANGED linkVars
    PROVE  LinkTypeOK' /\ (isConnected' <=> isConnected)
    BY DEF LinkTypeOK, linkVars, isConnected

\* A page makes a call and stays.
LEMMA CallsTyped ==
    ASSUME PageTyped,
           NEW kind \in {"switch", "save", "create", "delete", "decide"},
           NEW arg \in Value \cup {Absent},
           kind = "switch" => arg \in Value, kind = "decide" => page.name = "list",
           page.subject # "settings",
           page.name = "new" => kind = "create" /\ page'.shown = Absent,
           page' \in Page, page'.name = page.name, page'.subject = page.subject,
           editor' = editor, Calls(kind, arg)
    PROVE  PageTyped'
<1>1. KnownCall(NewCall(kind, arg), page)
    BY SentKnown
<1>2. pageCalls' = BagAdd(pageCalls, NewCall(kind, arg)) /\ thing' = thing /\ UNCHANGED linkVars
    BY DEF Calls
<1>3. PageCalls(pageCalls', page)
    BY <1>1, <1>2, CallsMore DEF PageTyped
<1>4. pageBelied' \in BOOLEAN /\ (pageBelied => pageBelied')
    BY Zenon DEF Calls
<1> QED
    BY <1>2, <1>3, <1>4, LinkKept DEF PageTyped, Placed, PageCalls, KnownCall

\* It makes use of an answer and stays.
LEMMA AnsweredTyped ==
    ASSUME PageTyped, NEW c, pageCalls' = BagRemove(pageCalls, c),
           UNCHANGED linkVars, thing' = thing,
           page.subject # "settings", page.name = "new" => page'.shown = Absent,
           page' \in Page, page'.name = page.name, page'.subject = page.subject,
           editor' \in Editor, pageBelied' = pageBelied \/ pageBelied' = TRUE
    PROVE  PageTyped'
<1>1. PageCalls(pageCalls', page)
    BY CallsFewer DEF PageTyped
<1> QED
    BY <1>1, LinkKept DEF PageTyped, Placed, PageCalls, KnownCall

LEMMA TakenTyped ==
    ASSUME NEW e \in Editor, NEW shown \in Shown \cup {Absent}
    PROVE  Taken(e, shown) \in Editor
<1>1. CASE shown = Absent \/ e.dirty
    BY <1>1 DEF Taken
<1>2. CASE ~(shown = Absent \/ e.dirty)
    BY <1>2 DEF Taken, Editor, Shown
<1> QED
    BY <1>1, <1>2

LEMMA ClearedTyped ==
    ASSUME editor \in Editor, NEW c \in PageCall, NEW shown \in Shown \cup {Absent}
    PROVE  Cleared(c, shown) \in Editor
<1>1. [editor EXCEPT !.saved = c.arg, !.dirty = FALSE] \in Editor
    BY DEF Editor, PageCall
<1> QED
    BY <1>1, TakenTyped DEF Cleared

LEMMA RevertedTyped ==
    ASSUME page \in Page, NEW c, KnownCall(c, page)
    PROVE  Reverted(c) \in Shown \cup {Absent}
<1>1. page.shown \in Shown \cup {Absent}
    BY DEF Page
<1>2. CASE c.kind = "switch" /\ page.shown # Absent
    <2> DEFINE m == ~c.arg.on
    <2>1. m \in BOOLEAN
        OBVIOUS
    <2>2. Reverted(c) = [page.shown EXCEPT !.on = m]
        BY <1>2 DEF Reverted
    <2> HIDE DEF m
    <2> QED
        BY <1>1, <1>2, <2>1, <2>2 DEF Shown
<1>3. CASE ~(c.kind = "switch" /\ page.shown # Absent)
    BY <1>1, <1>3 DEF Reverted
<1> QED
    BY <1>2, <1>3

LEMMA AsShownTyped ==
    ASSUME NEW v \in Value \cup {Absent}
    PROVE  AsShown(v) \in Shown \cup {Absent}
    BY DEF AsShown, Shown, Value

LEMMA ShownTyped ==
    ASSUME page \in Page, NEW shown \in Shown \cup {Absent}, NEW l \in BOOLEAN, NEW e \in BOOLEAN
    PROVE  /\ [page EXCEPT !.shown = shown, !.loading = l, !.error = e] \in Page
           /\ [page EXCEPT !.shown = shown, !.loading = l, !.error = e].shown = shown
           /\ [page EXCEPT !.shown = shown, !.loading = l, !.error = e].name = page.name
           /\ [page EXCEPT !.shown = shown, !.loading = l, !.error = e].subject = page.subject
    BY DEF Page

-----------------------------------------------------------------------------
(* What a page shows, and the one call that may be under way.                *)

PageFits ==
    IF page.shown = Absent THEN Listed(thing) = Absent
    ELSE thing # Absent /\ page.shown.on = thing.on

\* When it has been made use of, or was refused, the page fits.  A switch that the proxy
\* has not carried out is shown the other way; of any other call that was accepted, the
\* answer fetches.
Harmless(c) ==
    /\ c.state # "orphan" /\ c.linked
    /\ c.kind \in Fetches /\ c.state = "ok" => c.got = Listed(thing)
    /\ c.kind = "switch" =>
        /\ page.shown # Absent /\ thing # Absent /\ c.arg.on = page.shown.on
        /\ IF c.state = "ok" THEN thing.on = c.arg.on ELSE thing.on = ~c.arg.on
    /\ c.kind \notin Fetches \cup {"switch"} /\ c.state # "ok" => PageFits
    /\ c.kind \in Fetches => c.state # "refused"

Alone(c) == pageCalls = SetToBag({c}) /\ Harmless(c)

Agrees ==
    \/ pageBelied \/ ~isConnected
    \/ pageCalls = EmptyBag /\ PageFits
    \/ \E c : Alone(c)

PageInv == PageTyped /\ Agrees

LEMMA OnlyCall ==
    ASSUME PageInv, ~pageBelied, isConnected, NEW c \in BagToSet(pageCalls)
    PROVE  pageCalls = SetToBag({c}) /\ Harmless(c)
<1>1. pageCalls # EmptyBag
    BY PageBagNone
<1>2. PICK d : Alone(d)
    BY <1>1 DEF PageInv, Agrees
<1>3. BagToSet(pageCalls) = {d}
    BY <1>2, PageBagOf DEF Alone
<1> QED
    BY <1>2, <1>3 DEF Alone

LEMMA AsksAgrees ==
    ASSUME NEW rest, NEW kind \in Fetches, NEW p, NEW arg \in Value \cup {Absent},
           Loads(rest, kind, p, arg)
    PROVE  Agrees'
<1>1. CASE rest # EmptyBag
    BY <1>1 DEF Loads, Agrees
<1>2. CASE rest = EmptyBag
    <2> SUFFICES ASSUME NEW s, s = NewCall(kind, arg) PROVE Alone(s)'
        BY DEF Agrees
    <2>1. s.kind = kind /\ s.state = "sent" /\ s.linked = (kind # "save" \/ isConnected)
        BY SentHas
    <2>2. pageCalls' = SetToBag({s})
        BY <1>2, PageBagNone DEF Loads
    <2> QED
        BY <2>1, <2>2 DEF Alone, Harmless, Fetches
<1> QED
    BY <1>1, <1>2

LEMMA CallsAgrees ==
    ASSUME PageInv,
           NEW kind \in {"switch", "save", "create", "delete", "decide"},
           NEW arg \in Value \cup {Absent}, Calls(kind, arg),
           \A s : s = NewCall(kind, arg) /\ s.kind = kind /\ s.arg = arg /\ s.state = "sent" /\ s.linked
                  /\ ~pageBelied /\ isConnected /\ PageFits => Harmless(s)'
    PROVE  Agrees'
<1>1. CASE pageBelied \/ pageCalls # EmptyBag
    BY <1>1 DEF Calls, Agrees
<1>2. CASE ~isConnected
    <2>1. ~isConnected'
        BY <1>2 DEF Calls, linkVars, isConnected
    <2> QED
        BY <2>1 DEF Agrees
<1>3. CASE ~pageBelied /\ isConnected /\ pageCalls = EmptyBag
    <2>1. PageFits
        BY <1>3, PageBagNone DEF PageInv, Agrees, Alone
    <2> SUFFICES ASSUME NEW s, s = NewCall(kind, arg) PROVE Alone(s)'
        BY DEF Agrees
    <2>2. s.kind = kind /\ s.arg = arg /\ s.state = "sent" /\ s.linked = (kind # "save" \/ isConnected)
        BY SentHas
    <2>3. pageCalls' = SetToBag({s})
        BY <1>3, PageBagNone DEF Calls
    <2> QED
        BY <1>3, <2>1, <2>2, <2>3 DEF Alone
<1> QED
    BY <1>1, <1>2, <1>3

-----------------------------------------------------------------------------
(* What people do, and the connection.                                       *)

LEMMA SettingsStep ==
    ASSUME PageInv, Settings
    PROVE  PageInv'
<1>1. page.subject = "settings" /\ LinkNext /\ UNCHANGED <<thing, page, editor, pageCalls, pageBelied>>
    BY DEF Settings, Beside, pageVars
<1>2. LinkTypeOK'
    BY <1>1, LinkTyped DEF PageInv, PageTyped
<1> QED
    BY <1>1, <1>2 DEF PageInv, PageTyped, Placed, Agrees

LEMMA LinkStepStep ==
    ASSUME PageInv, LinkStep
    PROVE  PageInv'
<1>1. LinkTypeOK' /\ page.subject # "settings" /\ UNCHANGED <<thing, editor>>
    BY ComesTyped DEF PageInv, PageTyped, LinkStep
<1>2. CASE ~isConnected /\ isConnected' /\ page.name # "new"
    <2>1. Loads(pageCalls, "get", page, Absent)
        BY <1>2 DEF LinkStep
    <2>2. Agrees'
        BY <2>1, AsksAgrees DEF Fetches
    <2>3. PageTyped'
        BY <1>1, <1>2, <2>1, AsksTyped DEF Fetches, PageInv, PageTyped, Placed
    <2> QED
        BY <2>2, <2>3 DEF PageInv
<1>3. CASE ~(~isConnected /\ isConnected' /\ page.name # "new")
    <2>1. UNCHANGED <<thing, editor, page, pageCalls, pageBelied>>
        BY <1>1, <1>3 DEF LinkStep
    <2>2. PageTyped'
        BY <1>1, <2>1 DEF PageInv, PageTyped
    <2>3. pageBelied \/ isConnected \/ ~isConnected'
        BY <1>3 DEF PageInv, PageTyped, Placed
    <2>4. Agrees'
        BY <2>1, <2>3 DEF PageInv, Agrees, Alone, Harmless, PageFits, Listed
    <2> QED
        BY <2>2, <2>4 DEF PageInv
<1> QED
    BY <1>2, <1>3

LEMMA GoesAgrees ==
    ASSUME NEW name, NEW bag, Goes(name, bag)
    PROVE  Agrees'
<1>1. CASE isConnected /\ name # "new"
    <2>1. Loads(Left(bag), "get", Mounted(page.subject, name), Absent)
        BY <1>1 DEF Goes
    <2> QED
        BY <2>1, AsksAgrees DEF Fetches
<1>2. CASE ~(isConnected /\ name # "new")
    BY <1>2 DEF Goes, Agrees
<1> QED
    BY <1>1, <1>2

LEMMA OpenStep ==
    ASSUME PageInv, NEW name \in {"list", "detail", "new"}, Open(name)
    PROVE  PageInv'
<1>1. Goes(name, pageCalls) /\ UNCHANGED linkVars /\ thing' = thing
    BY DEF Open
<1>2. Agrees'
    BY <1>1, GoesAgrees
<1>3. PageTyped'
    <2>1. LinkTypeOK'
        BY <1>1, LinkKept DEF PageInv, PageTyped
    <2>2. page.subject # "settings" /\ (name # "list" => page.subject = "policy")
        BY DEF Open
    <2> QED
        BY <1>1, <2>1, <2>2, GoesTyped DEF PageInv, PageTyped, Placed
<1> QED
    BY <1>2, <1>3 DEF PageInv

LEMMA RefreshStep ==
    ASSUME PageInv, Refresh
    PROVE  PageInv'
<1>1. /\ Loads(pageCalls, "get", page, Absent) /\ page.subject = "request"
      /\ UNCHANGED linkVars /\ thing' = thing /\ editor' = editor
    BY DEF Refresh, Polled
<1>2. Agrees'
    BY <1>1, AsksAgrees DEF Fetches
<1>3. PageTyped'
    BY <1>1, LinkKept, AsksTyped DEF Fetches, PageInv, PageTyped, Placed
<1> QED
    BY <1>2, <1>3 DEF PageInv

LEMMA SwitchStep ==
    ASSUME PageInv, Switch
    PROVE  PageInv'
<1> DEFINE arg == [page.shown.yaml EXCEPT !.on = ~page.shown.on]
           m == ~page.shown.on
<1>1. /\ page.shown # Absent
      /\ page' = [page EXCEPT !.shown.on = ~@]
      /\ Calls("switch", arg) /\ editor' = editor
    BY DEF Switch, Ready
<1>2. page \in Page /\ page.shown \in Shown /\ m \in BOOLEAN
    BY <1>1 DEF PageInv, PageTyped, Placed, Page
<1>3. arg \in Value /\ arg.on = m
    <2>1. arg = [page.shown.yaml EXCEPT !.on = m]
        OBVIOUS
    <2> HIDE DEF m, arg
    <2> QED
        BY <1>2, <2>1 DEF Shown, Value
<1>4. page' \in Page /\ page'.shown # Absent /\ page'.shown.on = m
      /\ page'.name = page.name /\ page'.subject = page.subject
    <2> DEFINE t == [page.shown EXCEPT !.on = m]
    <2>1. page' = [page EXCEPT !.shown = t]
        BY <1>1
    <2>2. t \in Shown /\ t.on = m /\ t # Absent
        <3>1. t \in Shown /\ t.on = m
            <4> HIDE DEF m
            <4> QED
                BY <1>2 DEF Shown
        <3> QED
            BY <3>1, PageConstants
    <2> HIDE DEF t, m
    <2> QED
        BY <1>2, <2>1, <2>2 DEF Page
<1>5. PageTyped'
    <2>1. page.subject # "settings" /\ page.name # "new"
        BY <1>1 DEF PageInv, PageTyped, Placed
    <2> HIDE DEF arg, m
    <2> QED
        BY <1>1, <1>3, <1>4, <2>1, CallsTyped DEF PageInv
<1>6. Agrees'
    <2> HIDE DEF arg
    <2>1. ASSUME NEW s, s.kind = "switch", s.arg = arg, s.state = "sent", s.linked, PageFits
          PROVE  Harmless(s)'
        <3>1. thing # Absent /\ page.shown.on = thing.on /\ thing \in Value /\ thing' = thing
            BY <1>1, <2>1 DEF PageFits, PageInv, PageTyped, Calls
        <3>2. thing'.on = ~m
            BY <1>2, <3>1 DEF Shown
        <3> HIDE DEF m
        <3> QED
            BY <1>3, <1>4, <2>1, <3>1, <3>2 DEF Harmless, Fetches
    <2> QED
        BY <1>1, <1>3, <2>1, CallsAgrees
<1> QED
    BY <1>5, <1>6 DEF PageInv

\* The other calls leave the page as it was.
LEMMA CallStep ==
    ASSUME PageInv, page.subject # "settings",
           NEW kind \in {"save", "create", "delete", "decide"},
           NEW arg \in Value \cup {Absent},
           kind = "decide" => page.name = "list", page.name = "new" => kind = "create",
           Calls(kind, arg), UNCHANGED <<page, editor>>
    PROVE  PageInv'
<1>1. PageTyped'
    BY CallsTyped DEF PageInv, PageTyped, Placed
<1>2. thing' = thing
    BY DEF Calls
<1>3. ASSUME NEW s, s.kind = kind, s.state = "sent", s.linked, PageFits
      PROVE  Harmless(s)'
    BY <1>2, <1>3 DEF Harmless, Fetches, PageFits, Listed
<1>4. Agrees'
    BY <1>3, CallsAgrees
<1> QED
    BY <1>1, <1>4 DEF PageInv

LEMMA FormStep ==
    ASSUME PageInv, NEW text \in Texts, Update(text) \/ Create(text)
    PROVE  PageInv'
<1>1. [text |-> text, on |-> TRUE] \in Value
    BY DEF Value
<1>2. page.subject # "settings" /\ (Update(text) => page.name # "new")
    BY DEF Update, Create, PageInv, PageTyped, Placed
<1> QED
    BY <1>1, <1>2, CallStep DEF Update, Create

LEMMA ButtonStep ==
    ASSUME PageInv, Delete \/ Decide \/ Save
    PROVE  PageInv'
<1>1. page.subject # "settings" /\ page.name # "new" /\ (Decide => page.name = "list")
    BY DEF Delete, Decide, Save, PageInv, PageTyped, Placed
<1>2. editor.text \in Value \cup {Absent}
    BY DEF PageInv, PageTyped, Editor
<1> QED
    BY <1>1, <1>2, CallStep DEF Delete, Decide, Save

LEMMA TypeStep ==
    ASSUME PageInv, NEW v \in Value, Type(v)
    PROVE  PageInv'
<1> DEFINE d == v # editor.saved
           e == [editor EXCEPT !.text = v, !.dirty = d]
<1>1. e \in Editor
    <2>1. d \in BOOLEAN
        OBVIOUS
    <2> HIDE DEF d
    <2> QED
        BY <2>1 DEF PageInv, PageTyped, Editor
<1>2. editor' = Taken(e, page.shown) /\ UNCHANGED <<thing, page, pageCalls, pageBelied>> /\ UNCHANGED linkVars
    BY DEF Type
<1> HIDE DEF e
<1>3. editor' \in Editor
    BY <1>1, <1>2, TakenTyped DEF PageInv, PageTyped, Placed, Page
<1> QED
    BY <1>2, <1>3, LinkKept DEF PageInv, PageTyped, Agrees, Alone, Harmless, PageFits, Listed

LEMMA OthersStep ==
    ASSUME PageInv, Others
    PROVE  PageInv'
    BY LinkKept DEF Others, PageInv, PageTyped, Placed, Agrees

LEMMA PageIdleStep ==
    ASSUME PageInv, UNCHANGED pagesVars
    PROVE  PageInv'
<1>1. UNCHANGED <<thing, page, editor, pageCalls, pageBelied>> /\ UNCHANGED linkVars
    BY DEF pagesVars, pageVars, linkVars
<1> QED
    BY <1>1, LinkKept DEF PageInv, PageTyped, Placed, Agrees, Alone, Harmless, PageFits, Listed

-----------------------------------------------------------------------------
(* The proxy serves a call.                                                  *)

LEMMA ChangedTyped ==
    ASSUME thing \in Value \cup {Absent}, NEW c, KnownCall(c, page), Accepted(c)
    PROVE  Changed(c) \subseteq Value \cup {Absent}
<1>1. c.arg \in Value \cup {Absent}
    BY DEF KnownCall, PageCall
<1>2. CASE c.kind = "switch"
    <2>1. thing \in Value /\ c.arg \in Value
        BY <1>2 DEF Accepted, KnownCall
    <2>2. c.arg.on \in BOOLEAN
        BY <2>1 DEF Value
    <2>3. [thing EXCEPT !.on = c.arg.on] \in Value
        BY <2>1, <2>2 DEF Value
    <2> QED
        BY <1>2, <2>3 DEF Changed
<1>3. CASE c.kind = "decide"
    <2>1. thing \in Value
        BY <1>3 DEF Accepted
    <2>2. [thing EXCEPT !.on = FALSE] \in Value
        BY <2>1 DEF Value
    <2> QED
        BY <1>3, <2>2 DEF Changed
<1>4. CASE c.kind \notin {"switch", "decide"}
    <2>1. c.kind \in {"get", "reload", "save", "create", "delete"}
        BY <1>4 DEF KnownCall, PageCall
    <2> QED
        BY <1>1, <2>1 DEF Changed
<1> QED
    BY <1>2, <1>3, <1>4

\* What a call comes back with.  While what the page shows is vouched for, a refusal has
\* changed nothing, and is not of a fetch.
LEMMA ServedIs ==
    ASSUME NEW c, NEW ok \in BOOLEAN, Served(c, ok), thing \in Value \cup {Absent},
           pageBelied \in BOOLEAN, KnownCall(c, page)
    PROVE  /\ thing' \in Value \cup {Absent} /\ pageBelied' \in BOOLEAN
           /\ ok => thing' \in Changed(c)
           /\ pageBelied => pageBelied'
           /\ c.state = "orphan" => pageBelied'
           /\ ~pageBelied' /\ ~ok => thing' = thing /\ c.kind \notin Fetches
<1>1. PICK changes \in {ok, Accepted(c)} :
        /\ IF changes THEN thing' \in Changed(c) ELSE UNCHANGED thing
        /\ pageBelied' = \/ pageBelied \/ c.state = "orphan"
                         \/ ~ok /\ (changes \/ c.kind \in {"get", "reload"})
    BY DEF Served
<1>2. ok => Accepted(c)
    BY DEF Served
<1>3. (changes => Accepted(c)) /\ (ok => changes)
    BY <1>1, <1>2
<1>4. thing' \in Value \cup {Absent} /\ (ok => thing' \in Changed(c))
    BY <1>1, <1>3, ChangedTyped
<1>5. /\ pageBelied' \in BOOLEAN /\ (pageBelied => pageBelied') /\ (c.state = "orphan" => pageBelied')
      /\ ~pageBelied' /\ ~ok => ~changes /\ c.kind \notin Fetches
    BY <1>1, Zenon DEF Fetches
<1> QED
    BY <1>1, <1>4, <1>5

LEMMA PageServeStep ==
    ASSUME PageInv, NEW c \in BagToSet(pageCalls), Serves(c)
    PROVE  PageInv'
<1>1. KnownCall(c, page)
    BY DEF PageInv, PageTyped, PageCalls
<1> DEFINE g == IF c.kind \in {"get", "reload"} THEN Listed(thing) ELSE Absent
<1>2. PICK ok \in BOOLEAN : Served(c, ok)
    BY DEF Serves
<1>3. UNCHANGED linkVars /\ page' = page /\ editor' = editor /\ c.state \in {"sent", "orphan"}
    BY <1>2 DEF Served
<1>4. thing \in Value \cup {Absent} /\ pageBelied \in BOOLEAN
    BY DEF PageInv, PageTyped, Placed
<1>5. /\ thing' \in Value \cup {Absent} /\ pageBelied' \in BOOLEAN
      /\ ok => thing' \in Changed(c)
      /\ pageBelied => pageBelied'
      /\ c.state = "orphan" => pageBelied'
      /\ ~pageBelied' /\ ~ok => thing' = thing /\ c.kind \notin Fetches
    BY <1>1, <1>2, <1>4, ServedIs
<1> DEFINE s == IF ok THEN "ok" ELSE "refused"
           d == [c EXCEPT !.state = s, !.got = g]
<1>6. s \in {"ok", "refused"} /\ (ok <=> s = "ok")
    OBVIOUS
<1>7. g \in Value \cup {Absent}
    BY <1>4 DEF Listed
<1>8. pageCalls' = IF c.state = "orphan" THEN BagRemove(pageCalls, c)
                   ELSE BagAdd(BagRemove(pageCalls, c), d)
    BY <1>2 DEF Served
<1>9. c.state # "orphan" =>
          /\ KnownCall(d, page)
          /\ d.kind = c.kind /\ d.arg = c.arg /\ d.linked = c.linked /\ d.state = s /\ d.got = g
    <2> SUFFICES ASSUME c.state # "orphan", NEW x, x = d
                 PROVE  /\ KnownCall(x, page)
                        /\ x.kind = c.kind /\ x.arg = c.arg /\ x.linked = c.linked /\ x.state = s /\ x.got = g
        OBVIOUS
    <2>1. x = [c EXCEPT !.state = s, !.got = g]
        OBVIOUS
    <2> HIDE DEF s, g, d
    <2> QED
        BY <1>1, <1>6, <1>7, <2>1 DEF KnownCall, PageCall, Fetches
<1> HIDE DEF d
<1>10. PageTyped'
    <2>1. PageCalls(pageCalls', page)
        <3>1. PageCalls(BagRemove(pageCalls, c), page)
            BY CallsFewer DEF PageInv, PageTyped
        <3> QED
            BY <1>8, <1>9, <3>1, CallsMore
    <2> QED
        BY <1>3, <1>5, <2>1, LinkKept DEF PageInv, PageTyped, Placed
<1>11. Agrees'
    <2>1. CASE pageBelied'
        BY <2>1 DEF Agrees
    <2>2. CASE ~isConnected
        <3>1. ~isConnected'
            BY <1>3, <2>2 DEF linkVars, isConnected
        <3> QED
            BY <3>1 DEF Agrees
    <2>3. CASE ~pageBelied' /\ isConnected
        <3>1. ~pageBelied /\ c.state = "sent" /\ pageCalls = SetToBag({c}) /\ Harmless(c)
            BY <1>3, <1>5, <2>3, OnlyCall
        <3>2. pageCalls' = SetToBag({d})
            BY <1>8, <3>1, PageBagNone
        <3> SUFFICES ASSUME NEW x, x = d PROVE Harmless(x)'
            BY <3>2 DEF Agrees, Alone
        <3>3. /\ x.kind = c.kind /\ x.arg = c.arg /\ x.linked = c.linked /\ x.state = s /\ x.got = g
            BY <1>9, <3>1
        <3>5. CASE c.kind \in Fetches
            <4>1. ok /\ s = "ok"
                BY <1>5, <1>6, <2>3, <3>5
            <4>2. thing' = thing
                BY <1>5, <3>5, <4>1 DEF Changed, Fetches
            <4>3. Listed(thing)' = Listed(thing)
                BY <1>3, <4>2 DEF Listed
            <4> QED
                BY <3>1, <3>3, <3>5, <4>1, <4>3 DEF Harmless, Fetches
        <3>6. CASE c.kind = "switch"
            <4>1. /\ page.shown # Absent /\ thing # Absent /\ c.arg.on = page.shown.on
                  /\ thing.on = ~c.arg.on
                BY <3>1, <3>6 DEF Harmless
            <4>2. CASE s = "ok"
                <5>1. thing' = [thing EXCEPT !.on = c.arg.on]
                    BY <1>5, <1>6, <3>6, <4>2 DEF Changed
                <5>2. thing \in Value /\ c.arg.on \in BOOLEAN
                    BY <1>1, <1>4, <3>6, <4>1 DEF KnownCall, Value
                <5>3. thing'.on = c.arg.on /\ thing' \in Value
                    BY <5>1, <5>2 DEF Value
                <5>4. thing' # Absent
                    BY <5>3, PageConstants
                <5> QED
                    BY <1>3, <3>1, <3>3, <3>6, <4>1, <4>2, <5>3, <5>4 DEF Harmless, Fetches
            <4>3. CASE s = "refused"
                <5>1. thing' = thing
                    BY <1>5, <1>6, <2>3, <4>3
                <5> QED
                    BY <1>3, <3>1, <3>3, <3>6, <4>1, <4>3, <5>1 DEF Harmless, Fetches
            <4> QED
                BY <1>6, <4>2, <4>3
        <3>7. CASE c.kind \notin Fetches \cup {"switch"}
            <4>1. s # "ok" => thing' = thing
                BY <1>5, <1>6, <2>3
            <4> QED
                BY <1>3, <1>6, <3>1, <3>3, <3>7, <4>1 DEF Harmless, PageFits, Listed
        <3> QED
            BY <3>5, <3>6, <3>7
    <2> QED
        BY <2>1, <2>2, <2>3
<1> QED
    BY <1>10, <1>11 DEF PageInv

-----------------------------------------------------------------------------
(* The page makes use of an answer.                                          *)

\* With the only call gone, the page has to fit.
LEMMA AloneEnds ==
    ASSUME PageInv, NEW c \in BagToSet(pageCalls), pageCalls' = BagRemove(pageCalls, c),
           UNCHANGED linkVars, pageBelied' = pageBelied,
           ~pageBelied /\ isConnected /\ Harmless(c) => PageFits'
    PROVE  Agrees'
<1>1. CASE pageBelied \/ ~isConnected
    BY <1>1 DEF Agrees, linkVars, isConnected
<1>2. CASE ~pageBelied /\ isConnected
    <2>1. pageCalls = SetToBag({c}) /\ Harmless(c)
        BY <1>2, OnlyCall
    <2>2. pageCalls' = EmptyBag
        BY <2>1, PageBagNone
    <2> QED
        BY <1>2, <2>1, <2>2 DEF Agrees
<1> QED
    BY <1>1, <1>2

LEMMA FetchedStep ==
    ASSUME PageInv, NEW c \in BagToSet(pageCalls), Fetched(c),
           UNCHANGED linkVars, thing' = thing
    PROVE  PageInv'
<1> DEFINE shown == AsShown(c.got)
           e == page.error \/ (page.name = "detail" /\ shown = Absent)
<1>1. /\ c.kind \in Fetches /\ c.state = "ok"
      /\ pageCalls' = BagRemove(pageCalls, c) /\ pageBelied' = pageBelied
      /\ editor' = IF page.name = "detail" THEN Cleared(c, shown) ELSE editor
    BY DEF Fetched, Fetches
<1>2. page' = [page EXCEPT !.shown = shown, !.loading = FALSE, !.error = e]
    BY DEF Fetched
<1>3. c \in PageCall /\ c.got \in Value \cup {Absent} /\ page.subject # "settings"
    BY DEF PageInv, PageTyped, PageCalls, KnownCall, PageCall
<1>4. shown \in Shown \cup {Absent}
    BY <1>3, AsShownTyped
<1>5. /\ page' \in Page /\ page'.shown = shown
      /\ page'.name = page.name /\ page'.subject = page.subject
    <2>1. e \in BOOLEAN
        BY DEF PageInv, PageTyped, Placed, Page
    <2>2. page \in Page
        BY DEF PageInv, PageTyped, Placed
    <2> HIDE DEF e, shown
    <2> QED
        BY <1>2, <1>4, <2>1, <2>2, ShownTyped
<1> HIDE DEF e, shown
<1>6. PageTyped'
    <2>1. editor' \in Editor
        BY <1>1, <1>3, <1>4, ClearedTyped DEF PageInv, PageTyped
    <2> QED
        BY <1>1, <1>3, <1>5, <2>1, AnsweredTyped DEF PageInv, PageTyped, PageCalls, KnownCall, Fetches
<1>7. ASSUME Harmless(c) PROVE PageFits'
    <2>1. c.got = Listed(thing)
        BY <1>1, <1>7 DEF Harmless
    <2>2. Listed(thing)' = c.got
        BY <1>5, <2>1 DEF Listed
    <2>3. CASE c.got = Absent
        BY <1>5, <2>2, <2>3 DEF PageFits, AsShown, shown
    <2>4. CASE c.got # Absent
        <3>1. c.got = thing /\ thing # Absent
            BY <2>1, <2>4 DEF Listed
        <3>2. shown = [yaml |-> c.got, on |-> c.got.on]
            BY <2>4 DEF AsShown, shown
        <3>3. c.got \in Value
            BY <1>3, <2>4
        <3>4. shown \in Shown
            BY <3>2, <3>3 DEF Shown, Value
        <3>5. shown # Absent /\ shown.on = thing.on
            BY <3>1, <3>2, <3>4, PageConstants
        <3> QED
            BY <1>5, <3>1, <3>5 DEF PageFits
    <2> QED
        BY <2>3, <2>4
<1>8. Agrees'
    BY <1>1, <1>7, AloneEnds
<1> QED
    BY <1>6, <1>8 DEF PageInv

LEMMA SucceededStep ==
    ASSUME PageInv, NEW c \in BagToSet(pageCalls), Succeeded(c),
           UNCHANGED linkVars, thing' = thing
    PROVE  PageInv'
<1> DEFINE rest == BagRemove(pageCalls, c)
<1>1. /\ KnownCall(c, page) /\ c \in PageCall /\ page.subject # "settings"
      /\ c.kind \notin Fetches /\ c.state = "ok"
      /\ c.arg \in Value \cup {Absent}
    BY DEF Succeeded, PageInv, PageTyped, PageCalls, KnownCall, Fetches, PageCall
<1>2. PageCalls(rest, page)
    BY CallsFewer DEF PageInv, PageTyped
<1>3. LinkTypeOK'
    BY LinkKept DEF PageInv, PageTyped
<1>4. CASE page.name # "list" /\ c.kind \in {"create", "delete"}
    <2> DEFINE name == IF c.kind = "create" THEN "detail" ELSE "list"
    <2>1. Goes(name, rest)
        BY <1>4 DEF Succeeded
    <2>2. name \in {"list", "detail", "new"} /\ page.subject = "policy"
        BY <1>4 DEF PageInv, PageTyped, Placed
    <2> HIDE DEF name, rest
    <2>3. PageTyped'
        BY <1>1, <1>2, <1>3, <2>1, <2>2, GoesTyped DEF PageInv, PageTyped, Placed
    <2>4. Agrees'
        BY <2>1, GoesAgrees
    <2> QED
        BY <2>3, <2>4 DEF PageInv
<1>5. CASE ~(page.name # "list" /\ c.kind \in {"create", "delete"})
           /\ Refetched(c) # "none" /\ c.linked
    <2>1. Loads(rest, Refetched(c), page, c.arg) /\ editor' = editor
        BY <1>5 DEF Succeeded
    <2>2. Refetched(c) \in Fetches
        BY <1>5 DEF Refetched, Fetches
    <2> HIDE DEF rest
    <2>3. Agrees'
        BY <1>1, <2>1, <2>2, AsksAgrees
    <2>4. page.name # "new"
        BY <1>1, <1>5 DEF KnownCall
    <2>5. PageTyped'
        BY <1>1, <1>2, <1>3, <2>1, <2>2, <2>4, AsksTyped DEF PageInv, PageTyped, Placed
    <2> QED
        BY <2>3, <2>5 DEF PageInv
<1>6. CASE ~(page.name # "list" /\ c.kind \in {"create", "delete"})
           /\ ~(Refetched(c) # "none" /\ c.linked)
    <2>1. /\ pageCalls' = rest
          /\ editor' = IF c.kind = "save" THEN Cleared(c, page.shown) ELSE editor
          /\ page' = page /\ pageBelied' = pageBelied
        BY <1>6 DEF Succeeded
    <2>2. page \in Page /\ page.shown \in Shown \cup {Absent} /\ editor \in Editor
        BY DEF PageInv, PageTyped, Placed, Page
    <2>3. PageTyped'
        <3>1. editor' \in Editor
            BY <1>1, <2>1, <2>2, ClearedTyped
        <3> QED
            BY <1>1, <2>1, <2>2, <3>1, AnsweredTyped DEF PageInv, PageTyped, Placed
    <2>4. ASSUME Harmless(c) PROVE PageFits'
        <3>1. c.linked
            BY <2>4 DEF Harmless
        <3>2. Refetched(c) = "none"
            BY <1>6, <3>1
        <3>3. page.name # "list" /\ c.kind # "save"
            BY <3>2 DEF Refetched
        <3>4. c.kind = "switch"
            BY <1>1, <1>6, <3>3 DEF KnownCall, PageCall, Fetches
        <3>5. page.shown # Absent /\ thing # Absent /\ page.shown.on = thing.on
            BY <1>1, <2>4, <3>4 DEF Harmless
        <3> QED
            BY <2>1, <3>5 DEF PageFits
    <2>5. Agrees'
        BY <2>1, <2>4, AloneEnds
    <2> QED
        BY <2>3, <2>5 DEF PageInv
<1> QED
    BY <1>4, <1>5, <1>6

LEMMA FailedIs ==
    ASSUME PageInv, NEW c \in BagToSet(pageCalls), NEW hides \in BOOLEAN, CallFails(c, hides)
    PROVE  /\ page' \in Page /\ page'.shown = Reverted(c)
           /\ page'.name = page.name /\ page'.subject = page.subject
           /\ page.subject # "settings" /\ (page.name = "new" => page'.shown = Absent)
           /\ editor' \in Editor /\ pageCalls' = BagRemove(pageCalls, c)
<1> DEFINE l == page.loading /\ c.kind \notin {"get", "reload"}
           e == page.error \/ (page.name = "detail" /\ c.kind # "switch" /\ hides)
<1>1. l \in BOOLEAN /\ e \in BOOLEAN
    BY DEF PageInv, PageTyped, Placed, Page
<1>2. page' = [page EXCEPT !.shown = Reverted(c), !.loading = l, !.error = e]
    BY DEF CallFails
<1>3. page \in Page /\ KnownCall(c, page) /\ editor \in Editor
    BY DEF PageInv, PageTyped, Placed, PageCalls
<1>4. Reverted(c) \in Shown \cup {Absent}
    BY <1>3, RevertedTyped
<1> HIDE DEF l, e
<1> DEFINE shown == Reverted(c)
<1>5. /\ page' \in Page /\ page'.shown = Reverted(c)
      /\ page'.name = page.name /\ page'.subject = page.subject
    <2>1. page' = [page EXCEPT !.shown = shown, !.loading = l, !.error = e]
        BY <1>2
    <2>2. page \in Page /\ shown \in Shown \cup {Absent}
        BY <1>3, <1>4
    <2> HIDE DEF shown
    <2> DEFINE p == [page EXCEPT !.shown = shown, !.loading = l, !.error = e]
    <2>3. /\ p \in Page /\ p.shown = shown
          /\ p.name = page.name /\ p.subject = page.subject
        BY ONLY <1>1, <2>2 DEF Page
    <2>4. page' = p
        BY ONLY <2>1
    <2> HIDE DEF p
    <2> QED
        BY ONLY <2>3, <2>4 DEF shown
<1>6. page.subject # "settings" /\ (page.name = "new" => Reverted(c) = Absent)
    BY <1>3 DEF PageInv, PageTyped, Placed, KnownCall, Reverted
<1>7. editor' \in Editor
    <2>1. page.shown \in Shown \cup {Absent} /\ c \in PageCall
        BY <1>3 DEF Page, KnownCall
    <2> QED
        BY <1>3, <2>1, ClearedTyped DEF CallFails
<1> QED
    BY <1>5, <1>6, <1>7 DEF CallFails

LEMMA RefusedStep ==
    ASSUME PageInv, NEW c \in BagToSet(pageCalls), c.state = "refused",
           NEW hides \in BOOLEAN, CallFails(c, hides),
           UNCHANGED linkVars, thing' = thing, pageBelied' = pageBelied
    PROVE  PageInv'
<1>1. PageTyped'
    BY FailedIs, AnsweredTyped DEF PageInv
<1>2. KnownCall(c, page) /\ page.shown \in Shown \cup {Absent}
    BY DEF PageInv, PageTyped, PageCalls, Placed, Page
<1>3. ASSUME Harmless(c) PROVE PageFits'
    <2>1. c.kind \notin Fetches
        BY <1>3 DEF Harmless
    <2>2. page'.shown = Reverted(c) /\ page'.subject = page.subject
        BY FailedIs
    <2>3. CASE c.kind = "switch"
        <3> DEFINE m == ~c.arg.on
        <3>1. page.shown # Absent /\ thing # Absent /\ thing.on = m
            BY <1>3, <2>3 DEF Harmless
        <3>2. Reverted(c) = [page.shown EXCEPT !.on = m]
            BY <2>3, <3>1 DEF Reverted
        <3>3. m \in BOOLEAN
            OBVIOUS
        <3> HIDE DEF m
        <3>4. Reverted(c) \in Shown /\ Reverted(c).on = m
            BY <1>2, <3>1, <3>2, <3>3 DEF Shown
        <3>5. Reverted(c) # Absent
            BY <3>4, PageConstants
        <3> QED
            BY <2>2, <3>1, <3>4, <3>5 DEF PageFits
    <2>4. CASE c.kind # "switch"
        <3>1. PageFits
            BY <1>3, <2>1, <2>4 DEF Harmless
        <3>2. page'.shown = page.shown
            BY <2>2, <2>4 DEF Reverted
        <3> QED
            BY <2>2, <3>1, <3>2 DEF PageFits, Listed
    <2> QED
        BY <2>3, <2>4
<1>4. Agrees'
    BY <1>3, FailedIs, AloneEnds
<1> QED
    BY <1>1, <1>4 DEF PageInv

LEMMA PageAnswerStep ==
    ASSUME PageInv, NEW c \in BagToSet(pageCalls), AnswerComes(c)
    PROVE  PageInv'
<1>1. UNCHANGED linkVars /\ thing' = thing
    BY DEF AnswerComes
<1>2. CASE Fetched(c)
    BY <1>1, <1>2, FetchedStep
<1>3. CASE Succeeded(c)
    BY <1>1, <1>3, SucceededStep
<1>4. CASE /\ c.state = "refused"
           /\ \E hides \in {TRUE, c.kind # "save"} : CallFails(c, hides)
           /\ pageBelied' = pageBelied
    <2>1. PICK hides \in {TRUE, c.kind # "save"} : CallFails(c, hides)
        BY <1>4
    <2>2. hides \in BOOLEAN
        OBVIOUS
    <2> QED
        BY <1>1, <1>4, <2>1, <2>2, RefusedStep
<1> QED
    BY <1>2, <1>3, <1>4 DEF AnswerComes

LEMMA LostStep ==
    ASSUME PageInv, NEW c \in BagToSet(pageCalls), Lost(c)
    PROVE  PageInv'
<1>1. UNCHANGED linkVars /\ thing' = thing /\ CallFails(c, TRUE) /\ pageBelied' = TRUE
    BY DEF Lost
<1>2. PageTyped'
    BY <1>1, FailedIs, AnsweredTyped DEF PageInv
<1> QED
    BY <1>1, <1>2 DEF PageInv, Agrees

-----------------------------------------------------------------------------
(* The page, and the proxy behind it.                                        *)

LEMMA PageFirst == PagesInit => PageInv
<1> SUFFICES ASSUME PagesInit PROVE PageInv
    OBVIOUS
<1>1. /\ pageCalls = EmptyBag /\ pageBelied = TRUE /\ editor = Nothing
      /\ thing \in Value \cup {Absent}
      /\ \E s \in {"settings", "policy", "rule", "request"} : page = Mounted(s, "list")
    BY DEF PagesInit
<1>2. Placed(page, pageBelied) /\ editor \in Editor
    BY <1>1 DEF Placed, Page, Mounted, Editor, Nothing
<1>3. PageCalls(pageCalls, page)
    BY <1>1, PageBagNone DEF PageCalls
<1>4. LinkTypeOK
    <2>1. CASE LinkInit
        <3>1. link \in Link /\ up \in BOOLEAN
            BY <2>1 DEF LinkInit, Link, Addresses
        <3>2. IsABag(pings) /\ BagToSet(pings) \subseteq Ping
            <4>1. [address |-> link.address, result |-> "waiting"] \in Ping
                BY <3>1 DEF Ping, Link
            <4> QED
                BY <2>1, <4>1, PageBagOf, PageBagNone DEF LinkInit
        <3> QED
            BY <3>1, <3>2 DEF LinkTypeOK
    <2>2. CASE /\ up = TRUE /\ pings = EmptyBag
               /\ link = [address |-> "proxy", failures |-> 0, status |-> "disconnected"]
        BY <2>2, PageBagNone DEF LinkTypeOK, Link, Addresses
    <2> QED
        BY <2>1, <2>2 DEF PagesInit
<1> QED
    BY <1>1, <1>2, <1>3, <1>4 DEF PageInv, PageTyped, Agrees

LEMMA PageNext ==
    ASSUME PageInv, [PagesNext]_(pagesVars)
    PROVE  PageInv'
<1>1. CASE Settings \/ LinkStep \/ Refresh \/ \E name \in {"list", "detail", "new"} : Open(name)
    BY <1>1, SettingsStep, LinkStepStep, RefreshStep, OpenStep
<1>2. CASE Switch \/ Delete \/ Decide \/ Save
    BY <1>2, SwitchStep, ButtonStep
<1>3. CASE \E text \in Texts : Update(text) \/ Create(text)
    BY <1>3, FormStep
<1>4. CASE \E v \in Value : Type(v)
    BY <1>4, TypeStep
<1>5. CASE \E c \in BagToSet(pageCalls) : Serves(c) \/ Lost(c) \/ AnswerComes(c)
    BY <1>5, PageServeStep, LostStep, PageAnswerStep
<1>6. CASE Others \/ UNCHANGED pagesVars
    BY <1>6, OthersStep, PageIdleStep
<1> QED
    BY <1>1, <1>2, <1>3, <1>4, <1>5, <1>6 DEF PagesNext

LEMMA PageAlways == PagesSpec => []PageInv
<1>1. PageInv /\ [PagesNext]_(pagesVars) => PageInv'
    BY PageNext
<1> QED
    BY <1>1, PageFirst, PTL DEF PagesSpec

\* Whatever calls of a page overlap, are refused or are lost, and whoever else changes the
\* thing it is about: a page at rest with a connection that asked last and alone, and had
\* neither its fetch nor a change that was made refused, shows what the proxy has, with
\* every switch as it stands.
THEOREM PageFollows == PagesSpec => []ShownFits
<1>1. PageInv => ShownFits
    <2> SUFFICES ASSUME PageInv, pageCalls = EmptyBag, isConnected, ~pageBelied
                 PROVE  PageFits
        BY DEF ShownFits, PageFits
    <2> QED
        BY PageBagNone DEF PageInv, Agrees, Alone
<1> QED
    BY <1>1, PageAlways, PTL

\* The types of the connection, the page, its editor and its calls.
THEOREM PagesTyped == PagesSpec => []PagesTypeOK
<1>1. PageInv => PagesTypeOK
    BY DEF PageInv, PageTyped, Placed, PageCalls, KnownCall, PagesTypeOK
<1> QED
    BY <1>1, PageAlways, PTL

-----------------------------------------------------------------------------
(* The edits in the editor.                                                  *)

\* What a step may do to a text with edits.
EditsStay ==
    editor.dirty /\ editor'.text # editor.text =>
        \/ \E v \in Value : Type(v)
        \/ Under({"save", "reload"}) /\ ~editor'.dirty
        \/ editor' = Nothing

LEMMA ClearedStay ==
    ASSUME editor \in Editor, NEW c \in BagToSet(pageCalls), NEW shown,
           editor' = Cleared(c, shown)
    PROVE  EditsStay
<1>1. CASE c.kind \in {"save", "reload"}
    <2> DEFINE e == [editor EXCEPT !.saved = c.arg, !.dirty = FALSE]
    <2>1. e \in [text : {e.text}, saved : {e.saved}, dirty : {FALSE}]
        BY DEF Editor
    <2>2. editor' = Taken(e, shown)
        BY <1>1 DEF Cleared
    <2> HIDE DEF e
    <2>3. editor'.dirty = FALSE
        BY <2>1, <2>2 DEF Taken
    <2>4. Under({"save", "reload"})
        BY <1>1 DEF Under
    <2> QED
        BY <2>3, <2>4 DEF EditsStay
<1>2. CASE c.kind \notin {"save", "reload"}
    BY <1>2 DEF Cleared, Taken, EditsStay
<1> QED
    BY <1>1, <1>2

LEMMA AnswerStays ==
    ASSUME editor \in Editor, NEW c \in BagToSet(pageCalls), AnswerComes(c) \/ Lost(c)
    PROVE  EditsStay
<1>1. CASE editor' = editor
    BY <1>1 DEF EditsStay
<1>2. CASE editor' = Nothing
    BY <1>2 DEF EditsStay
<1>3. CASE \E shown : editor' = Cleared(c, shown)
    BY <1>3, ClearedStay
<1>4. CASE Fetched(c)
    BY <1>1, <1>3, <1>4 DEF Fetched
<1>5. CASE Succeeded(c)
    BY <1>1, <1>2, <1>3, <1>5 DEF Succeeded, Goes
<1>6. CASE \E hides : CallFails(c, hides)
    BY <1>1, <1>3, <1>6 DEF CallFails
<1> QED
    BY <1>4, <1>5, <1>6 DEF AnswerComes, Lost

LEMMA EditsNext ==
    ASSUME PageInv, [PagesNext]_(pagesVars)
    PROVE  EditsStay
<1>1. CASE \/ Settings \/ LinkStep \/ Refresh \/ Switch \/ Delete \/ Decide \/ Save
           \/ Others \/ UNCHANGED pagesVars
           \/ \E text \in Texts : Update(text) \/ Create(text)
           \/ \E c \in BagToSet(pageCalls) : Serves(c)
    <2>1. editor' = editor
        BY <1>1 DEF Settings, Beside, LinkStep, Refresh, Switch, Delete, Decide, Save,
                    Others, pagesVars, pageVars, Update, Create, Serves, Served
    <2> QED
        BY <2>1 DEF EditsStay
<1>2. CASE \E name \in {"list", "detail", "new"} : Open(name)
    BY <1>2 DEF Open, Goes, EditsStay
<1>3. CASE \E v \in Value : Type(v)
    BY <1>3 DEF EditsStay
<1>4. CASE \E c \in BagToSet(pageCalls) : Lost(c) \/ AnswerComes(c)
    BY <1>4, AnswerStays DEF PageInv, PageTyped
<1> QED
    BY <1>1, <1>2, <1>3, <1>4 DEF PagesNext

\* Nothing but a save takes edits out of the editor while its page is open: no load,
\* switch, refusal, loss or new connection does.
THEOREM EditsSurvive == PagesSpec => EditsKept
<1>1. PageInv /\ [PagesNext]_(pagesVars) => [EditsStay]_(pagesVars)
    BY EditsNext
<1>2. [EditsStay]_(pagesVars) <=>
        [editor.dirty /\ editor'.text # editor.text =>
            \/ \E v \in Value : Type(v)
            \/ Under({"save", "reload"}) /\ ~editor'.dirty
            \/ editor' = Nothing]_(pagesVars)
    BY DEF EditsStay
<1> QED
    BY <1>1, <1>2, PageAlways, PTL DEF PagesSpec, EditsKept
=============================================================================

----------------------------- MODULE LocalAuth -----------------------------
(***************************************************************************)
(* The local administrator account: the file with the password and the     *)
(* sessions, the limiter of sign-in attempts, and the handlers of the      *)
(* proxy and commands of the shell that use them.                          *)
(*                                                                         *)
(* A handler reads and writes the file without an await, so each is one    *)
(* action; changing the password awaits its body in between.  A command of *)
(* the shell is another process, which nothing keeps from writing between  *)
(* the two (login hashes a password there).  Times are kept as ages and    *)
(* remainders, so that the clock needs no bound.                           *)
(***************************************************************************)
EXTENDS Naturals, FiniteSets, FiniteSetsExt

CONSTANTS
    Ids,          \* session ids; a session's CSRF token goes with its id
    NoId,         \* no cookie, no token
    NoFile, NoEntry, NotBlocked,
    Lifetime,     \* sessionTtlMs
    MaxAttempts, AttemptWindow, BlockTime,  \* of the limiter
    MaxPasswords  \* bound of the model: passwords given after the first

ASSUME AuthConstants ==
    /\ NoId \notin Ids /\ NotBlocked \notin Nat
    /\ NoEntry \notin [count : Nat, age : Nat, blocked : Nat \cup {NotBlocked}]
    /\ Lifetime \in Nat \ {0} /\ MaxPasswords \in Nat
    /\ MaxAttempts \in Nat \ {0, 1}
    /\ AttemptWindow \in Nat \ {0} /\ BlockTime \in Nat
    /\ AttemptWindow <= BlockTime  \* both are a quarter of an hour

VARIABLES
    file,      \* govyn.auth.json: its sessions
    password,  \* the one in the file, by its number
    given,     \* history: the number of the last that somebody was told is set
    entry,     \* the limiter's entry for the administrator's name and address
    wrong      \* history: wrong passwords since the last right one, by their age

accountVars == <<file, password, given>>
limiterVars == <<entry, wrong>>
authVars == <<file, password, given, entry, wrong>>

-----------------------------------------------------------------------------
\* "of" is a history: the password that was checked when the session was opened.
Session == [id : Ids, left : 0..Lifetime, of : Nat]

File == SUBSET Session

Entry == [count : Nat, age : 0..(AttemptWindow + 1), blocked : (0..BlockTime) \cup {NotBlocked}]

NoneWrong == [a \in 0..(AttemptWindow - 1) |-> 0]

AuthTypeOK ==
    /\ file \in File \cup {NoFile}
    /\ password \in Nat /\ given \in Nat
    /\ entry \in Entry \cup {NoEntry}
    /\ wrong \in [0..(AttemptWindow - 1) -> Nat]

AuthInit ==
    /\ file \in {NoFile, {}}
    /\ password = 0 /\ given = 0
    /\ entry = NoEntry
    /\ wrong = NoneWrong

-----------------------------------------------------------------------------
(* Sessions.                                                                 *)

isConfigured == file # NoFile

\* cleanupExpiredSessions: the file as every reader but logout writes it back.
Cleaned == {s \in file : s.left > 0}

getSession(id) ==
    /\ isConfigured
    /\ \E s \in Cleaned : s.id = id

validateCsrfToken(id, token) == getSession(id) /\ token = id

\* Somebody is told that a new password is set.
Gives == given < MaxPasswords /\ given' = given + 1

\* saveState, if a handler has changed the sessions it read.  The password is written
\* with them: one that the shell has reset meanwhile is gone again.
Saves(sessions) ==
    /\ file' = sessions
    /\ UNCHANGED password
    /\ UNCHANGED given \/ (sessions # file /\ Gives)

\* A call that asks for its session, if it brings a cookie, has the file cleaned.
Asks(id) ==
    /\ isConfigured /\ id # NoId => Saves(Cleaned)
    /\ ~(isConfigured /\ id # NoId) => UNCHANGED accountVars

\* authenticateManagementRequest for a browser of the proxy's own machine.
Admits(id) == ~isConfigured \/ getSession(id)

-----------------------------------------------------------------------------
(* The limiter.                                                              *)

\* Mutant: the block ends a tick early.
Current_Early ==
    IF entry # NoEntry /\ entry.blocked \in {0, 1} THEN NoEntry ELSE entry

\* getRetryAfterSeconds: an entry whose block has passed is deleted.
Current == IF entry # NoEntry /\ entry.blocked = 0 THEN NoEntry ELSE entry

Limited == Current # NoEntry /\ Current.blocked # NotBlocked

\* recordFailure: attempts are counted in windows that start with a failure.
Failed ==
    IF Current = NoEntry \/ Current.age > AttemptWindow
    THEN [count |-> 1, age |-> 0, blocked |-> NotBlocked]
    ELSE [Current EXCEPT !.count = @ + 1,
                         !.blocked = IF Current.count + 1 >= MaxAttempts THEN BlockTime ELSE @]

-----------------------------------------------------------------------------
(* The handlers that change the account.                                     *)

LoginLimited ==
    /\ isConfigured /\ Limited
    /\ UNCHANGED authVars

LoginFails ==
    /\ isConfigured /\ ~Limited
    /\ Saves(Cleaned)
    /\ entry' = Failed
    /\ wrong' = [wrong EXCEPT ![0] = @ + 1]

\* Mutant: the session goes into the file as it is by then, after the check.
LoginSucceeds_Late(id) ==
    /\ isConfigured /\ ~Limited
    /\ LET opened == [id |-> id, left |-> Lifetime, of |-> password]
       IN  \/ file' = Cleaned \cup {opened} /\ UNCHANGED <<password, given>>
           \/ file' = {opened} /\ Gives /\ password' = given'
    /\ entry' = NoEntry
    /\ wrong' = NoneWrong

LoginSucceeds(id) ==
    /\ isConfigured /\ ~Limited
    /\ Saves(Cleaned \cup {[id |-> id, left |-> Lifetime, of |-> password]})
    /\ entry' = NoEntry
    /\ wrong' = NoneWrong

\* logout: the file keeps whatever has expired.
Logout(id) ==
    /\ Saves({s \in file : s.id # id})
    /\ UNCHANGED limiterVars

\* A new password is written, with no sessions.
Renewed ==
    /\ Gives
    /\ file' = {} /\ password' = given'
    /\ UNCHANGED limiterVars

\* changePassword, when the body is there: the session is looked up again.
ChangePassword(id) == getSession(id) /\ Renewed

\* No session any more or a wrong password; or too short a new one, which is looked at
\* last, and then nothing is saved.
ChangeRefused(id) ==
    /\ isConfigured
    /\ \/ Saves(Cleaned)
       \/ getSession(id) /\ UNCHANGED accountVars
    /\ UNCHANGED limiterVars

\* govyn admin setup.
SetupAdmin ==
    /\ ~isConfigured
    /\ file' = {}
    /\ UNCHANGED <<password, given, entry, wrong>>

\* govyn admin reset-password, for somebody who forgot the old one.
ResetPassword == isConfigured /\ Renewed

\* A restart of the proxy forgets the limiter, and only that.
Restart ==
    /\ entry' = NoEntry
    /\ wrong' = NoneWrong
    /\ UNCHANGED accountVars

-----------------------------------------------------------------------------
Elapsed(n) == IF n = 0 THEN 0 ELSE n - 1

AuthTick ==
    /\ file' = IF isConfigured THEN {[s EXCEPT !.left = Elapsed(@)] : s \in file} ELSE file
    /\ entry' = IF entry = NoEntry THEN NoEntry
                ELSE [entry EXCEPT
                        !.age = IF @ > AttemptWindow \/ entry.blocked # NotBlocked
                                THEN @ ELSE @ + 1,  \* of no account in a block
                        !.blocked = IF @ = NotBlocked THEN @ ELSE Elapsed(@)]
    /\ wrong' = [a \in DOMAIN wrong |-> IF a = 0 THEN 0 ELSE wrong[a - 1]]
    /\ UNCHANGED <<password, given>>

-----------------------------------------------------------------------------
\* Every session in the file was opened with the password that is in the file: no
\* overlap of sign-ins, changes of the password whose bodies come late and commands of
\* the shell between a handler's reading and writing leaves one that was opened with
\* another password (auth.ts:242-294, 352-384).
SessionsOfPassword ==
    isConfigured => \A s \in file : s.of = password

\* However attempts fall across the windows of the limiter, which start with a
\* failure and not with the clock, no span shorter than a window sees more wrong
\* passwords than twice the number allowed less two (auth.ts:61-105).
AttemptsBounded ==
    MapThenSumSet(LAMBDA a : wrong[a], DOMAIN wrong) <= 2 * MaxAttempts - 2
=============================================================================

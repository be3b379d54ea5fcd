----------------------------- MODULE Approvals -----------------------------
(***************************************************************************)
(* The approval queue: the approval_requests table behind ApprovalManager, *)
(* the part of the proxy's request handler that holds a request or lets    *)
(* one through on a token, the operator's approve and deny endpoints, the  *)
(* polling endpoint, the sweep that times pending rows out, the retention  *)
(* job, database outages and restarts of the proxy.                        *)
(*                                                                         *)
(* Every SQL statement is one action (each is a single guarded UPDATE, or  *)
(* a synchronous SQLite transaction); what a handler does before and after *)
(* awaiting it are separate actions, so that handlers, sweeps and crashes  *)
(* interleave at every await.  A token is a fresh UUID per approved row,   *)
(* so the row's identity stands for it.                                    *)
(***************************************************************************)
EXTENDS Naturals

CONSTANTS
    Ids,          \* identities the database gives to approval rows
    Requests,     \* the HTTP requests of a behaviour, each sent once
    Agents, Paths, Hashes,  \* what a request is: who, upstream path, SHA-256
    NoSubject,    \* a request slot that has not been used
    NoId,         \* no row, no token
    Forged,       \* a token header no row carries
    Gated,        \* the subjects some require_approval policy matches
    FailOpen,     \* database.failOpen of the configuration
    Timeout,      \* timeout_seconds of the policy
    Retain,       \* approval_retention_days, in the same unit
    MaxTime, MaxOutages, MaxCrashes  \* bounds of the model

Subjects == [agent : Agents, path : Paths, hash : Hashes]

ASSUME ConstantsAssumption ==
    /\ Gated \subseteq Subjects
    /\ NoSubject \notin Subjects
    /\ NoId \notin Ids /\ Forged \notin Ids /\ NoId # Forged
    /\ FailOpen \in BOOLEAN
    /\ Timeout \in Nat /\ Retain \in Nat
    /\ MaxTime \in Nat /\ MaxOutages \in Nat /\ MaxCrashes \in Nat

VARIABLES
    rows,     \* the approval_requests table
    now,      \* the clock
    req,      \* the requests and how far their handlers are
    known,    \* tokens the polling endpoint has handed out
    proxy,    \* "down", "up", or "detached": up without persistence
    db,       \* "up" or "down"
    outages, crashes  \* counters for the bounds

vars == <<rows, now, req, known, proxy, db, outages, crashes>>

-----------------------------------------------------------------------------
Status == {"absent", "pending", "approved", "denied", "denied_timeout", "deleted"}

Row == [status : Status, subject : Subjects \cup {NoSubject},
        used : BOOLEAN, expires : Nat, created : Nat]

\* "checking" awaits isAvailable, "creating" the INSERT, "consuming" the token
\* UPDATE; "granted" is between that UPDATE and forwardRequest.
InFlight == {"checking", "creating", "consuming", "granted"}

\* The answers: "forwarded" was handed to forwardRequest, "held" is 202,
\* "rejected" 403, "unavailable" 503, "failed" 500, "lost" has no answer.
Answered == {"forwarded", "held", "rejected", "unavailable", "failed", "lost"}

Request == [pc : {"unsent"} \cup InFlight \cup Answered,
            subject : Subjects \cup {NoSubject},
            token : Ids \cup {NoId, Forged},
            row : Ids \cup {NoId}]  \* the row a 202 names or a token released

TypeOK ==
    /\ rows \in [Ids -> Row]
    /\ now \in Nat
    /\ req \in [Requests -> Request]
    /\ known \subseteq Ids
    /\ proxy \in {"down", "up", "detached"}
    /\ db \in {"up", "down"}
    /\ outages \in Nat /\ crashes \in Nat

-----------------------------------------------------------------------------
Init ==
    /\ rows = [i \in Ids |-> [status |-> "absent", subject |-> NoSubject,
                              used |-> FALSE, expires |-> 0, created |-> 0]]
    /\ now = 0
    /\ req = [r \in Requests |-> [pc |-> "unsent", subject |-> NoSubject,
                                  token |-> NoId, row |-> NoId]]
    /\ known = {}
    /\ proxy = "down"
    /\ db = "up"
    /\ outages = 0 /\ crashes = 0

\* The handler of request r moves on, leaving every other variable alone.
Goto(r, pc) == req' = [req EXCEPT ![r].pc = pc]

\* The same, remembering the row a 202 names or a token released.
GotoWith(r, pc, i) == req' = [req EXCEPT ![r] = [@ EXCEPT !.pc = pc, !.row = i]]

\* Mutant: a fail-closed proxy starts without its database.
Start_AlwaysOpen ==
    /\ proxy = "down"
    /\ proxy' = IF db = "up" THEN "up" ELSE "detached"
    /\ UNCHANGED <<rows, now, req, known, db, outages, crashes>>

\* startProxyRuntime: with the database reachable the approval manager and its
\* sweep exist; without it fail-open starts the proxy without either and
\* fail-closed refuses to start.
Start ==
    /\ proxy = "down"
    /\ db = "down" => FailOpen
    /\ proxy' = IF db = "up" THEN "up" ELSE "detached"
    /\ UNCHANGED <<rows, now, req, known, db, outages, crashes>>

\* The process ends (signal, crash): handlers in flight die with it.
Die ==
    /\ proxy' = "down"
    /\ req' = [r \in Requests |->
                 IF req[r].pc \in InFlight THEN [req[r] EXCEPT !.pc = "lost"] ELSE req[r]]

Crash ==
    /\ proxy # "down" /\ crashes < MaxCrashes
    /\ crashes' = crashes + 1
    /\ Die
    /\ UNCHANGED <<rows, now, known, db, outages>>

DbFails ==
    /\ db = "up" /\ outages < MaxOutages
    /\ db' = "down" /\ outages' = outages + 1
    /\ UNCHANGED <<rows, now, req, known, proxy, crashes>>

DbRecovers ==
    /\ db = "down"
    /\ db' = "up"
    /\ UNCHANGED <<rows, now, req, known, proxy, outages, crashes>>

\* The clock; MaxTime bounds it once no pending row waits for its expiry.
Tick ==
    /\ now < MaxTime \/ \E i \in Ids : rows[i].status = "pending" /\ rows[i].expires >= now
    /\ now' = now + 1
    /\ UNCHANGED <<rows, req, known, proxy, db, outages, crashes>>

-----------------------------------------------------------------------------
(* The proxied request.  The token header is looked at only when there is an *)
(* approval manager; otherwise policies are evaluated, synchronously, and a  *)
(* hold is obeyed only when there is an approval manager.                    *)

Arrive(r, s, t) ==
    /\ proxy # "down"
    /\ req[r].pc = "unsent"
    /\ req' = [req EXCEPT ![r] =
         [pc      |-> IF proxy = "up" /\ t # NoId THEN "consuming"
                      ELSE IF proxy = "up" /\ s \in Gated THEN "checking"
                      ELSE "forwarded",
          subject |-> s, token |-> t, row |-> NoId]]
    /\ UNCHANGED <<rows, now, known, proxy, db, outages, crashes>>

\* dbWriter.isAvailable() resolves.
CheckAvailable(r) ==
    /\ req[r].pc = "checking"
    /\ Goto(r, IF db = "up" THEN "creating" ELSE "unavailable")
    /\ UNCHANGED <<rows, now, known, proxy, db, outages, crashes>>

\* Mutant: the timeout is subtracted.
NewRow_Past(s) == [status |-> "pending", subject |-> s, used |-> FALSE,
                   expires |-> now - Timeout, created |-> now]

\* createApprovalRequest: INSERT with a fresh id and expires_at = now + timeout.
NewRow(s) == [status |-> "pending", subject |-> s, used |-> FALSE,
              expires |-> now + Timeout, created |-> now]

CreateApproval(r, i) ==
    /\ req[r].pc = "creating"
    /\ db = "up"
    /\ rows[i].status = "absent"
    /\ rows' = [rows EXCEPT ![i] = NewRow(req[r].subject)]
    /\ GotoWith(r, "held", i)
    /\ UNCHANGED <<now, known, proxy, db, outages, crashes>>

\* The INSERT is applied but its answer is lost with the connection: 500, and a
\* row nobody was told of.
CreateUnacknowledged(r, i) ==
    /\ req[r].pc = "creating"
    /\ db = "up" /\ outages < MaxOutages
    /\ rows[i].status = "absent"
    /\ rows' = [rows EXCEPT ![i] = NewRow(req[r].subject)]
    /\ Goto(r, "failed")
    /\ db' = "down" /\ outages' = outages + 1
    /\ UNCHANGED <<now, known, proxy, crashes>>

CreateFails(r) ==
    /\ req[r].pc = "creating"
    /\ db = "down"
    /\ Goto(r, "failed")
    /\ UNCHANGED <<rows, now, known, proxy, db, outages, crashes>>

\* Mutants: token_used, or the agent, is left out of the WHERE clause.
TokenMatches_Reusable(i, s) == rows[i].status = "approved" /\ rows[i].subject = s

TokenMatches_AnyAgent(i, s) ==
    /\ rows[i].status = "approved" /\ ~rows[i].used
    /\ rows[i].subject.path = s.path /\ rows[i].subject.hash = s.hash

\* The WHERE clause of validateAndConsumeToken: the token's row, approved, not
\* used, for the same agent, upstream path and body hash.  There is no expiry
\* in it.
TokenMatches(i, s) ==
    /\ rows[i].status = "approved"
    /\ ~rows[i].used
    /\ rows[i].subject = s  \* agent_id, target_path and request_hash

Presents(r) == req[r].token \in Ids /\ TokenMatches(req[r].token, req[r].subject)

ConsumeToken(r) ==
    /\ req[r].pc = "consuming"
    /\ db = "up"
    /\ Presents(r)
    /\ rows' = [rows EXCEPT ![req[r].token].used = TRUE]
    /\ GotoWith(r, "granted", req[r].token)
    /\ UNCHANGED <<now, known, proxy, db, outages, crashes>>

\* The UPDATE commits and its answer is lost: 500, and the token is gone.
ConsumeUnacknowledged(r) ==
    /\ req[r].pc = "consuming"
    /\ db = "up" /\ outages < MaxOutages
    /\ Presents(r)
    /\ rows' = [rows EXCEPT ![req[r].token].used = TRUE]
    /\ Goto(r, "failed")
    /\ db' = "down" /\ outages' = outages + 1
    /\ UNCHANGED <<now, known, proxy, crashes>>

\* Mutant: a token no row carries gets no answer.
RejectToken_Silent(r) ==
    /\ req[r].pc = "consuming"
    /\ db = "up"
    /\ req[r].token # Forged /\ ~Presents(r)
    /\ Goto(r, "rejected")
    /\ UNCHANGED <<rows, now, known, proxy, db, outages, crashes>>

RejectToken(r) ==
    /\ req[r].pc = "consuming"
    /\ db = "up"
    /\ ~Presents(r)
    /\ Goto(r, "rejected")
    /\ UNCHANGED <<rows, now, known, proxy, db, outages, crashes>>

ConsumeFails(r) ==
    /\ req[r].pc = "consuming"
    /\ db = "down"
    /\ Goto(r, "failed")
    /\ UNCHANGED <<rows, now, known, proxy, db, outages, crashes>>

\* The handler resumes after the UPDATE and hands the request to forwardRequest.
ForwardGranted(r) ==
    /\ req[r].pc = "granted"
    /\ Goto(r, "forwarded")
    /\ UNCHANGED <<rows, now, known, proxy, db, outages, crashes>>

-----------------------------------------------------------------------------
(* The endpoints under /api/approvals and the background jobs.               *)

Serving == proxy = "up" /\ db = "up"

\* GET /api/approvals/:id hands the token out once the row is approved.
Poll(i) ==
    /\ Serving
    /\ rows[i].status = "approved"
    /\ i \notin known
    /\ known' = known \cup {i}
    /\ UNCHANGED <<rows, now, req, proxy, db, outages, crashes>>

\* POST .../approve and .../deny: UPDATE ... WHERE id AND status = 'pending'.
\* Nothing compares expires_at with the clock.
Decide(i, verdict) ==
    /\ Serving
    /\ rows[i].status = "pending"
    /\ rows' = [rows EXCEPT ![i].status = verdict]
    /\ UNCHANGED <<now, req, known, proxy, db, outages, crashes>>

ApproveRequest(i) == Decide(i, "approved")
DenyRequest(i) == Decide(i, "denied")

\* Mutants: approved rows time out too; the comparison is turned round.
Overdue_Approved == {i \in Ids : rows[i].status \in {"pending", "approved"} /\ rows[i].expires < now}

Overdue_Reversed == {i \in Ids : rows[i].status = "pending" /\ now < rows[i].expires}

\* expireTimedOutApprovals: one UPDATE over every overdue pending row.
Overdue == {i \in Ids : rows[i].status = "pending" /\ rows[i].expires < now}

ExpireTimedOut ==
    /\ Serving
    /\ Overdue # {}
    /\ rows' = [i \in Ids |-> IF i \in Overdue
                              THEN [rows[i] EXCEPT !.status = "denied_timeout"] ELSE rows[i]]
    /\ UNCHANGED <<now, req, known, proxy, db, outages, crashes>>

\* The interval callback neither awaits nor catches the promise of the sweep:
\* a database error there is an unhandled rejection, which ends the process.
SweepRejects ==
    /\ proxy = "up" /\ db = "down"
    /\ Die
    /\ UNCHANGED <<rows, now, known, db, outages, crashes>>

\* cleanupApprovalRecords: DELETE by age, whatever the status.
Aged == {i \in Ids : rows[i].status \notin {"absent", "deleted"} /\ rows[i].created + Retain < now}

CleanupApprovalRecords ==
    /\ Serving
    /\ Aged # {}
    /\ rows' = [i \in Ids |-> IF i \in Aged
                              THEN [rows[i] EXCEPT !.status = "deleted"] ELSE rows[i]]
    /\ UNCHANGED <<now, req, known, proxy, db, outages, crashes>>

-----------------------------------------------------------------------------
Handle(r) ==
    \/ \E s \in Subjects, t \in known \cup {NoId, Forged} : Arrive(r, s, t)
    \/ CheckAvailable(r)
    \/ \E i \in Ids : CreateApproval(r, i) \/ CreateUnacknowledged(r, i)
    \/ CreateFails(r)
    \/ ConsumeToken(r) \/ ConsumeUnacknowledged(r)
    \/ RejectToken(r) \/ ConsumeFails(r)
    \/ ForwardGranted(r)

Operate(i) == Poll(i) \/ ApproveRequest(i) \/ DenyRequest(i)

Background == ExpireTimedOut \/ SweepRejects \/ CleanupApprovalRecords

Environment == Start \/ Crash \/ DbFails \/ DbRecovers \/ Tick

Next ==
    \/ \E r \in Requests : Handle(r)
    \/ \E i \in Ids : Operate(i)
    \/ Background
    \/ Environment

Spec == Init /\ [][Next]_vars

(* Fairness.  A statement sent to a reachable database, or failed by an      *)
(* unreachable one, completes; the sweep runs on an interval; the process is *)
(* restarted and outages end.  Operators, agents and crashes owe nothing.    *)
Step(r) ==
    \/ CheckAvailable(r) \/ CreateFails(r) \/ ConsumeToken(r) \/ RejectToken(r)
    \/ ConsumeFails(r) \/ ForwardGranted(r)
    \/ \E i \in Ids : CreateApproval(r, i)

FairSpec ==
    /\ Spec
    /\ \A r \in Requests : WF_vars(Step(r))
    /\ WF_vars(ExpireTimedOut) /\ WF_vars(Tick)
    /\ WF_vars(Start) /\ WF_vars(DbRecovers)

-----------------------------------------------------------------------------
(* Correctness.                                                              *)

\* The requests that went upstream on the token of row i.
ForwardedOn(i) == {r \in Requests : req[r].pc = "forwarded" /\ req[r].row = i}

\* An approval carries at most one request upstream, whatever retries, lost
\* answers, outages and restarts surround the token's UPDATE.
AtMostOneForward ==
    \A r, q \in Requests :
        req[r].pc = "forwarded" /\ req[q].pc = "forwarded"
        /\ req[r].row = req[q].row /\ req[r].row \in Ids => r = q

\* What goes upstream on a token is what the operator approved: same agent,
\* path and body, on a row that was approved and whose token is spent.
ForwardedAsApproved ==
    \A r \in Requests : req[r].pc = "forwarded" /\ req[r].row \in Ids =>
        LET row == rows[req[r].row]
        IN  row.used /\ row.status \in {"approved", "deleted"} /\ row.subject = req[r].subject

\* A request some require_approval policy matches reaches the provider only on
\* a token ("approvals ALWAYS require DB, even in fail-open", server.ts).
GatedOnlyOnToken ==
    \A r \in Requests :
        req[r].pc = "forwarded" /\ req[r].subject \in Gated => req[r].row \in Ids

\* The inductive strengthening of the three: a token, from the moment its UPDATE
\* returns, belongs to one request, and stays spent on the row it came from.
Released(r) == req[r].pc \in {"granted", "forwarded"} /\ req[r].row \in Ids

ReleaseInv ==
    /\ TypeOK
    /\ \A i \in Ids : rows[i].used => rows[i].status \in {"approved", "deleted"}
    /\ \A r \in Requests : req[r].pc = "granted" => req[r].row \in Ids
    /\ \A r \in Requests : Released(r) =>
          rows[req[r].row].used /\ rows[req[r].row].subject = req[r].subject
    /\ \A r, q \in Requests : Released(r) /\ Released(q) /\ req[r].row = req[q].row => r = q

\* No held request stays undecided for ever: the sweep gets it if nobody does.
\* It is the fail-closed reading: a proxy started without its database has no
\* sweep.
PendingResolved ==
    \A i \in Ids : rows[i].status = "pending" ~> rows[i].status # "pending"

\* No handler waits for ever: every request is answered or dies with the proxy.
EveryRequestAnswered ==
    \A r \in Requests : req[r].pc \in InFlight ~> req[r].pc \in Answered

\* The abstract specification, with the table's columns as its decisions.
Decision(status) ==
    CASE status = "absent" -> "none"
      [] status = "pending" -> "asked"
      [] status = "approved" -> "granted"
      [] status \in {"denied", "denied_timeout"} -> "refused"
      [] status = "deleted" -> "purged"

Grant == INSTANCE ApprovalGrant WITH
    decision  <- [i \in Ids |-> Decision(rows[i].status)],
    spent     <- {i \in Ids : rows[i].used},
    delivered <- [i \in Ids |-> ForwardedOn(i)]

\* The queue keeps the promise: every step decides, spends, delivers or purges
\* as the abstract specification allows, or changes none of it.
Grants == Grant!Spec
=============================================================================

-------------------------- MODULE RequestPipeline --------------------------
(***************************************************************************)
(* The path of a proxied request, from the budget check on arrival through *)
(* the body, the loop detector and the upstream call to the cost record    *)
(* and the log entry, with requests in flight at the same time, clients    *)
(* that leave, upstreams that fail or fall silent, the unblock endpoint    *)
(* and restarts of the proxy.                                              *)
(*                                                                         *)
(* What policies and approvals decide is in other modules: here a request  *)
(* whose body has arrived is refused, or forwarded.                        *)
(***************************************************************************)
EXTENDS Budgets

CONSTANTS
    Requests, Keys,
    Nil,          \* an unused field
    Threshold, Window, Cooldown,  \* loop detection, per agent
    Costs,        \* the costs responses report; 0 is an unpriced model
    NoUsage,      \* a response without token usage
    MaxInFlight,  \* how many requests an agent has open at once
    MaxTime, Horizon, MaxCrashes  \* bounds of the model

ASSUME PipelineConstants ==
    /\ Nil \notin Keys \cup Agents
    /\ {Threshold, Window, Cooldown} \subseteq [Agents -> Nat]
    /\ Costs \subseteq Nat /\ NoUsage \notin Costs
    /\ MaxInFlight \in Nat /\ {MaxTime, Horizon, MaxCrashes} \subseteq Nat

VARIABLES
    windows,   \* of the loop detector
    req,       \* the requests and how far their handlers are
    attempts,  \* history: what reached the loop detector since the last start
    crashes

INSTANCE LoopDetector

vars == <<now, records, blocked, windows, req, attempts, crashes>>

-----------------------------------------------------------------------------
\* "body" awaits the end of the body (and, with a token, its UPDATE); "upstream"
\* the response; "piping" and "streaming" its end; "stalled" is a pipe that nobody
\* reads any more; "timedout" awaits the error event that follows the destruction
\* of the upstream request.
InFlight == {"body", "upstream", "piping", "streaming", "stalled", "timedout"}

\* "limited" and "cooling" are the 429s of the budget check, "looping" that of the
\* loop detector, "refused" the answers between the two; "delivered" is a whole
\* response, "broken" a truncated one, "badgateway" 502, "gone" no answer.
Settled == {"limited", "cooling", "looping", "refused", "delivered", "broken",
            "badgateway", "gone"}

Request == [pc : {"unsent"} \cup InFlight \cup Settled,
            agent : Agents \cup {Nil}, key : Keys \cup {Nil},
            left : BOOLEAN,            \* the client has closed its connection
            cost : Costs \cup {NoUsage},  \* what the response reported
            logged : Nat]              \* entries in the action log

Attempt == [agent : Agents, key : Keys, at : Nat,
            verdict : {"passed", "looping", "pardoned"}]

TypeOK ==
    /\ BudgetsTypeOK
    /\ WindowsTypeOK
    /\ req \in [Requests -> Request]
    /\ attempts \in Seq(Attempt)
    /\ crashes \in Nat

Unsent == [pc |-> "unsent", agent |-> Nil, key |-> Nil, left |-> FALSE,
           cost |-> NoUsage, logged |-> 0]

NothingBlocked == [a \in Agents |-> NoEntry]

Init ==
    /\ now = 0
    /\ records = <<>> /\ blocked = NothingBlocked /\ windows = NoWindows
    /\ req = [r \in Requests |-> Unsent]
    /\ attempts = <<>>
    /\ crashes = 0

At(r, pcs) == req[r].pc \in pcs

\* The handler of r moves on, with or without an entry in the action log.
Goto(r, pc) == req' = [req EXCEPT ![r].pc = pc]

GotoLogged(r, pc) == req' = [req EXCEPT ![r].pc = pc, ![r].logged = @ + 1]

Open(a) == {r \in Requests : req[r].agent = a /\ At(r, InFlight)}

-----------------------------------------------------------------------------
\* A request comes in: the budget check, on its headers alone.
Arrive(r, a, k) ==
    /\ At(r, {"unsent"})
    /\ Cardinality(Open(a)) < MaxInFlight
    /\ LET v == CheckBudget(a)
       IN  req' = [req EXCEPT ![r] =
             [pc |-> IF v.allowed THEN "body" ELSE IF v.code = "loop" THEN "cooling" ELSE "limited",
              agent |-> a, key |-> k, left |-> FALSE, cost |-> NoUsage,
              logged |-> IF v.allowed THEN 0 ELSE 1]]
    /\ blocked' = Looked(a)
    /\ UNCHANGED <<now, records, windows, attempts, crashes>>

\* No route (404), a policy denial (403, 429), a hold (202), a rejected token or
\* a database failure: only the policy denial is logged.
Refuse(r) ==
    /\ At(r, {"body"})
    /\ Goto(r, "refused") \/ GotoLogged(r, "refused")
    /\ UNCHANGED <<now, records, blocked, windows, attempts, crashes>>

\* The upload breaks off: 'end' never fires and the handler is forgotten.
UploadAborts(r) ==
    /\ At(r, {"body"})
    /\ Goto(r, "gone")
    /\ UNCHANGED <<now, records, blocked, windows, attempts, crashes>>

\* forwardRequest up to the upstream call: record the request, then look at the
\* window.
Attempted(r, verdict) ==
    /\ RecordRequest(req[r].agent, req[r].key, now)
    /\ attempts' = Append(attempts, [agent |-> req[r].agent, key |-> req[r].key,
                                     at |-> now, verdict |-> verdict])

StopLoop(r) ==
    /\ At(r, {"body"})
    /\ IsLooping(req[r].agent, req[r].key, now)
    /\ Attempted(r, "looping")
    /\ BlockAgent(req[r].agent, Cooldown[req[r].agent])
    /\ GotoLogged(r, "looping")
    /\ UNCHANGED <<now, records, crashes>>

Forward(r) ==
    /\ At(r, {"body"})
    /\ ~IsLooping(req[r].agent, req[r].key, now)
    /\ Attempted(r, "passed")
    /\ Goto(r, "upstream")
    /\ UNCHANGED <<now, records, blocked, crashes>>

-----------------------------------------------------------------------------
(* The upstream call.                                                        *)

\* The response headers.  When the client has already left, the first chunk stops
\* the pipe: a closed response accepts nothing, never drains, and its 'close' is
\* past.  Only an empty body still ends.
ResponseStarts(r) ==
    /\ At(r, {"upstream"})
    /\ \/ ~req[r].left /\ (Goto(r, "piping") \/ Goto(r, "streaming"))
       \/ req[r].left /\ (Goto(r, "stalled") \/ GotoLogged(r, "delivered"))
    /\ UNCHANGED <<now, records, blocked, windows, attempts, crashes>>

\* Mutant: a truncated response is charged too.
ResponseErrors_Charged(r) ==
    /\ At(r, {"piping", "streaming"})
    /\ Goto(r, "broken")
    /\ RecordCost(req[r].agent, 1)
    /\ UNCHANGED <<now, blocked, windows, attempts, crashes>>

\* The upstream breaks off: the client's response is ended, nothing is recorded.
ResponseErrors(r) ==
    /\ At(r, {"piping", "streaming", "stalled"})
    /\ Goto(r, "broken")
    /\ UNCHANGED <<now, records, blocked, windows, attempts, crashes>>

\* 'end': cost record (when the body reports usage) and log entry.
ResponseEnds(r) ==
    /\ At(r, {"piping", "streaming"})
    /\ \E cost \in Costs \cup {NoUsage} :
          /\ req' = [req EXCEPT ![r].pc = "delivered", ![r].cost = cost, ![r].logged = @ + 1]
          /\ IF cost = NoUsage THEN UNCHANGED records ELSE RecordCost(req[r].agent, cost)
    /\ UNCHANGED <<now, blocked, windows, attempts, crashes>>

\* The 'error' event of the upstream request: logged, and 502 unless answered.
ConnectionFails(r) ==
    /\ At(r, {"upstream", "timedout"})
    /\ GotoLogged(r, "badgateway")
    /\ UNCHANGED <<now, records, blocked, windows, attempts, crashes>>

\* The 'timeout' event: logged and 502; destroying the request then raises 'error',
\* on the request before a response, on the response after.
TimesOut(r) ==
    /\ \/ At(r, {"upstream"}) /\ GotoLogged(r, "timedout")
       \/ At(r, {"piping", "streaming", "stalled"}) /\ GotoLogged(r, "broken")
    /\ UNCHANGED <<now, records, blocked, windows, attempts, crashes>>

\* The client closes.  A stream destroys its upstream at once and records nothing.
\* A pipe is undone, which pauses the upstream response, unless it was waiting for
\* the client to drain: then it runs on.  Before a response nobody notices.
ClientLeaves(r) ==
    /\ ~req[r].left
    /\ \/ At(r, {"streaming"}) /\ req' = [req EXCEPT ![r].pc = "gone", ![r].left = TRUE]
       \/ At(r, {"piping"}) /\ req' = [req EXCEPT ![r].pc = "stalled", ![r].left = TRUE]
       \/ At(r, {"upstream", "piping"}) /\ req' = [req EXCEPT ![r].left = TRUE]
    /\ UNCHANGED <<now, records, blocked, windows, attempts, crashes>>

-----------------------------------------------------------------------------
\* POST /api/agents/:agentId/unblock.  The windows of the detector stay.
Unblock(a) ==
    /\ UnblockAgent(a)
    /\ attempts' = [n \in DOMAIN attempts |->
                      IF attempts[n].agent = a /\ attempts[n].verdict = "looping"
                      THEN [attempts[n] EXCEPT !.verdict = "pardoned"] ELSE attempts[n]]
    /\ UNCHANGED <<now, records, windows, req, crashes>>

SweepBlocked ==
    /\ \E a \in Agents : blocked[a] # NoEntry /\ ~IsBlocked(a)
    /\ CleanupBlocked
    /\ UNCHANGED <<now, records, windows, req, attempts, crashes>>

\* The process ends and starts again: spend, blocks and windows are memory.
Crash ==
    /\ crashes < MaxCrashes
    /\ crashes' = crashes + 1
    /\ records' = <<>> /\ blocked' = NothingBlocked /\ windows' = NoWindows
    /\ attempts' = <<>>
    /\ req' = [r \in Requests |-> IF At(r, InFlight) THEN [req[r] EXCEPT !.pc = "gone"] ELSE req[r]]
    /\ UNCHANGED now

\* The clock; MaxTime bounds it, and Horizon while an agent waits for a reset.
Tick ==
    /\ now < MaxTime \/ (now < Horizon /\ \E a \in Agents : ~CheckBudget(a).allowed)
    /\ now' = now + 1
    /\ UNCHANGED <<records, blocked, windows, req, attempts, crashes>>

-----------------------------------------------------------------------------
Handle(r) ==
    \/ \E a \in Agents, k \in Keys : Arrive(r, a, k)
    \/ Refuse(r) \/ UploadAborts(r) \/ StopLoop(r) \/ Forward(r)
    \/ ResponseStarts(r) \/ ResponseErrors(r) \/ ResponseEnds(r)
    \/ ConnectionFails(r) \/ TimesOut(r) \/ ClientLeaves(r)

Next ==
    \/ \E r \in Requests : Handle(r)
    \/ \E a \in Agents : Unblock(a)
    \/ SweepBlocked \/ Crash \/ Tick

Spec == Init /\ [][Next]_vars

\* Time passes.  Nothing else is needed for a block or a limit to lift.
FairSpec == Spec /\ WF_vars(Tick)

-----------------------------------------------------------------------------
(* Correctness.                                                              *)

\* The spend of an agent with a hard limit passes it by no more than what was in
\* flight when it was reached, midnight and month's end included.
Overshoot == MaxInFlight * Max(Costs)

BoundedOvershoot ==
    \A a \in Hard :
        /\ DailyLimit[a] \in Nat \ {0} => DailySpend(a) < DailyLimit[a] + Overshoot
        /\ MonthlyLimit[a] \in Nat \ {0} => MonthlySpend(a) < MonthlyLimit[a] + Overshoot

\* Every completed response is charged once, to the agent that asked, and nothing
\* else is, until a restart; and it has one entry in the log, late errors or not.
ChargedOnce ==
    /\ crashes = 0 => \A a \in Agents : Spend(a, 0) =
           MapThenSumSet(LAMBDA r : req[r].cost,
                         {r \in Requests : req[r].agent = a /\ req[r].cost # NoUsage})
    /\ \A r \in Requests : req[r].cost # NoUsage => req[r].logged = 1

\* The n-th attempt is stopped as a loop exactly when it and the earlier attempts
\* of the same agent with the same key, less than one window old, reach the
\* threshold; the attempts that were stopped count.
Identical(n) == {m \in 1..n : /\ attempts[m].agent = attempts[n].agent
                              /\ attempts[m].key = attempts[n].key
                              /\ attempts[m].at + Window[attempts[n].agent] > attempts[n].at}

LoopVerdict ==
    \A n \in DOMAIN attempts :
        attempts[n].verdict # "passed" <=> Cardinality(Identical(n)) >= Threshold[attempts[n].agent]

\* A loop keeps its agent out for the whole cooldown, counted from the latest
\* verdict, unless an operator lifts it.
CooldownHeld ==
    \A n \in DOMAIN attempts :
        LET until == attempts[n].at + Cooldown[attempts[n].agent]
        IN  attempts[n].verdict = "looping" /\ now < until =>
              blocked[attempts[n].agent] # NoEntry /\ blocked[attempts[n].agent] >= until

\* The inductive strengthening: no attempt lies in the future, so the latest block
\* of an agent is also its longest.
CooldownInv ==
    /\ now \in Nat
    /\ blocked \in [Agents -> Nat \cup {NoEntry}]
    /\ attempts \in Seq(Attempt)
    /\ req \in [Requests -> Request]
    /\ \A r \in Requests :
          At(r, {"unsent"}) \/ (req[r].agent \in Agents /\ req[r].key \in Keys)
    /\ \A n \in DOMAIN attempts : attempts[n].at <= now
    /\ CooldownHeld

\* No refusal is for ever: the cooldown ends, the day and the month turn.
RefusalLifts == \A a \in Agents : []<>CheckBudget(a).allowed
=============================================================================

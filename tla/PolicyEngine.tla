---------------------------- MODULE PolicyEngine ----------------------------
(***************************************************************************)
(* The policies in force and what they say of a request.  A policy file is *)
(* loaded as a whole or not at all; a request is put to every enabled      *)
(* policy in whose scope it is, a rate limit counting it on the way.       *)
(***************************************************************************)
EXTENDS PolicyRules, SequencesExt

CONSTANTS
    Names,
    Requests,        \* what agents ask for
    LocalTime,       \* the moment in each zone, by the clock
    Malformed,       \* policies whose fields have values no evaluation of the request stands
    Limit, Window,   \* of a rate_limit policy
    MaxTime, MaxEvaluations  \* bounds of the model

\* An entry of a policy file as parsePolicies reads it; the type of an "unknown" one
\* is none the parser accepts.
Entry == [name : Names, type : Kinds \cup {"unknown"}, enabled : BOOLEAN,
          scope : SUBSET (Agents \X Providers), match : SUBSET Facts, terms : Terms]

ASSUME EngineConstants ==
    /\ Requests \subseteq Context
    /\ Malformed \subseteq Entry \X Context
    /\ LocalTime \in [Zones -> [0..MaxTime -> Moment]]
    /\ {Limit, Window, MaxTime, MaxEvaluations} \subseteq Nat /\ Window > 0

VARIABLES
    policies,  \* PolicyEngine.policies
    windows,   \* RateLimitStore.windows, by `${policy.name}:${agentId}`
    now,
    seen       \* history: the evaluations of this process

engineVars == <<policies, windows, now, seen>>

-----------------------------------------------------------------------------
Valid(e) == e.type \in Kinds /\ e.terms \in TermsOf(e.type)

Policy == {p \in Entry : Valid(p)}

\* Mutant: the entries are not looked at.
Loadable_Anything(items) ==
    \A i, j \in DOMAIN items : items[i].name = items[j].name => i = j

\* parsePolicies, of a document that is YAML with a sequence of policies.
Loadable(items) ==
    /\ \A i \in DOMAIN items : Valid(items[i])
    /\ \A i, j \in DOMAIN items : items[i].name = items[j].name => i = j

NoWindows == [n \in Names |-> [a \in Agents |-> <<>>]]

-----------------------------------------------------------------------------
(* Evaluation.                                                               *)

\* The scope of a policy: everybody, an agent or a provider.
Applies(p, r) == p.enabled /\ <<r.agent, r.provider>> \in p.scope

\* Mutant: an entry leaves the window a unit of time too early.
Counted_Early(w) ==
    LET expired == {i \in DOMAIN w : w[i] + Window <= now + 1}
    IN  Append(SubSeq(w, Cardinality(expired) + 1, Len(w)), now)

\* RateLimitStore.check: the expired ones are shifted out, and this request counts
\* whatever becomes of it.
Counted(w) ==
    LET expired == {i \in DOMAIN w : w[i] + Window <= now}
    IN  Append(SubSeq(w, Cardinality(expired) + 1, Len(w)), now)

\* All criteria of a block match; a filter needs only one of its patterns.
Blocks(p, r) == p.type = "block" /\ p.match \subseteq r.facts
Filters(p, r) == p.type = "content_filter" /\ p.match \cap r.facts # {}

\* That the spend of the period has reached the limit is a fact of the request.
OverBudget(p, r) == p.type = "budget_limit" /\ p.match \subseteq r.facts

OutOfHours(p) ==
    p.type = "time_window" /\ ClosedAt(p.terms, LocalTime[p.terms.zone][now])

TooMany(p, r) ==
    p.type = "rate_limit" /\ Len(Counted(windows[p.name][r.agent])) > Limit

Denies(p, r) ==
    Blocks(p, r) \/ Filters(p, r) \/ OverBudget(p, r) \/ OutOfHours(p) \/ TooMany(p, r)

\* A require_approval policy that matches does not deny.
Holds(p, r) == p.type = "require_approval" /\ p.match \subseteq r.facts

\* Intl.DateTimeFormat throws at a zone it does not know; and the parser lets fields
\* through, such as a day that is a number or headers that are null, at which the
\* evaluation throws when it gets to them.
Throws(p, r) ==
    \/ p.type = "time_window" /\ p.terms.zone \in UnknownZones
    \/ <<p, r>> \in Malformed

Applying(r) == {i \in DOMAIN policies : Applies(policies[i], r)}
Throwing(r) == {i \in Applying(r) : Throws(policies[i], r)}

\* The policies evaluated: all that apply, also after the first denial, unless one throws.
Evaluated(r) == {i \in Applying(r) : \A j \in Throwing(r) : i < j}

\* The outcome of evaluate as the request handler reads it: an exception is answered
\* with a 500, and a denial goes before an approval.
Verdict(r) ==
    IF Throwing(r) # {} THEN "failed"
    ELSE IF \E i \in Evaluated(r) : Denies(policies[i], r) THEN "denied"
    ELSE IF \E i \in Evaluated(r) : Holds(policies[i], r) THEN "held"
    ELSE "passed"

\* The minute of the day as getUTCHours and getUTCMinutes give it, which know no 24th hour.
UtcMinute == LocalTime[Utc][now].minute % (24 * 60)

\* The policies that route the request elsewhere.
Routing(r) ==
    {i \in Applying(r) :
        /\ policies[i].type = "model_route"
        /\ RouteTo(policies[i].terms, r, UtcMinute) # NoModel}

\* The model a request that passes goes upstream with: by the first policy that routes
\* it, if there is a JSON body to put it in.
Sent(r) ==
    IF Routing(r) = {} \/ ~r.json THEN r.model
    ELSE RouteTo(policies[FirstOf(Routing(r))].terms, r, UtcMinute)

RateLimits == {i \in DOMAIN policies : policies[i].type = "rate_limit"}
NamesOf(indices) == {policies[i].name : i \in indices}

\* evaluate, in the handler of a request r.
Evaluate(r) ==
    /\ Len(seen) < MaxEvaluations
    /\ windows' = [n \in Names |->
                      IF n \in NamesOf(RateLimits \cap Evaluated(r))
                      THEN [windows[n] EXCEPT ![r.agent] = Counted(@)]
                      ELSE windows[n]]
    /\ seen' = Append(seen, [at |-> now, agent |-> r.agent, verdict |-> Verdict(r),
                             model |-> IF Verdict(r) = "passed" THEN Sent(r) ELSE NoModel,
                             under |-> NamesOf(RateLimits \cap Applying(r))])
    /\ UNCHANGED <<policies, now>>

Tick ==
    /\ now < MaxTime
    /\ now' = now + 1
    /\ UNCHANGED <<policies, windows, seen>>

-----------------------------------------------------------------------------
EngineTypeOK ==
    /\ policies \in Seq(Policy)
    /\ windows \in [Names -> [Agents -> Seq(Nat)]]
    /\ now \in Nat
    /\ seen \in Seq([at : Nat, agent : Agents, model : Models,
                     verdict : {"failed", "denied", "held", "passed"},
                     under : SUBSET Names])

EngineInit ==
    /\ policies = <<>>
    /\ windows = NoWindows
    /\ now = 0
    /\ seen = <<>>

-----------------------------------------------------------------------------
(* Properties.                                                               *)

\* The evaluations of requests of agent a that the limit n had a say in, in the
\* window that ends at t.
InWindow(n, a, t) ==
    {i \in DOMAIN seen : /\ seen[i].agent = a /\ n \in seen[i].under
                         /\ seen[i].at <= t /\ t < seen[i].at + Window}

\* What a rate limit promises: no window of its length, wherever it begins, lets more
\* than Limit requests of an agent go on (to the upstream, or to the approval queue),
\* through reloads, renamings, toggles and deletions that come and go.
RateHeld ==
    \A n \in Names, a \in Agents, t \in 0..now :
        LET through == {i \in InWindow(n, a, t) : seen[i].verdict \in {"held", "passed"}}
        IN  Cardinality(through) <= Limit
=============================================================================

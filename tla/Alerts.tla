------------------------------- MODULE Alerts -------------------------------
(***************************************************************************)
(* AlertManager: the cached rules, the walk of an event over them, the     *)
(* delivery of an alert and the cooldown that keeps a rule silent, against *)
(* the table of rules that the alert API changes.                          *)
(*                                                                         *)
(* A walk is synchronous up to the first await of fireAlert, and so is its *)
(* continuation after the last one.  Every statement of the store is a     *)
(* step of its own.                                                        *)
(***************************************************************************)
EXTENDS Naturals, Sequences

CONSTANTS
    Rules,     \* numbers: the order of creation
    Events, Calls,
    Agents, Policies, Every,  \* "*"
    Nil,       \* null, undefined, no entry in the cache
    Says,      \* what an event tells
    Submissions,  \* types, configs and cooldowns of rules that clients send
    Pooled,    \* PostgreSQL: answers come back in any order
    MaxTime, MaxCrashes, MaxFailures  \* bounds of the model

Metrics == {"daily", "monthly"}

\* A budget that is exceeded has the period its code names; one without "daily" in
\* its code counts as monthly.  No rule is about the other events.
GovynEvent ==
    [type : {"budget_warning"}, agent : Agents, period : Metrics, percent : Nat]
      \cup [type : {"budget_exceeded"}, agent : Agents, period : Metrics]
      \cup [type : {"policy_denied"}, agent : Agents, policy : Policies]
      \cup [type : {"other"}]

\* BudgetThresholdConfig has no policy and PolicyTriggerConfig has nothing else but an
\* agent; an update may bring anything in between.
Config == [agent : Agents \cup {Every, Nil}, metric : Metrics \cup {Nil},
           percent : Nat \cup {Nil}, policy : Policies \cup {Every, Nil}]

Terms == [type : {"budget_threshold", "policy_trigger"}, config : Config, cooldown : Nat]

ASSUME AlertConstants ==
    /\ Rules \subseteq Nat /\ Nil \notin Nat
    /\ Says \in [Events -> GovynEvent]
    /\ Submissions \subseteq Terms
    /\ Pooled \in BOOLEAN
    /\ {MaxTime, MaxCrashes, MaxFailures} \subseteq Nat

VARIABLES
    now,
    row,       \* the table alert_rules
    created,   \* the rules that were ever in it
    recorded,  \* the table alert_history
    rules,     \* this.rules: the rows of the last reload
    cache,     \* cooldownCache
    handler,   \* per event: the walk over the rules
    call,      \* per API call: its statement, its reload
    fired,     \* history: the alerts, in the order fireAlert began
    failures, crashes

vars == <<now, row, created, recorded, rules, cache, handler, call, fired, failures, crashes>>

-----------------------------------------------------------------------------
Moment == Nat \cup {Nil}

Row == [there : BOOLEAN, enabled : BOOLEAN, firedAt : Moment, terms : Terms]

NoTerms == [type |-> "policy_trigger", cooldown |-> 0,
            config |-> [agent |-> Nil, metric |-> Nil, percent |-> Nil, policy |-> Nil]]

NoRow == [there |-> FALSE, enabled |-> FALSE, firedAt |-> Nil, terms |-> NoTerms]

\* validateConfig.
Valid(t) ==
    /\ t.config.agent # Nil
    /\ t.type = "budget_threshold" => t.config.metric # Nil /\ t.config.percent \in 1..100
    /\ t.type = "policy_trigger" => t.config.policy # Nil

\* What createRule inserts.
NewRows == [there : {TRUE}, enabled : BOOLEAN, firedAt : {Nil}, terms : {t \in Submissions : Valid(t)}]

Tables == [Rules -> Row]

\* "delivering" awaits the webhook, "recording" the INSERT into the history,
\* "touching" the UPDATE of last_fired_at, "touched" its answer; "hung" is a promise
\* that never settles, "lost" a walk the process did not live to end.
Handler == [pc : {"idle", "delivering", "recording", "touching", "touched", "hung", "done", "lost"},
            list : Tables,        \* the rules the walk goes over
            rule : Rules \cup {Nil},  \* the one it fires
            firedAt : Moment]

\* "reloading" awaits the SELECT of a reload, "answered" has its rows.
Call == [pc : {"idle", "reloading", "answered", "done", "failed"}, rows : Tables]

Alert == [rule : Rules, event : Events, at : Nat]

TypeOK ==
    /\ now \in Nat
    /\ row \in Tables /\ rules \in Tables
    /\ created \subseteq Rules
    /\ \A r \in Rules : ~row[r].there => row[r] = NoRow
    /\ recorded \subseteq Rules \X Events
    /\ cache \in [Rules -> Moment]
    /\ handler \in [Events -> Handler]
    /\ call \in [Calls -> Call]
    /\ fired \in Seq(Alert)
    /\ failures \in Nat /\ crashes \in Nat

NoTable == [r \in Rules |-> NoRow]

Idle == [pc |-> "idle", list |-> NoTable, rule |-> Nil, firedAt |-> Nil]

\* The rules that exist at the start have never fired.
Init ==
    /\ now = 0
    /\ row \in [Rules -> {NoRow} \cup NewRows]
    /\ created = {r \in Rules : row[r].there}
    /\ recorded = {}
    /\ rules = row
    /\ cache = [r \in Rules |-> Nil]
    /\ handler = [e \in Events |-> Idle]
    /\ call = [c \in Calls |-> [pc |-> "idle", rows |-> NoTable]]
    /\ fired = <<>>
    /\ failures = 0 /\ crashes = 0

At(e, pc) == handler[e].pc = pc

-----------------------------------------------------------------------------
(* An event and the rules.                                                   *)

\* A config without a metric is of every period once a budget is exceeded, and of none
\* before.
evaluateBudgetThreshold(config, event) ==
    /\ event.type \in {"budget_warning", "budget_exceeded"}
    /\ config.agent \in {Every, event.agent}
    /\ event.type = "budget_warning" =>
           /\ config.metric = event.period
           /\ config.percent # Nil /\ event.percent >= config.percent
    /\ event.type = "budget_exceeded" => config.metric \in {event.period, Nil}

evaluatePolicyTrigger(config, event) ==
    /\ event.type = "policy_denied"
    /\ config.agent \in {Every, event.agent}
    /\ config.policy \in {Every, event.policy}

evaluateRule(t, event) ==
    \/ t.type = "budget_threshold" /\ evaluateBudgetThreshold(t.config, event)
    \/ t.type = "policy_trigger" /\ evaluatePolicyTrigger(t.config, event)

\* Mutant: the entry of the cache is not consulted.
InCooldown_TableOnly(r, list, entries) ==
    list[r].firedAt # Nil /\ now < list[r].firedAt + list[r].terms.cooldown

\* isInCooldown: the cached time, or that of the row as it was read.
InCooldown(r, list, entries) ==
    LET last == IF entries[r] # Nil THEN entries[r] ELSE list[r].firedAt
    IN  last # Nil /\ now < last + list[r].terms.cooldown

Fires(r, e, list, entries) ==
    /\ list[r].there /\ list[r].enabled
    /\ ~InCooldown(r, list, entries)
    /\ evaluateRule(list[r].terms, Says[e])

\* The loop of handleEvent over the rules in "left" (newest first) up to the next
\* fireAlert, which takes the time and waits for the webhook.
Walk(e, list, left, entries) ==
    LET hits == {r \in left : Fires(r, e, list, entries)}
    IN  IF hits = {}
        THEN /\ handler' = [handler EXCEPT ![e] = [Idle EXCEPT !.pc = "done"]]
             /\ UNCHANGED fired
        ELSE \E r \in hits :
                /\ \A q \in hits : q <= r
                /\ handler' = [handler EXCEPT ![e] =
                      [pc |-> "delivering", list |-> list, rule |-> r, firedAt |-> now]]
                /\ fired' = Append(fired, [rule |-> r, event |-> e, at |-> now])

HandleEvent(e) ==
    /\ At(e, "idle")
    /\ Walk(e, rules, Rules, cache)
    /\ UNCHANGED <<now, row, created, recorded, rules, cache, call, failures, crashes>>

Goto(e, pc) == handler' = [handler EXCEPT ![e].pc = pc]

\* The webhook answered, refused, timed out or could not be resolved.
WebhookSettles(e) ==
    /\ At(e, "delivering")
    /\ Goto(e, "recording")
    /\ UNCHANGED <<now, row, created, recorded, rules, cache, call, fired, failures, crashes>>

\* The receiver breaks off the body of its answer: neither 'end' nor, on the
\* request, 'error' follows.
WebhookBreaksOff(e) ==
    /\ At(e, "delivering")
    /\ Goto(e, "hung")
    /\ UNCHANGED <<now, row, created, recorded, rules, cache, call, fired, failures, crashes>>

\* Mutant: a failed INSERT is not caught, and the walk stops.
RecordHistory_NoCatch(e) ==
    /\ At(e, "recording") /\ row[handler[e].rule].there
    /\ recorded' = recorded \cup {<<handler[e].rule, e>>}
    /\ Goto(e, "touching")
    /\ UNCHANGED <<now, row, created, rules, cache, call, fired, failures, crashes>>

\* The INSERT into alert_history.  It fails for a rule that is gone, or without a
\* database; a failure is only logged.
RecordHistory(e) ==
    /\ At(e, "recording")
    /\ LET r == handler[e].rule
       IN  \/ /\ recorded' = IF row[r].there THEN recorded \cup {<<r, e>>} ELSE recorded
              /\ UNCHANGED failures
           \/ /\ failures < MaxFailures
              /\ failures' = failures + 1
              /\ UNCHANGED recorded
    /\ Goto(e, "touching")
    /\ UNCHANGED <<now, row, created, rules, cache, call, fired, crashes>>

\* touchRuleLastFired: nothing for a deleted rule, and a failure is only logged.
Touch(e) ==
    /\ At(e, "touching")
    /\ LET r == handler[e].rule
       IN  \/ /\ row' = IF row[r].there THEN [row EXCEPT ![r].firedAt = handler[e].firedAt] ELSE row
              /\ UNCHANGED failures
           \/ /\ failures < MaxFailures
              /\ failures' = failures + 1
              /\ UNCHANGED row
    /\ Goto(e, "touched")
    /\ UNCHANGED <<now, created, recorded, rules, cache, call, fired, crashes>>

\* Mutant: the cooldown is not remembered.
Finish_Forgetful(e) ==
    /\ At(e, "touched")
    /\ LET h == handler[e]
       IN  Walk(e, h.list, {r \in Rules : r < h.rule}, cache)
    /\ UNCHANGED <<now, row, created, recorded, rules, cache, call, failures, crashes>>

\* Mutant: the walk ends with its first alert.
Finish_First(e) ==
    /\ At(e, "touched")
    /\ cache' = [cache EXCEPT ![handler[e].rule] = now]
    /\ handler' = [handler EXCEPT ![e] = [Idle EXCEPT !.pc = "done"]]
    /\ UNCHANGED <<now, row, created, recorded, rules, call, fired, failures, crashes>>

\* The end of fireAlert, and the walk goes on.
Finish(e) ==
    /\ At(e, "touched")
    /\ LET h == handler[e]
       IN  /\ cache' = [cache EXCEPT ![h.rule] = now]
           /\ Walk(e, h.list, {r \in Rules : r < h.rule}, cache')
    /\ UNCHANGED <<now, row, created, recorded, rules, call, failures, crashes>>

-----------------------------------------------------------------------------
(* The alert API: a statement on the table, then a reload.                   *)

Ask(c) == call' = [call EXCEPT ![c].pc = "reloading"]

CreateRule(c, r) ==
    /\ call[c].pc = "idle"
    /\ \A q \in created : q < r
    /\ created' = created \cup {r}
    /\ \E new \in NewRows : row' = [row EXCEPT ![r] = new]
    /\ Ask(c)
    /\ UNCHANGED <<now, recorded, rules, cache, handler, fired, failures, crashes>>

\* What the UPDATE leaves of a row: the fields of the body are set, the type is not one,
\* and nobody asks whether the config is one of that type.
Changes(t) ==
    [type : {t.type}, config : {t.config} \cup {s.config : s \in Submissions},
     cooldown : {t.cooldown} \cup {s.cooldown : s \in Submissions}]

Updates(x) ==
    [there : {TRUE}, enabled : BOOLEAN, firedAt : {x.firedAt}, terms : Changes(x.terms)]

UpdateRule(c, r) ==
    /\ call[c].pc = "idle" /\ row[r].there
    /\ \E new \in Updates(row[r]) : row' = [row EXCEPT ![r] = new]
    /\ Ask(c)
    /\ UNCHANGED <<now, created, recorded, rules, cache, handler, fired, failures, crashes>>

\* Mutant: the cached rules are not read again.
DeleteRule_NoReload(c, r) ==
    /\ call[c].pc = "idle" /\ row[r].there
    /\ row' = [row EXCEPT ![r] = NoRow]
    /\ recorded' = {p \in recorded : p[1] # r}
    /\ call' = [call EXCEPT ![c].pc = "done"]
    /\ UNCHANGED <<now, created, rules, cache, handler, fired, failures, crashes>>

\* The rule and, by ON DELETE CASCADE, its history.
DeleteRule(c, r) ==
    /\ call[c].pc = "idle" /\ row[r].there
    /\ row' = [row EXCEPT ![r] = NoRow]
    /\ recorded' = {p \in recorded : p[1] # r}
    /\ Ask(c)
    /\ UNCHANGED <<now, created, rules, cache, handler, fired, failures, crashes>>

\* reloadRules once the rows have come: an entry of the cache survives only where
\* the row has never fired.
Loaded(rows) ==
    /\ rules' = rows
    /\ cache' = [r \in Rules |-> IF rows[r].firedAt # Nil THEN rows[r].firedAt ELSE cache[r]]

\* The SELECT runs.  SQLite answers inside the call; a pooled connection later.
Select(c) ==
    /\ call[c].pc = "reloading"
    /\ \/ /\ ~Pooled
          /\ Loaded(row)
          /\ call' = [call EXCEPT ![c].pc = "done"]
       \/ /\ Pooled
          /\ call' = [call EXCEPT ![c] = [pc |-> "answered", rows |-> row]]
          /\ UNCHANGED <<rules, cache>>
    /\ UNCHANGED <<now, row, created, recorded, handler, fired, failures, crashes>>

Apply(c) ==
    /\ call[c].pc = "answered"
    /\ Loaded(call[c].rows)
    /\ call' = [call EXCEPT ![c] = [pc |-> "done", rows |-> NoTable]]
    /\ UNCHANGED <<now, row, created, recorded, handler, fired, failures, crashes>>

\* The table has changed, the cached rules have not: the call answers 500.
SelectFails(c) ==
    /\ call[c].pc = "reloading" /\ failures < MaxFailures
    /\ failures' = failures + 1
    /\ call' = [call EXCEPT ![c].pc = "failed"]
    /\ UNCHANGED <<now, row, created, recorded, rules, cache, handler, fired, crashes>>

-----------------------------------------------------------------------------
\* The process ends and starts again: start() loads the rules before it listens.
Restart ==
    /\ crashes < MaxCrashes
    /\ crashes' = crashes + 1
    /\ rules' = row
    /\ cache' = [r \in Rules |-> row[r].firedAt]
    /\ handler' = [e \in Events |-> IF handler[e].pc \in {"idle", "done"} THEN handler[e]
                                    ELSE [Idle EXCEPT !.pc = "lost"]]
    /\ call' = [c \in Calls |-> IF call[c].pc = "idle" THEN call[c]
                                ELSE [pc |-> "done", rows |-> NoTable]]
    /\ UNCHANGED <<now, row, created, recorded, fired, failures>>

Tick ==
    /\ now < MaxTime
    /\ now' = now + 1
    /\ UNCHANGED <<row, created, recorded, rules, cache, handler, call, fired, failures, crashes>>

Handle(e) ==
    \/ HandleEvent(e) \/ WebhookSettles(e) \/ WebhookBreaksOff(e)
    \/ RecordHistory(e) \/ Touch(e) \/ Finish(e)

Administer(c) ==
    \/ \E r \in Rules : CreateRule(c, r) \/ UpdateRule(c, r) \/ DeleteRule(c, r)
    \/ Select(c) \/ Apply(c) \/ SelectFails(c)

Next ==
    \/ \E e \in Events : Handle(e)
    \/ \E c \in Calls : Administer(c)
    \/ Restart \/ Tick

Spec == Init /\ [][Next]_vars

\* The webhook has a timeout and statements end: a walk goes on.
FairSpec ==
    Spec /\ \A e \in Events : WF_vars(WebhookSettles(e) \/ WebhookBreaksOff(e)
                                      \/ RecordHistory(e) \/ Touch(e) \/ Finish(e))

-----------------------------------------------------------------------------
(* Correctness.                                                              *)

\* The cache is at least as late as the table, but for an alert that is between
\* its UPDATE and its end: a restart or a reload forgets no cooldown the table
\* remembers.
Ending(r) == \E e \in Events : At(e, "touched") /\ handler[e].rule = r

CacheCoversTable ==
    \A r \in Rules :
        row[r].firedAt # Nil /\ ~Ending(r) => cache[r] # Nil /\ cache[r] >= row[r].firedAt

\* No alert of a rule begins while the last_fired_at of its row, the one the API
\* shows, puts it in cooldown by the rule as the walk knows it.
Begins == Len(fired') > Len(fired)

TableCooldown ==
    [][Begins => LET alert == fired'[Len(fired')]
                     r == alert.rule
                 IN  \/ row[r].firedAt = Nil \/ Ending(r)
                     \/ now >= row[r].firedAt + handler'[alert.event].list[r].terms.cooldown]_vars

\* What makes the types and CacheCoversTable inductive: a walk that fires has a rule,
\* and neither it nor the table knows a time that is yet to come.
Firing(e) == handler[e].pc \in {"delivering", "recording", "touching", "touched", "hung"}

NothingAhead ==
    /\ \A e \in Events : Firing(e) => /\ handler[e].rule \in Rules
                                      /\ handler[e].firedAt \in Nat /\ handler[e].firedAt <= now
    /\ \A r \in Rules : row[r].firedAt # Nil => row[r].firedAt <= now

\* With no call under way the cached rules are those of the table: a rule that was
\* deleted, disabled or changed is silent or speaks on its new terms for every event
\* that comes later.
RulesCurrent ==
    (\A c \in Calls : call[c].pc \in {"idle", "done"}) =>
        \A r \in Rules : [rules[r] EXCEPT !.firedAt = Nil] = [row[r] EXCEPT !.firedAt = Nil]

\* A walk that comes to its end has fired every rule it knew that was enabled and
\* matches the event, but for those that had fired before: whatever alerts, changes of
\* the rules and failures fall in between.
Ends(e) == handler[e].pc # "done" /\ handler'[e].pc = "done"

NoRuleSkipped ==
    [][\A e \in Events : Ends(e) =>
          LET list == IF At(e, "idle") THEN rules ELSE handler[e].list
          IN  \A r \in Rules :
                 list[r].there /\ list[r].enabled /\ evaluateRule(list[r].terms, Says[e]) =>
                     \E i \in DOMAIN fired : fired[i].rule = r]_vars

\* A walk ends, unless a webhook leaves it hanging or the process dies.
WalkEnds ==
    \A e \in Events : ~At(e, "idle") ~> handler[e].pc \in {"done", "hung", "lost"}
=============================================================================

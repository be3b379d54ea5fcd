# Govyn: specifications, model checking and proofs

Govyn is a proxy between AI agents and their providers (`src/src/`, TypeScript on one Node
event loop, with a dashboard, an SDK and an optional PostgreSQL or SQLite database).  It holds
provider keys, enforces budgets and policies, stops loops, puts risky requests before a human,
and records what was spent.  This directory models the parts whose correctness depends on the
order in which things happen, checks them with TLC and proves the central facts with TLAPS.

Every definition is translated from the source; `PROJECT.json` gives the lines for each, the runs,
a mutant for every property, the findings, the hazards and the theorems.

## 1. The system

Paths are relative to `src/src/`.  "Hard" names what a unit test hardly reaches.

| Component | State | Operations | Hard | Correct when |
|---|---|---|---|---|
| Approvals (`approval.ts`, `approval-timeout.ts`, `approval-api.ts`, `persistence.ts`) | rows of `approval_requests` | hold, poll, approve, deny, spend a token, time out, retention | an UPDATE whose answer is lost, a sweep racing a decision, a restart between spending and forwarding, a start without the database | one approval releases at most one request, the one approved; decisions are final; nothing pending for ever |
| Request pipeline (`server.ts`, `proxy.ts`, `streaming.ts`) | handlers in flight | budget check, body, policy, loop check, upstream call, cost and log | everything read before an await and used after it; clients and upstreams that leave | each completed response charged once; overshoot bounded; logged |
| Budget enforcement (`budget-enforcer.ts`) | table of blocked agents | check, block, unblock, cleanup | a second verdict during a block, expiry exactly now | a cooldown holds, a refusal lifts |
| Cost aggregation (`cost-aggregator.ts`) | list of records | record, sum since day and month | midnight and month's end, several requests in flight | sums are of the period and the agent |
| Loop detection (`loop-detector.ts`) | windows of timestamps per agent and key | record, ask | the edge of the window, attempts that were stopped | the verdict is the count within one window |
| Alerts (`alert-manager.ts`, `alert-api.ts`, `events.ts`) | cached rules, cooldown cache, tables `alert_rules` and `alert_history` | walk an event over the rules, deliver, record, touch; create, update, delete, reload | walks and reloads that overlap at every await | the cache follows the table, cooldowns survive reloads and restarts, walks end |
| Database writes and retention (`db-writer.ts`, `db-retention.ts`) | `cost_records`, `cost_daily_summary`, `policy_evaluations` | fire-and-forget INSERT, aggregate, delete | a run cut in two, rows inserted in between, a database that is gone | detail and summary hold what was stored |
| Relational store (`persistence.ts`, `db*.ts`, `sqlite-schema.ts`) | the tables | one statement or transaction each, migrations | two processes migrating at once | statements are atomic, migrations run once |
| Life cycle (`runtime.ts`, `index.ts`) | which parts exist | start, shutdown | start without a database, an unhandled rejection, buffers at shutdown | fail-open and fail-closed mean what they say |
| Action log (`action-logger.ts`, `log-rotator.ts`, `log-api.ts`) | buffer, JSONL files, payload files | log, flush, rotate, purge | a crash between buffer and file, a purge that fails on some of its files | entries appear once, in order; what is purged is gone |
| Policy store (`policy-api.ts`, `policy-file.ts`, `policy-watcher.ts`) | policy file, loaded policies, debounce timer | toggle, create, update, delete, reload | read-modify-write against edits on disk, a reload of a half-written file, a watch on a file that was replaced | a call leaves file and engine in step, or the engine as it was; an edit takes effect |
| Policy evaluation (`policy-engine.ts`, `policy-parser.ts`) | rate-limit windows | evaluate seven types of policy, route to another model | a denial that has already counted a request, a policy that throws, windows over midnight | limits hold, denial goes before approval, a policy more never loosens, routing keeps its tier |
| Dashboard authentication (`auth.ts`, the session routes of `server.ts`, `admin-cli.ts`, `dashboard/`: `AuthContext`, `AuthGate`, `api-client.ts`) | the account's file with its sessions, login attempts; cookie, status and token in the browser | set up, log in, log out, change and reset the password, expire | calls of a tab that overlap, other tabs, a shell that writes while the proxy does, a change of password waiting for its body | sessions belong to the password in the file, wrong passwords stay bounded, a tab's token fits its cookie, an ended session is noticed |
| Proxy security (`security.ts`) | — | admit, resolve and deliver webhooks | answers that break off | see alerts and authentication |
| Routing, agents, providers, tokens, pricing, configuration, CLI | none that outlives a call | parse, match, compute | — | — |
| Dashboard (`dashboard/`) | connection and its pings, pages, editor | fetch, refresh, switch, save, create, delete, decide | answers that overtake each other, a connection that comes and goes, edits under a reload | pages come to rest on what the proxy has unless a call was refused, edits survive, the connection's status settles |
| SDK (`python-sdk/`) | — | sets base URL and headers | — | — |

How they interact: `server.ts` handles a request by calling the budget enforcer, then (once the body
is there) the approval manager or the policy engine, then `proxy.ts`, which calls the loop detector,
blocks an agent, calls the upstream and on the end of the response calls the cost aggregator, the log
and the database writer.  These parts share memory and no locks: between two awaits a handler runs
alone.  Refusals and warnings go as events over `events.ts` to the alert manager.  Intervals (approval
sweep, cleanup of blocks, retention) run between handlers.  The dashboard is a client of the APIs, in a browser
whose tabs share a cookie and nothing else.

## 2. The modules

| Module | Extends or instances | Models |
|---|---|---|
| `Filters` | — | what a filter leaves of a sequence, where the code calls `filter` |
| `Counting` | `Filters`, TLAPS | lemmas: sums over finite sets, filters, flattening |
| `ApprovalGrant` | — | what an approval promises, abstractly |
| `Approvals` | instances `ApprovalGrant` | the approval queue and the handlers, endpoints, sweeps and outages around it |
| `ApprovalsProofs` | `Approvals`, TLAPS | types, single use, gate, refinement |
| `Budgets` | — | aggregator and enforcer: spend, verdict, blocks |
| `LoopDetector` | `Filters` | the sliding windows |
| `RequestPipeline` | `Budgets`, instances `LoopDetector` | the path of a request through all three |
| `PipelineProofs` | `RequestPipeline`, `Counting`, TLAPS | types, charges, overshoot, the loop verdict, cooldown |
| `Alerts` | — | alert manager, alert API and their tables |
| `AlertsProofs` | `Alerts`, TLAPS | types, cooldown, rules that follow the table, and that no rule is skipped |
| `CostLedger` | — | cost rows, their writer and the retention run |
| `LedgerProofs` | `CostLedger`, `Counting`, TLAPS | types, conservation, no loss |
| `ActionLog` | `Filters` | logger, rotator, log directory, purge and the paged list |
| `LogProofs` | `ActionLog`, `Counting`, TLAPS | types, nothing forgotten, purges, order, paging |
| `PolicyRules` | — | what policies say of one request: hours, routes, the fields of each type |
| `PolicyEngine` | `PolicyRules` | the policies in force, evaluation, the windows of rate limits |
| `PolicyStore` | `PolicyEngine` | the policy file, the policy API, people who edit it, the watcher, restarts |
| `PolicyProofs` | `PolicyStore`, TLAPS | types, unique names, rate limits, calls in step, a reload is owed; hours, routing, a policy more never loosens |
| `LocalAuth` | — | the administrator's file, its sessions, the login limiter |
| `SignIn` | `LocalAuth` | a tab that signs in and out, the routes it calls, other tabs, the shell |
| `Connection` | — | the dashboard's pings and what they say of the proxy |
| `Pages` | `Connection` | pages of policies, rules and held requests, their calls, the editor |
| `DashboardProofs` | `Pages`, `SignIn`, `Counting`, TLAPS | types, sessions belong to the password in the file, wrong passwords stay bounded, the token fits; the page fits, edits are kept |
| `MCApprovals`, `MCPipeline`, `MCAlerts`, `MCLedger`, `MCLog`, `MCPolicies`, `MCSignIn`, `MCPages` | the module above | constants and symmetry for TLC |

An action is what one handler does between two awaits, or one statement of the store.  A handler's
position is a field `pc`; what it keeps across an await is in its record.  Definitions named `X_Y`
under a comment "Mutant:" are plausible bugs, used only to show that a property can fail.

**Approvals.**  `rows` is the table; a row's identity stands for its id and, since a token is a fresh UUID
per approved row, for its token.  A request is its agent, upstream path and body hash.  `Arrive` is
the part of the handler before the first await, `CheckAvailable`, `CreateApproval`, `ConsumeToken` and
the rest what follows each await.  A lost answer is `…Unacknowledged`: the statement has committed, the
handler sees an error.  `proxy = "detached"` is a fail-open proxy that started without its database.
`SweepRejects` is the interval callback whose rejected promise ends the process.

**RequestPipeline.**  `records`, `blocked` and `windows` are the memory of the three parts.  `Arrive` is the
budget check on the headers; policy, approval and routing are a choice between `Refuse` and going on
(`Approvals` models that choice).  After the upstream has answered, a stream and a plain pipe end in
different ways: a stream destroys its upstream when the client leaves; Node's `pipe` only stops
reading, and the handler stays `"stalled"` unless the pipe was already waiting for a drain.  `attempts` is
a history variable: what the loop detector was asked and what came of it.

**Alerts.**  `row` is `alert_rules`, `rules` the cached rows, `cache` the cooldown cache.  A walk over the rules is
synchronous up to the webhook of the first rule that fires (`Walk`), and again from the end of one alert
to the next (`Finish`).  `call` is an API call: its statement, then the reload.  With `Pooled` (PostgreSQL) the
answer of a SELECT may be applied later than it was read; SQLite answers inside the call.  `Says` gives each event
its content and `evaluateRule` decides what a rule makes of it; an update changes the switch, the config and the cooldown of a row, while a
walk goes on over the rows it began with.

**CostLedger.**  `detail` and `summary` are the tables, `write` the fire-and-forget INSERTs, `sweep` the retention run
between its two statements.  `sqlite`, chosen at the start, says which store it is: SQLite runs both in one transaction and has no
between.  `stored` is a history of what the writer inserted, `cut` of whether a run ever ended between its statements.  A day is the
unit of time, for the cutoff as for the summary.

**ActionLog.**  `log` is the logger with its directory: the buffer, the active file's name, the uncompressed files by day and the archives by
second.  Every file operation is synchronous, so a flush and a purge are one step each, with the outcomes of each file operation that may
fail as choices (`Rotated`, `Appended`, `PurgeOutcomes`); only the payload write is a step of its own.  A purge that fails on a file leaves it as
it was (it could not be read, unpacked, opened or deleted) or breaks off in it, goes on with the others, and answers success all the same.  Entries are numbers in the order of
logging.  `Page` is a request for the next page with the cursor of the last one.  The fields `lost`, `doubled` and `spared` and the variable `purged` are histories.

**PolicyRules, PolicyEngine, PolicyStore.**  A policy is its name, type, whether it is enabled, its scope (pairs of agent and provider), the facts it
matches and the terms of its type.  A criterion, a pattern or a spend over a budget is a fact that holds of a request or not; hours and routes are computed:
`Open` is the window of hours in a time zone, `RouteTo` the search through the rules of a `model_route`.  `Blocks`, `Filters`, `OverBudget`, `OutOfHours` and
`TooMany` are the evaluators, `Evaluate` a pass over all policies; a policy whose time zone `Intl` does not know, or with a field the parser
let through and the evaluation cannot use (`Malformed`), throws, which ends the pass there and answers 500.  `Evaluate`
counts in the window of every rate limit that applies, also after a denial.  `file` is the policy file: missing, broken (no YAML, or
no list), or a list of entries.  A handler of the API awaits nothing but its body, so it is one action (`Patch`, `Put`, `Delete`, `Post`): it creates a
missing file from the policies in force, changes the document, writes it and loads it.  `watcher` is the inode that is watched, an event
under way and the debounce timer.  `Begun` is what may be there of a file whose writing has begun: nothing that
parses, or its first entries, the last of them cut off or not.  `Edit` writes in place, and a half-written file is an edit to such a part and then
another edit; a write of the API that fails (`WriteFails`) and a crash leave such a part as well; `Replace` puts a new inode there, or none.  `unheard` is a history: a change since the last load of the file that the watch could not see.

**LocalAuth, SignIn.**  `file` is `govyn.auth.json`, read and written by a handler without an await, so each handler is one action; the change of a password awaits
its body after the session was admitted (`ServePassword`, `ServeBody`).  The shell is another process, which may write between a handler's reading and its writing: `Saves` is a
handler's writing, with or without such a reset before it, and what the reset wrote is then gone.  Passwords are numbered: `password` is the number of the one in the file, `given` of the last that
somebody was told is set, and a session is `of` the one that was checked for it.  A session's id stands for its CSRF token as well.  Times are
ages and remainders, so the clock needs no bound.  `cookie` belongs to the browser, `tab` is one tab's status and token, `calls` the bag of its calls under way, each with the
cookie of its sending; answers come in any order or never.  `OtherTab` and `Shell` are one step each.  `given`, `of`, `wrong` and `belied` are histories.

**Connection, Pages.**  `link` is what the dashboard believes of its proxy, `pings` the bag of pings under way.  `thing` is one policy, rule or held request of the proxy, `page` the open
page and what it shows of it, `editor` the editor of a policy's detail page, `pageCalls` the bag of the page's calls.  A page's fetch and its answer are steps of their own
(`Served`, `AnswerComes`), and a page that was left makes its calls orphans.  Any call may be refused, a fetch too (`alert-api.ts:79`, `approval-api.ts:83`), and a change that is refused may have been
made all the same (`alert-manager.ts:212`: the rule is written, then the rules cannot be loaded).  On the page of settings, which has no calls, the connection runs in full; beside the
others it comes and goes in any way at all, so that no call depends on how pings fall.

## 3. The runs

| Run | Checks | Shows |
|---|---|---|
| `approvals` | types, `AtMostOneForward`, `ForwardedAsApproved`, refinement `Grants` | a token releases one request, the one approved, across lost answers, outages, restarts and retention |
| `approvals_closed` | `GatedOnlyOnToken`, `PendingResolved`, `EveryRequestAnswered` | fail-closed: no way around a gate; nothing pending and no handler waiting for ever |
| `budgets` | `BoundedOvershoot`, `ChargedOnce`, `RefusalLifts` | a hard limit is passed by no more than what was in flight; each completed response is charged and logged once; time alone lifts every refusal |
| `loops` | `LoopVerdict`, `CooldownHeld` | the verdict is the count in one window; a cooldown lasts |
| `alert_cooldown` | `CacheCoversTable`, `TableCooldown` | no reload or restart forgets a cooldown (SQLite) |
| `alert_rules` | `RulesCurrent`, `NoRuleSkipped`, `WalkEnds` | the cached rules are the table's when no call is under way; a walk leaves out no rule, and ends whatever statement fails, unless its webhook hangs it (PostgreSQL, one call) |
| `action_log` | `NothingForgotten`, `PurgeComplete`, `InOrder`, `ShownOnce`, `BufferDrains`, `RetentionEnds` | an entry leaves the log only for a known reason, what was purged is held only in files a purge failed on and only until the next that goes well, the files read in order, paging shows nothing twice; what waits in the buffer and what expires goes, also after a file that could not be deleted at first |
| `policies` | types, `RateHeld`, `ReloadOwed`, `SyncKept`, `EditTakesEffect` | a rate limit holds in every window through calls, edits, reloads, toggles and renamings; whatever is in the file, a call puts in force what it leaves there or leaves in force what was; from a file in step only a failed write or a name that is there twice leads out; an edit the watch can see takes effect |
| `ledger` | `Conserved`, `NothingLost`, `OldRowsFolded` | detail plus summary is what was stored unless a run was cut, nothing is ever lost, old rows are folded at last; both stores |
| `sign_in` | `AttemptsBounded`, `TokenFits`, `SessionsOfPassword`, `EndNoticed` | wrong passwords stay bounded across windows; the tab's token fits the cookie; the sessions in the file were opened with the password in it, whatever sign-ins, changes and resets overlap; a session that ends is noticed |
| `dashboard` | `ShownFits`, `EditsKept`, `QueueFollows`, `LinkSettles` | lists and switches come to rest on what the proxy has, unless the fetch or a change that was made was refused; only a save takes edits out of the editor; a decided request leaves the queue; the status follows the proxy |

One run checks a sentence of the code's comments against what the code does and ends in a counterexample
(`PROJECT.json`, "findings", quotes it).

| Run | Property | What the code does |
|---|---|---|
| `approvals_detached` | `GatedOnlyOnToken` | a fail-open proxy started without its database forwards gated requests |

### Limits of the code seen while modelling

Behaviour the models contain, where no property says otherwise, and what lies beside them:

- Requests in flight together pass a hard limit: each was checked before the others were charged.  `BoundedOvershoot` says by how much.
- A request whose body was still arriving when its agent was blocked goes upstream during the cooldown; the enforcer is asked once, on
  the headers.
- A token is accepted after the `expires_at` of its row: the UPDATE that spends it asks for the status and the request only, and the sweep
  expires only pending rows.
- An agent in a loop's cooldown is told it exceeded its monthly budget (`server.ts:966-969`).
- The warning for a daily spend near its limit carries no code and is announced as monthly (`server.ts:1026`), so alert rules for daily limits
  miss it.
- Two rotations in one second (a flush and a purge) share the name of their archive, and the second overwrites the first (`log-rotator.ts:81`).
- A log file's age is that of its last write: under steady traffic it is never rotated by age (`log-rotator.ts:55`).  After a restart on another day the
  file of the earlier day is neither rotated nor deleted (`log-rotator.ts:118`), and the query API reads no archive (`log-api.ts:87`).
- A purge catches what fails on a file, counts its entries as deleted and answers success (`action-logger.ts:317`, `:375`), where `purgeBefore` is said to "purge all log entries" older than its date (`:223`).  `PurgeComplete` names what such a purge
  left (`spared`).
- A shutdown does not flush the log's buffer (`runtime.ts:147-157`).
- With pooled connections the answer of an earlier SELECT can overwrite newer rules or an older cooldown (`alert-manager.ts:67-75`): `TableCooldown`
  is checked with SQLite, and `RulesCurrent` with one call at a time.
- An update may give a rule the config of the other type, and a create any number as its cooldown (`alert-api.ts:132`, `:183-188`).  A rule for budgets without a metric fires on every exceeded
  budget of its agent and on no warning.
- A webhook whose answer breaks off after its headers never settles its promise (`security.ts:613`); the rules after it see nothing of the event.
- Fail-closed does not reject a request for a cost record that was not written: nobody waits for the write (`proxy.ts:441`, `db-writer.ts:8`).
- A response that breaks off, or whose client leaves, leaves neither a log entry nor a cost record (`streaming.ts:70`).
- PUT may rename a policy to a name another one has (`policy-api.ts:280`), and POST looks for its name among the policies in force, not in the file
  (`policy-api.ts:326`).  Both answer 2xx; the file then has two of one name and is refused as a whole, and after a restart no policy is in
  force, where the header promises "immediate consistency" of file and engine (`policy-api.ts:12`).  `SyncKept` has both in it: it lets a call lead out of step by a name that is there twice then, and by nothing else but a write that fails.
- A write of the policy file that fails has emptied it by then (`policy-api.ts:207`): the call answers 500, the engine goes on with what it has, and the watch may load the part that was written.
- The parser accepts YAML that is cut off after a complete entry (`policy-parser.ts:125`), so a file that an editor has half written may be in force until the rest is there; a policy cut off before its
  criteria may even be one for everybody.  `ReloadOwed` and `EditTakesEffect` say that the rest follows; that the half never counts is not so.
- Once the file was replaced by a rename or deleted, the watch is on the old inode and later edits are not seen (`policy-watcher.ts:54`); nor is one between
  the load and the start of the watch (`runtime.ts:85-99`).  `ReloadOwed` and `EditTakesEffect` except both, by `unheard`.
- A crash while the file is written leaves it truncated, and the proxy starts with no policies, or with the first of them (`policy-api.ts:207`, `runtime.ts:85-94`).
- A rate limit is counted per process: a restart forgets its windows.
- A rate limit whose window is shortened and lengthened again has forgotten what the shorter window evicted (`policy-engine.ts:229`); `Limit` and
  `Window` are constants in the model.
- The Retry-After of a rate limit is the time until the oldest entry expires, but a denied request is an entry too: after `limit` denials the
  retry is denied again (`policy-engine.ts:231-240`).

- Two events at once fire one rule twice: the cooldown is set at the end of the first alert (`alert-manager.ts:83`), though a test says that nothing is
  duplicated (`tests/alert-manager.test.ts:452`).
- In PostgreSQL a retention run whose deletion fails has already added to the summary, and the next run adds again (`persistence.ts:522`), though a comment says that
  reruns are safe (`db-retention.ts:34`).  `Conserved` excepts runs that were cut.
- `max_downgrade_level` guards only aliases, since a model named outright has no tier; a rule that would go below falls through to the rules after it.
- `time_of_day` of a route is in UTC; a window of hours is in its own zone, and after midnight it asks for the new day.  `Intl` may call the hour after midnight the 24th, which
  a window that begins at midnight does not contain and one that ends there does.  Window ends that are no times of day never open, and presets of days are told by their case.
- The parser takes any time zone; an unknown one makes every request in the policy's scope fail with 500, and the policies after it are not evaluated.
- Policies judge the model that was asked for, not the one it is routed to; an approved request is not routed.
- The shell and the proxy write the account's file without a lock (`auth.ts:386-429`), and a handler writes back the password it has read: a reset that falls between is gone,
  although the shell has said that the password is set (`given` runs ahead of `password` then).  A shell's own reading and writing is one step of the model; what a handler writes between them is overwritten by it, sessions and all.
- The browser drops the cookie when the session's time is over (`server.ts:617-628`); in the model it keeps a cookie that is good for nothing.
- Wrong passwords are counted in windows that begin with a failure, so that a span no longer than a window may see nearly twice the allowed number: `AttemptsBounded`
  is the exact bound.
- Signing in with an edited address of the proxy bounces back; after two tabs signed in, the first one's token no longer fits and its changes get 403 until it is
  reloaded; signing out after a 403 shows signed out while the session lives; a late answer that no administrator exists stays until a reload.  `TokenFits` excepts what `belied` names.
- A switch on a policy's detail page is undone by a save of the text loaded before (`usePolicy.ts:278`); text typed while a save is under way is overwritten by its
  answer; a save without a connection shows the old text.  `EditsKept` leaves saves out.
- A fetch that is refused leaves a list as it was, and only some pages say so; a rule that was written and then could not be loaded answers 500 (`alert-manager.ts:212`), and the page takes its
  switch back or keeps its row.  Nothing puts that right before the next load; `ShownFits` excepts both.
- On the detail page a switch does not load the policy again (`usePolicy.ts:278`).  A policy that is saved with another name is not found under the old one.
- The form of an alert rule always sends `enabled: true`.  Overlapping switches may leave a stale list, the history of decisions is not fetched again after one, and a 401
  takes the page away with its edits.  `ShownFits` excepts what `pageBelied` names.

### Bounds

Small, but each lets the interesting case happen:

- *Approvals*: two rows and three requests, so that two requests compete for one token and one has a row of its
  own; one outage and one crash, each possible between any two statements; a timeout and a retention of one
  tick, so that both pass.  The clock runs beyond `MaxTime` while a pending row waits for it.
- *Budgets*: three requests of which two may be in flight (`MaxInFlight`), a cost of 2 against limits 2 and 3, a hard agent and a soft one
  whose second request trips its loop threshold, two days in the month.  `MaxInFlight` is an assumption about the environment (the code
  limits nothing); `BoundedOvershoot` is stated relative to it.  After `MaxTime` the clock goes on only while somebody is refused, up to
  `Horizon`: far enough that every refusal has lifted before it, or `RefusalLifts` would fail there.
- *Loops*: three requests over two keys, a threshold of two, a window of two and a cooldown of three ticks, and a
  restart: repetition within, at and beyond the window, and a second verdict during the cooldown.
- *Alerts*: one restart, one call and one failed statement each.  `alert_cooldown`: three equal warnings over one rule whose cooldown is one tick or two, two ticks
  of time, so that an alert overlaps another, begins inside a cooldown and after it.  `alert_rules`: two rules, for a budget or for a policy, and two different events,
  so that an event matches both, one or none.
- *CostLedger*: two responses of two agents, retention of one day over four days, two failures or outages, one crash: enough for a cut run,
  a second run over the same rows and a third.
  `Prompt` assumes that an INSERT is answered or fails within the retention period (30 days by default); without it a
  row could arrive already older than the cutoff of a run in progress.

- *ActionLog*: three entries over two days of two seconds, one fault or restart.  A maximal size of zero makes every flush of a non-empty file a rotation,
  so that three entries are enough for two rotations in one second and for an archive under a reader's cursor; a second and third batch then meet
  an archive, an active file and the buffer at once.  Two purges, for past dates: one that fails on any of its files, and one after it.

- *Policies*: two names, two agents, two providers, one fact, a limit of one in a window of one tick, two evaluations over two ticks, one fault, which is a crash or a write that fails.  Two moments, noon and midnight (with the
  24th hour), two zones that are known and one that is not.  A call submits a rate limit; a draft on disk is an approval beside hours of access, a rate limit beside hours in a misspelt
  zone, or an entry the parser refuses beside a route.  Two changes by calls and people together: a deletion of the file and a call that restores
  it, a half-written file and its other half, a replacement and an edit the watch misses.

- *SignIn*: three session ids, so that the tab's, another tab's and one in an answer under way are three; a lifetime of one tick; three attempts, a window and a block of two ticks, so that
  two windows meet.  One new password, by a change or a reset.  With two of them, and two calls under way, `SessionsOfPassword` holds as well (two ids, two attempts);
  that costs more than it is worth beside the proof, which is for any number.  One call under way when the user makes another (`MaxCalls`), besides those of pages and of other actions: enough for any two to overtake each other.

- *Dashboard*: three pings under way, as many as failures are counted in a row; one text, since what differs between two versions is whether they are on; one call under way when
  another is made.

Symmetry is used for requests, keys, ids, events, calls and agents that no constant tells apart.  Of the runs with a liveness property only
`budgets` has it, on requests: its fairness is that of the clock and `RefusalLifts` speaks of agents, so neither tells a request from another.

`CHECK_DEADLOCK FALSE` is set in every passing run because every model comes to rest by design: requests, events, rows and crashes
are finite and the clocks bounded, so a behaviour that has used them up legitimately stops.  That nobody waits for ever is checked
by the liveness properties instead.

### Fairness

- `Approvals!FairSpec`: a handler whose statement is under way goes on (the driver answers or rejects), the sweep's interval
  fires, the clock moves, the process is restarted and outages end.  Operators, agents and crashes owe nothing.
- `RequestPipeline!FairSpec`: only the clock.  `RefusalLifts` needs no handler to move.
- `Alerts!FairSpec`: a walk goes on; the webhook has a timeout, and breaking off, which hangs the walk, is an action beside it and `WalkEnds` names that end.
- `CostLedger!FairSpec`: the interval fires, its statements are answered or fail, the database comes back.  No fairness for writes.

- `ActionLog!FairSpec`: the intervals fire, payload writes settle, time passes.  A file that could not be deleted is tried again by the next interval, and faults end (`MaxFaults`): a file that can never
  be deleted stays.  `Tick` waits for a due flush: the event loop is not late by a second.

- `PolicyStore!FairSpec`: the process is started, the watcher starts, its callback runs, the timer fires.  Every event sets the timer anew, so that a
  file that never rests would never be loaded; in the model the changes end.

- `SignIn!FairSpec`: an open page makes its call every ten seconds and the call comes back; the answer to who is signed in is on its way.  People, other tabs and the shell owe nothing.

- `PagesFairSpec` of `Pages`: the interval of pings fires and each ping is answered or given up after five seconds (`LinkFairness`); a page's interval fires, its fetches are
  served, with success or without, and answered (`PageFairness`).  The connection itself owes the pages nothing, nor does the database: `QueueFollows` asks for a connection that lasts and for fetches that are
  not refused any more.

All are weak: each action, once enabled, stays enabled until taken or until a crash ends the handler.

## 4. The proofs

All for any values of the constants, from the named assumptions on them only.

**`ApprovalsProofs`.**  `Typing`; `Releases`, the inductive invariant `ReleaseInv`; from it `SingleUse` (`AtMostOneForward`) and
`AsApproved`.  `AtMostOneForward` alone is not inductive: it says nothing of a handler between the UPDATE and forwarding.  `ReleaseInv`
adds that such a handler already owns its row, that the row is used, and that a used row is never pending.  `Gate` proves
`GatedOnlyOnToken` under `~FailOpen`, with the further invariant that a fail-closed proxy is never detached.  `Implements` proves the
refinement `Spec => Grants`, action by action; deliveries need `ReleaseInv`, since the abstract grant delivers at most once.

**`Counting`.**  Several properties are about sums, counts and orders, which folds define.  The library's induction theorems take an operator as a parameter
and cannot be instantiated, but a smallest counterexample can be chosen with `WFMin`, whose parameter is a set.  That gives the sum over a finite set (`SumOut`: an element taken out,
whatever order the fold takes), what `Filtered` keeps of a sequence, and that a flattened sequence is in order if its parts are.

**`PipelineProofs`.**  `CooldownKept` (`CooldownHeld`) from
`CooldownInvariant`: no attempt lies in the future, so a later verdict can only lengthen a block, and an entry that is removed has
expired or its verdict was pardoned.  `ChargesExact` (`ChargedOnce`): a request has a cost only once it was delivered, each delivered request has one entry, and the records of this process sum
to what was reported since its last restart.  `OvershootBounded` (`BoundedOvershoot`): what was spent and what the open requests could still cost stay below the limit plus the bound, as
each request was under the limit when it was let in; its hypothesis `CostsBounded` says that a response has a greatest cost, without which there is no bound to state.  `LoopsCounted` (`LoopVerdict`): a window
has forgotten nothing still young, so its count is that of the history.  `PipelineTyped` is `TypeOK`.

**`AlertsProofs`.**  `AlertsTyped` (`TypeOK`) needs `NothingAhead`: a walk that fires has a rule, and neither it nor the table knows a time yet to
come.  With `~Pooled`, `CacheCovers` adds that no answer of a SELECT waits to be applied; it is inductive because the end of an alert writes
the present into the cache, which is no earlier than anything in the table.  `CooldownKept` then proves the action property
`TableCooldown`: a rule is picked only out of its cooldown by the cache, and the cache covers the table.  With `Pooled` neither holds
(see the limits above).  `NoneSkipped` (`NoRuleSkipped`) holds with both: its invariant says that everything in the cache has an alert in `fired`, as has every
time in a row, and that a walk has passed over no rule above its own that should have fired and never did.  `RulesFollowTable` (`RulesCurrent`) holds
under `OneAnswer`: the store answers inside the call, or no more than one API call may come; with two under way an older answer may come last, as the limits say.  `AlertsTyped` is not among the
runs' properties.

**`PolicyProofs`.**  `TypeCorrect` (`TypeOK`): the file may hold entries of any kind, the engine only those the parser accepts, because it takes a file as a
whole that `Parses` or not at all; indices come from `IndexOf`, whose CHOOSE is over a non-empty set of numbers (`Least`).  `NamesUnique`
(`OneOfEachName`, which no run checks by itself) on top of it.  `ChangesOwed` (`ReloadOwed`) needs `Owed`, which says it of the phase between load and watch as well: there a file out of step
was changed unheard.  A call owes nothing, because it loads what it wrote.  `AddedNeverLoosens` is about
the verdict: for any policies in force and any policy more, a request that passes with it passed without it, because what applies, throws and denies only grows.
`RatesHeld` (`RateHeld`): a window holds every request counted within the span that ends now, and a request was counted as admitted only while the window had room; reloads and renamings leave windows alone,
since names are unique.  `CallsInStep` (`SyncKept`) is about one step from any file, broken, cut off or out of step: a handler loads what it wrote, or fails and loads nothing.  From a file in step, what is written parses unless a name is
there twice (`OneOfEachName` of what was in force, and one entry that changes), and what goes from force is the policy that is named.
`WindowsPartTheDay`: a minute is in the window from `s` to `e` or in the one from `e` to `s`, and not in both, whichever goes over midnight; equal ends are the
whole day (`WholeDay`).  `FirstRuleAboveTier`: where a request is routed, a rule leads there that matches, keeps the tier, and comes after none that also decides; it is on `Least`, the existence of a first index.

**`LedgerProofs`.**  `CostsConserved` (`Conserved`) and `CostsKept` (`NothingLost`).  The invariant balances, for each agent and day, the summary and the rows that stay, which during a
PostgreSQL run are those not yet folded, against what was stored: equal as long as no run was `cut`, and never less; a cut run leaves rows that are folded already.  `LedgerTyped` is `TypeOK`.

**`LogProofs`.**  All safety properties of the log, from one invariant, `LogFineAlways`: files are sound and no line is younger than its file's last write; no file is of a day after the active one, and files ascend with their days
and seconds; what a reader was shown is neither ahead of its cursor nor still in the buffer.  `EntriesKept` (`NothingForgotten`), `PurgesKept` (`PurgeComplete`) and `PagesOnce` (`ShownOnce`) follow; `LogInOrder` (`InOrder`) flattens
the sequence of files.  `LogTyped` is `TypeOK`.

**`DashboardProofs`.**  `SessionsEnd` (`SessionsOfPassword`): no session in the file was opened with another password than the file's.  The invariant `ValidSessions` adds only the sessions' shape; the work is in the
handlers, each of which may have a reset of the shell between its reading and its writing: it writes back the sessions with the password it read them with, and the one it opens was checked against that
(`SavesStep`, `LoginSucceedsStep`).  `AttemptsStayBounded` (`AttemptsBounded`): an open entry counts every
failure since its first, and of the window before that first one all but the first and one less than the limit are left; during a block nothing fails, and it lasts no shorter than a window.  `TokenKept`
(`TokenFits`): the property alone is not inductive, because an answer under way tells the tab what it will believe.  `SignInInv` adds that, while nothing belied the tab, every question under way was asked with the
cookie and every answer has its id; that only one sign-in is under way, and that a fresh id is there for it.  `SignInTyped` is `TypeOK`; that passwords are numbers is an invariant of its own (`Numbered`).

`DashboardProofs` extends `Pages` and `SignIn` side by side, which is why the definitions of `Pages` have names of their own (`PagesSpec`, `pageCalls`).  `PageConstants`, the one assumption `Pages` makes of
its constants (null is no object), is evaluated by TLC in the run `dashboard`.  `PageFollows` (`ShownFits`): the property speaks of a page at rest, and a page at rest is where a call has
just ended, so `PageInv` says what is owed while one is under way.  A page that nothing belies and that has a connection has at most one call (a second one, an orphan that is served, a lost call, a fetch that is refused, a change that was made and refused, or somebody
else belies it), and `Harmless` says of that call, by its kind and how far it is, that making use of its answer leaves a page that fits: a fetch answers what the proxy has now; a switch is shown the way the proxy
will have it, or the other way until it is served, which is what its refusal restores; of anything else, a refusal that belies nothing has changed nothing (`ServedIs`) and an answer fetches again.  That last needs which calls a page can have at all:
none on the settings, only a creation on the page of a new policy, decisions on the list only, and no save without a connection when it was sent (`KnownCall`, `Placed`).  TLC finds `PageInv` to hold on the
instance of the run.  `EditsSurvive` (`EditsKept`) goes through the actions one by one: an answer reaches the editor by `Cleared` only, and a load's stops at edits.  `PagesTyped` is `PagesTypeOK`.

Only model-checked: the liveness properties, all of them (fairness and ENABLED are beyond the prover): `PendingResolved`, `EveryRequestAnswered`, `RefusalLifts`, `WalkEnds`, `OldRowsFolded`, `BufferDrains`, `RetentionEnds`,
`EditTakesEffect`, `EndNoticed`, `QueueFollows`, `LinkSettles`.  Every invariant and action property of the passing runs is a theorem, under the hypotheses named here.

## 5. Plan

Done, in this order: approvals, request pipeline, alerts, cost ledger, action log, policies with all their types, sign-in, the pages of the dashboard.  Next, keeping the number of runs about what it
is, so that a new module takes the place of a run that says less, or widens one:

1. `PolicyEngine` composed into `RequestPipeline` instead of `Refuse`, with budget limits over the aggregator of `Budgets`.
2. `Migrations`: two processes over one database.
3. Pure algorithms: longest-prefix routing.

Theorems: with those modules, that a request of an agent over its budget limit is never forwarded, and that a migration is applied once; of the modules there are, nothing that a run checks is left but liveness.

## 6. Not modelled

- Of the policies: what a criterion or a pattern compares, the sum behind a budget limit, reads of the API, a file that is a list of policies but has a wrong version.
- Text: YAML, regular expressions, prices, token counts, SQL, HTML, logs.  They are data here.
- Header checks, CORS, host lists, attributes of cookies: predicates over one request without state.
- Providers, routing and agents: maps over headers and paths, without state.  The price table is data.
- Log output on stdout, filters and single entries of the log API.
- The read-only APIs (costs, budgets, agents, status), and the pages that draw them: they change nothing.  An answer that overtakes another on a page of costs stays until the next refresh.
- Of the dashboard also templates, sorting, filters, paging and layout.  Of the API, only the routes whose modules are named above.
- The SDK: it sets a base URL and headers.
- Memory: cost records and windows are never evicted; the models bound the number of requests.
- Of the alert API, the lists, the history and the test webhook; a cooldown that is negative or a fraction.
- Two proxies over one database, except as planned for migrations.
- Time zones: `DATE(created_at)` in PostgreSQL uses the session's zone, the aggregator UTC; a day is a day here.

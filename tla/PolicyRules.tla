----------------------------- MODULE PolicyRules -----------------------------
(***************************************************************************)
(* What the policies say of one request, but for the rate limits, which    *)
(* remember the ones before: hours of access, routes to other models, and  *)
(* what the parser asks of each type.                                      *)
(*                                                                         *)
(* The criteria of a policy (action, model, path, body, headers, words of  *)
(* a prompt, lengths, spend against a budget, patterns of a filter) are    *)
(* facts that hold of a request or do not; how a pattern is compared with  *)
(* a text is data.                                                         *)
(***************************************************************************)
EXTENDS Naturals, Sequences

CONSTANTS
    Agents, Providers, Facts,
    Models,    \* names of models, and aliases for them
    NoModel,   \* no name, or the empty one
    Zones, Utc, UnknownZones

ASSUME RuleConstants ==
    /\ NoModel \in Models
    /\ Utc \in Zones /\ Zones \cap UnknownZones = {}

Context == [agent : Agents, provider : Providers, facts : SUBSET Facts,
            model : Models, json : BOOLEAN]

-----------------------------------------------------------------------------
(* Hours.                                                                    *)

Weekdays == {"monday", "tuesday", "wednesday", "thursday", "friday"}
Weekends == {"saturday", "sunday"}
Days == Weekdays \cup Weekends

\* expandDayPresets.
Expanded(days) ==
    {d \in Days : \/ d \in days
                  \/ "weekdays" \in days /\ d \in Weekdays
                  \/ "weekends" \in days /\ d \in Weekends
                  \/ "daily" \in days}

\* The minute is in the window that starts and ends at the minutes given; a window that
\* does not end after its start goes over midnight.
Within(start, end, minute) ==
    IF end > start THEN start <= minute /\ minute < end
                   ELSE start <= minute \/ minute < end

\* What Intl.DateTimeFormat tells of an instant in a zone.  With hour12: false it may
\* call the hour after midnight the 24th.
Moment == [day : Days, minute : 0..(25 * 60 - 1)]

\* The day that counts is that of the moment, also after midnight of a window that
\* began the day before.
Open(t, moment) ==
    moment.day \in Expanded(t.days) /\ Within(t.start, t.end, moment.minute)

HoursTerms == [start : Nat, end : Nat,
               days : SUBSET (Days \cup {"weekdays", "weekends", "daily"}),
               zone : Zones \cup UnknownZones, mode : {"allow", "deny"}]

\* evaluateTimeWindow.
ClosedAt(t, moment) == (t.mode = "allow") # Open(t, moment)

-----------------------------------------------------------------------------
(* Routes.                                                                   *)

\* A rule without a time_of_day has the window of a whole day, start = end.
Rule == [when : SUBSET Facts, start : Nat, end : Nat, to : Models, passthrough : BOOLEAN]

\* The aliases in the order of the file, the cheapest first.
RouteTerms == [rules : Seq(Rule), aliases : Seq([alias : Models, model : Models]),
               tier : Models, optOut : SUBSET Agents]

Matches(rule, r, minute) ==
    rule.when \subseteq r.facts /\ Within(rule.start, rule.end, minute)

Aliases(t, name) == {i \in DOMAIN t.aliases : t.aliases[i].alias = name}

\* The name of a tier below max_downgrade_level.  A model that is named outright, with
\* no alias, has no tier.
BelowTier(t, name) ==
    t.tier # NoModel /\ \E i \in Aliases(t, name), j \in Aliases(t, t.tier) : i < j

Resolved(t, name) ==
    IF Aliases(t, name) = {} THEN name
    ELSE t.aliases[CHOOSE i \in Aliases(t, name) : TRUE].model

\* The rules that end the search; one that would go below the tier does not.
Deciding(t, r, minute) ==
    {i \in DOMAIN t.rules :
        \/ t.rules[i].passthrough
        \/ Matches(t.rules[i], r, minute) /\ ~BelowTier(t, t.rules[i].to)}

FirstOf(indices) == CHOOSE i \in indices : \A j \in indices : i <= j

\* evaluateModelRoute: the model a policy routes to, NoModel if it leaves the request be.
RouteTo(t, r, minute) ==
    LET deciding == Deciding(t, r, minute)
        rule == t.rules[FirstOf(deciding)]
    IN  IF r.agent \in t.optOut \/ deciding = {} \/ rule.passthrough THEN NoModel
        ELSE Resolved(t, rule.to)

-----------------------------------------------------------------------------
(* Entries of a policy file.                                                 *)

Kinds == {"block", "rate_limit", "budget_limit", "content_filter", "time_window",
          "model_route", "require_approval"}

\* The fields the parser asks of a type.  It takes any text for a time zone.  An entry
\* that is incomplete lacks one, or has a scope or a value that the parser refuses.
NoTerms == <<>>
TermsOf(type) ==
    CASE type = "time_window" -> HoursTerms
      [] type = "model_route" -> RouteTerms
      [] OTHER -> {NoTerms}
Incomplete == [missing |-> "field"]
Terms == {NoTerms, Incomplete} \cup HoursTerms \cup RouteTerms
=============================================================================

----------------------------- MODULE MCPolicies -----------------------------
(* Two names, two agents and their providers, one fact; each name may stand  *)
(* for several policies.  The night is the second of two moments.            *)
EXTENDS PolicyStore

CONSTANTS p, q, a1, a2, near, far, secret, cheap, small, large, none

Everywhere == Agents \X Providers

Of(name, type, scope, match, terms) ==
    [name |-> name, type |-> type, enabled |-> TRUE, scope |-> scope, match |-> match,
     terms |-> terms]

Daytime(zone) ==
    [start |-> 9 * 60, end |-> 17 * 60, days |-> {"weekdays"}, zone |-> zone, mode |-> "allow"]

To(name, when) ==
    [when |-> when, start |-> 22 * 60, end |-> 6 * 60, to |-> name, passthrough |-> FALSE]
Tiers ==
    [rules |-> <<To(cheap, {}), To(small, {secret})>>, tier |-> small, optOut |-> {},
     aliases |-> <<[alias |-> cheap, model |-> cheap], [alias |-> small, model |-> small]>>]

Rate == Of(p, "rate_limit", Everywhere, {}, NoTerms)
Misspelt == Of(q, "time_window", Everywhere, {}, Incomplete)
Approval == Of(q, "require_approval", {a1} \X Providers, {secret}, NoTerms)
Hours == Of(p, "time_window", Agents \X {far}, {}, Daytime("tokyo"))
Route == Of(q, "model_route", Everywhere, {}, Tiers)
Misset == Of(p, "time_window", Agents \X {far}, {}, Daytime("nowhere"))

Submitted == {Rate}
Saved == {<<Approval, Hours>>, <<Rate, Misspelt>>, <<Misset, Route>>}
Asked ==
    {[agent |-> a1, provider |-> near, facts |-> {secret}, model |-> large, json |-> TRUE],
     [agent |-> a2, provider |-> far, facts |-> {}, model |-> large, json |-> TRUE]}
\* An approval that is cut off at its headers breaks the evaluation that gets to them.
Headless ==
    {<<[Approval EXCEPT !.scope = Everywhere, !.match = {}], r>> : r \in {x \in Asked : x.provider = far}}
\* From noon to midnight in "utc".
Clocks ==
    [zone \in Zones |-> [t \in 0..MaxTime |->
        IF zone = Utc THEN [day |-> "monday", minute |-> IF t = 0 THEN 12 * 60 ELSE 24 * 60]
        ELSE IF t = 0 THEN [day |-> "monday", minute |-> 21 * 60]
        ELSE [day |-> "tuesday", minute |-> 9 * 60]]]
=============================================================================

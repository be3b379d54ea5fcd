--------------------------- MODULE ApprovalGrant ---------------------------
(***************************************************************************)
(* What the approval queue promises, without saying how: a human decision  *)
(* about one held request is taken at most once, never revised, and a      *)
(* positive one carries at most one request to the upstream provider.      *)
(* Approvals implements this module (see Approvals!Grants).                *)
(***************************************************************************)
CONSTANTS Ids,      \* identities of the decisions asked for
          Requests  \* the HTTP requests a decision may carry upstream

VARIABLES
    decision,   \* decision[i]: "none", "asked", "granted", "refused", "purged"
    spent,      \* the decisions whose single-use token has been consumed
    delivered   \* delivered[i]: the requests that went upstream on i's token

vars == <<decision, spent, delivered>>

TypeOK ==
    /\ decision \in [Ids -> {"none", "asked", "granted", "refused", "purged"}]
    /\ spent \subseteq Ids
    /\ delivered \in [Ids -> SUBSET Requests]

Init ==
    /\ decision = [i \in Ids |-> "none"]
    /\ spent = {}
    /\ delivered = [i \in Ids |-> {}]

Ask(i) ==
    /\ decision[i] = "none"
    /\ decision' = [decision EXCEPT ![i] = "asked"]
    /\ UNCHANGED <<spent, delivered>>

\* A decision is taken about what is still asked, by a human or by the clock;
\* the clock refuses everything that is overdue in one step.
Grant(i) ==
    /\ decision[i] = "asked"
    /\ decision' = [decision EXCEPT ![i] = "granted"]
    /\ UNCHANGED <<spent, delivered>>

Refuse(I) ==
    /\ \A i \in I : decision[i] = "asked"
    /\ decision' = [i \in Ids |-> IF i \in I THEN "refused" ELSE decision[i]]
    /\ UNCHANGED <<spent, delivered>>

Spend(i) ==
    /\ decision[i] = "granted"
    /\ i \notin spent
    /\ spent' = spent \cup {i}
    /\ UNCHANGED <<decision, delivered>>

\* The one delivery a spent token buys; it may also never happen.
Deliver(i, r) ==
    /\ i \in spent
    /\ delivered[i] = {}
    /\ delivered' = [delivered EXCEPT ![i] = {r}]
    /\ UNCHANGED <<decision, spent>>

\* Retention forgets old decisions, whatever they were.
Purge(I) ==
    /\ \A i \in I : decision[i] # "none"
    /\ decision' = [i \in Ids |-> IF i \in I THEN "purged" ELSE decision[i]]
    /\ UNCHANGED <<spent, delivered>>

Next ==
    \/ \E i \in Ids : Ask(i) \/ Grant(i) \/ Spend(i)
    \/ \E I \in SUBSET Ids : Refuse(I) \/ Purge(I)
    \/ \E i \in Ids, r \in Requests : Deliver(i, r)

Spec == Init /\ [][Next]_vars
=============================================================================

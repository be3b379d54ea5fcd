------------------------------ MODULE MCAlerts ------------------------------
(* Rules about one budget with different cooldowns; in the smaller instance  *)
(* also one about a policy, and events that tell different things.           *)
EXTENDS Alerts, TLC

CONSTANTS a1, p1, e1

Budget(percent, cooldown) ==
    [type |-> "budget_threshold", cooldown |-> cooldown,
     config |-> [agent |-> Every, metric |-> "daily", percent |-> percent, policy |-> Nil]]

Denied ==
    [type |-> "policy_trigger", cooldown |-> 1,
     config |-> [agent |-> a1, metric |-> Nil, percent |-> Nil, policy |-> p1]]

Cooldowns == {Budget(80, 1), Budget(80, 2)}
Kinds == {Budget(80, 1), Denied}

Warning == [type |-> "budget_warning", agent |-> a1, period |-> "daily", percent |-> 80]
Exceeded == [type |-> "budget_exceeded", agent |-> a1, period |-> "monthly"]

Warnings == [e \in Events |-> Warning]
Different == [e \in Events |-> IF e = e1 THEN Warning ELSE Exceeded]

Symmetric == Permutations(Events) \cup Permutations(Calls)
=============================================================================

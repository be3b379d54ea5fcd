----------------------------- MODULE MCPipeline -----------------------------
(* One agent, or two: a1 with hard limits or a fast loop trigger, a2 without  *)
(* limits or with soft ones.                                                 *)
EXTENDS RequestPipeline, TLC

CONSTANTS a1  \* a member of Agents

Only(x, y) == [a \in Agents |-> IF a = a1 THEN x ELSE y]

NoLimits == Only(NoLimit, NoLimit)
DailyTwo == Only(2, 2)
MonthlyThree == Only(3, 3)
HardAgents == {a1}

\* A threshold no behaviour of the budget runs reaches.
ThresholdFar == Only(9, 9)
ThresholdMixed == Only(9, 2)
ThresholdTwo == Only(2, 3)
WindowTwo == Only(2, 2)
CooldownThree == Only(3, 1)
CooldownNone == Only(1, 1)

Symmetric == Permutations(Requests)
SymmetricKeys == Permutations(Requests) \cup Permutations(Keys)
=============================================================================

------------------------------ MODULE Budgets ------------------------------
(***************************************************************************)
(* BudgetEnforcer and the CostAggregator it reads: the spend of an agent   *)
(* since the start of the day and of the month, the verdict on a request,  *)
(* and the table of agents blocked for a cooldown.  All of it is memory of *)
(* one process; every method is synchronous, so each is one step and the   *)
(* clock stands still inside it.                                           *)
(***************************************************************************)
EXTENDS Naturals, Sequences, FiniteSetsExt

CONSTANTS
    Agents,
    NoLimit,                   \* a null limit
    NoEntry,                   \* no entry in blockedAgents
    DailyLimit, MonthlyLimit,  \* [Agents -> Nat or NoLimit]
    Hard,                      \* the agents whose limitType is 'hard'
    Day, Month                 \* lengths on the model's clock

ASSUME BudgetConstants ==
    /\ NoLimit \notin Nat /\ NoEntry \notin Nat
    /\ DailyLimit \in [Agents -> Nat \cup {NoLimit}]
    /\ MonthlyLimit \in [Agents -> Nat \cup {NoLimit}]
    /\ Hard \subseteq Agents
    /\ Day \in Nat \ {0} /\ Month \in Nat \ {0} /\ Month % Day = 0

VARIABLES
    now,      \* the clock
    records,  \* CostAggregator.records
    blocked   \* blockedAgents: when the block of an agent expires

CostRecord == [agent : Agents, cost : Nat, at : Nat]

BudgetsTypeOK ==
    /\ now \in Nat
    /\ records \in Seq(CostRecord)
    /\ blocked \in [Agents -> Nat \cup {NoEntry}]

-----------------------------------------------------------------------------
(* CostAggregator.                                                           *)

DayStart == now - (now % Day)

MonthStart == now - (now % Month)

\* Mutant: the records of earlier periods are not left out.
Spend_Ever(a, from) ==
    MapThenSumSet(LAMBDA n : records[n].cost, {n \in DOMAIN records : records[n].agent = a})

\* getSummary({agentId, period}).totalCost: the records at or after the start of
\* the period.
Spend(a, from) ==
    MapThenSumSet(LAMBDA n : records[n].cost,
                  {n \in DOMAIN records : records[n].agent = a /\ records[n].at >= from})

DailySpend(a) == Spend(a, DayStart)

MonthlySpend(a) == Spend(a, MonthStart)

RecordCost(a, cost) == records' = Append(records, [agent |-> a, cost |-> cost, at |-> now])

-----------------------------------------------------------------------------
(* The table of blocked agents.                                              *)

\* isBlocked: an entry that has not expired.
IsBlocked(a) == blocked[a] # NoEntry /\ now < blocked[a]

\* The table once isBlocked has removed the expired entry of a.
Looked(a) == IF IsBlocked(a) THEN blocked ELSE [blocked EXCEPT ![a] = NoEntry]

\* Mutant: the entry of an agent that is blocked already is kept.
BlockAgent_Once(a, cooldown) ==
    blocked' = IF IsBlocked(a) THEN blocked ELSE [blocked EXCEPT ![a] = now + cooldown]

BlockAgent(a, cooldown) == blocked' = [blocked EXCEPT ![a] = now + cooldown]

UnblockAgent(a) ==
    /\ blocked[a] # NoEntry
    /\ blocked' = [blocked EXCEPT ![a] = NoEntry]

\* The interval callback of startCleanup.
CleanupBlocked == blocked' = [a \in Agents |-> IF IsBlocked(a) THEN blocked[a] ELSE NoEntry]

-----------------------------------------------------------------------------
(* The verdict on a request.                                                *)

\* Mutant: the limit itself may still be spent.
Reached_Above(spent, limit) == limit # NoLimit /\ spent > limit

Reached(spent, limit) == limit # NoLimit /\ spent >= limit

Verdict(allowed, code) == [allowed |-> allowed, code |-> code]

\* checkBudget: the block, then the daily limit, then the monthly one.  A soft limit
\* only warns; warnings are left out.
CheckBudget(a) ==
    IF IsBlocked(a) THEN Verdict(FALSE, "loop")
    ELSE IF Reached(DailySpend(a), DailyLimit[a]) THEN Verdict(a \notin Hard, "daily")
    ELSE IF Reached(MonthlySpend(a), MonthlyLimit[a]) THEN Verdict(a \notin Hard, "monthly")
    ELSE Verdict(TRUE, "none")
=============================================================================

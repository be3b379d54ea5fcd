----------------------------- MODULE CostLedger -----------------------------
(***************************************************************************)
(* The costs in the database: DbWriter stores one row for every response   *)
(* that reported usage, without anybody waiting for it, and the retention  *)
(* run folds the old rows into one row per agent and day.                  *)
(***************************************************************************)
EXTENDS Naturals, FiniteSetsExt

CONSTANTS
    Responses, Agents,
    Costs,          \* the costs a response may have
    Keep,           \* retentionDays
    MaxDay, MaxFailures, MaxCrashes  \* bounds of the model

ASSUME LedgerConstants ==
    /\ Costs \subseteq Nat /\ Keep > 0
    /\ {Keep, MaxDay, MaxFailures, MaxCrashes} \subseteq Nat

VARIABLES
    sqlite,   \* which store: in SQLite the retention run is one transaction
    today,
    write,    \* per response: its INSERT
    detail,   \* the table cost_records
    summary,  \* the table cost_daily_summary
    sweep,    \* the retention run between its two statements
    stored,   \* history: every row the writer ever inserted
    cut,      \* history: a retention run ended between its two statements
    down,     \* the database does not answer
    failures, crashes

vars == <<sqlite, today, write, detail, summary, sweep, stored, cut, down, failures, crashes>>

-----------------------------------------------------------------------------
Days == 0..MaxDay

CostRow == [response : Responses, agent : Agents, cost : Nat, day : Days]

\* "flying" is written but not answered, "dropped" is lost or of unknown fate.
Write == [pc : {"none", "flying", "stored", "dropped"}, row : {<<>>} \cup CostRow]

Idle == [pc |-> "idle", day |-> 0]

TypeOK ==
    /\ today \in Days
    /\ write \in [Responses -> Write]
    /\ detail \subseteq CostRow /\ stored \subseteq CostRow
    /\ summary \in [Agents \X Days -> Nat]
    /\ sweep \in [pc : {"idle", "deleting"}, day : Days]
    /\ {sqlite, cut, down} \subseteq BOOLEAN /\ failures \in Nat /\ crashes \in Nat
    /\ \A r \in Responses : Cardinality({x \in detail : x.response = r}) <= 1

Init ==
    /\ sqlite \in BOOLEAN
    /\ today = 0
    /\ write = [r \in Responses |-> [pc |-> "none", row |-> <<>>]]
    /\ detail = {} /\ stored = {}
    /\ summary = [p \in Agents \X Days |-> 0]
    /\ sweep = Idle /\ cut = FALSE
    /\ down = FALSE /\ failures = 0 /\ crashes = 0

-----------------------------------------------------------------------------
(* The writer.                                                               *)

\* writeCostRecord, called when a response ends; created_at is the time of the
\* record, not of the INSERT.
WriteCostRecord(r, a, c) ==
    /\ write[r].pc = "none"
    /\ write' = [write EXCEPT ![r] =
          [pc |-> "flying", row |-> [response |-> r, agent |-> a, cost |-> c, day |-> today]]]
    /\ UNCHANGED <<sqlite, cut, today, detail, summary, sweep, stored, down, failures, crashes>>

Settle(r, pc) == write' = [write EXCEPT ![r].pc = pc]

\* insertCostRecord commits; its answer may be lost.
Insert(r) ==
    /\ write[r].pc = "flying" /\ ~down
    /\ detail' = detail \cup {write[r].row}
    /\ stored' = stored \cup {write[r].row}
    /\ Settle(r, "stored") \/ Settle(r, "dropped")
    /\ UNCHANGED <<sqlite, cut, today, summary, sweep, down, failures, crashes>>

\* It fails: an event, a line on stderr or a rejection nobody looks at, and no
\* second try.
InsertFails(r) ==
    /\ write[r].pc = "flying" /\ (down \/ failures < MaxFailures)
    /\ failures' = IF down THEN failures ELSE failures + 1
    /\ Settle(r, "dropped")
    /\ UNCHANGED <<sqlite, cut, today, detail, summary, sweep, stored, down, crashes>>

-----------------------------------------------------------------------------
(* The retention run.                                                        *)

\* Mutant: the sum takes the rows of the cutoff day, the deletion does not.
Folded_Inclusive(a, d, cutoff) ==
    MapThenSumSet(LAMBDA x : x.cost, {x \in detail : x.agent = a /\ x.day = d /\ x.day <= cutoff})

\* What the INSERT ... SELECT ... GROUP BY adds to the row of an agent and a day.
Folded(a, d, cutoff) ==
    MapThenSumSet(LAMBDA x : x.cost, {x \in detail : x.agent = a /\ x.day = d /\ x.day < cutoff})

Aggregate(cutoff) ==
    summary' = [p \in Agents \X Days |-> summary[p] + Folded(p[1], p[2], cutoff)]

\* Mutant: the deletion takes the rows of the cutoff day as well.
DeleteOld_Inclusive(cutoff) == detail' = {x \in detail : x.day > cutoff}

DeleteOld(cutoff) == detail' = {x \in detail : x.day >= cutoff}

\* Mutant: a row must be a whole day past the period.
Due_DayLater == sweep = Idle /\ ~down /\ \E x \in detail : x.day + Keep + 1 < today

\* The interval callback, once something is old enough.
Due == sweep = Idle /\ ~down /\ \E x \in detail : x.day + Keep < today

CleanupCostRecords ==
    /\ Due
    /\ Aggregate(today - Keep)
    /\ IF sqlite
       THEN DeleteOld(today - Keep) /\ UNCHANGED sweep
       ELSE UNCHANGED detail /\ sweep' = [pc |-> "deleting", day |-> today - Keep]
    /\ UNCHANGED <<sqlite, cut, today, write, stored, down, failures, crashes>>

\* The second statement of PostgresPersistence, for the same cutoff.
DeleteCostRecords ==
    /\ sweep.pc = "deleting" /\ ~down
    /\ DeleteOld(sweep.day)
    /\ sweep' = Idle
    /\ UNCHANGED <<sqlite, cut, today, write, summary, stored, down, failures, crashes>>

\* It fails: runAll writes to stderr and the next interval starts over.
DeleteFails ==
    /\ sweep.pc = "deleting" /\ (down \/ failures < MaxFailures)
    /\ failures' = IF down THEN failures ELSE failures + 1
    /\ cut' = TRUE
    /\ sweep' = Idle
    /\ UNCHANGED <<sqlite, today, write, detail, summary, stored, down, crashes>>

-----------------------------------------------------------------------------
DbFails ==
    /\ ~down /\ failures < MaxFailures
    /\ down' = TRUE /\ failures' = failures + 1
    /\ UNCHANGED <<sqlite, cut, today, write, detail, summary, sweep, stored, crashes>>

DbRecovers ==
    /\ down
    /\ down' = FALSE
    /\ UNCHANGED <<sqlite, cut, today, write, detail, summary, sweep, stored, failures, crashes>>

\* The process ends and starts again: writes in flight are gone.
Restart ==
    /\ crashes < MaxCrashes
    /\ crashes' = crashes + 1
    /\ write' = [r \in Responses |-> IF write[r].pc = "flying" THEN [write[r] EXCEPT !.pc = "dropped"]
                                     ELSE write[r]]
    /\ sweep' = Idle /\ cut' = (cut \/ sweep # Idle)
    /\ UNCHANGED <<sqlite, today, detail, summary, stored, down, failures>>

\* Assumed of the driver: an INSERT is answered or fails within the retention period.
Prompt == \A r \in Responses : write[r].pc = "flying" => today < write[r].row.day + Keep

Tick ==
    /\ today < MaxDay /\ Prompt
    /\ today' = today + 1
    /\ UNCHANGED <<sqlite, cut, write, detail, summary, sweep, stored, down, failures, crashes>>

Next ==
    \/ \E r \in Responses :
          \/ \E a \in Agents, c \in Costs : WriteCostRecord(r, a, c)
          \/ Insert(r) \/ InsertFails(r)
    \/ CleanupCostRecords \/ DeleteCostRecords \/ DeleteFails
    \/ DbFails \/ DbRecovers \/ Restart \/ Tick

Spec == Init /\ [][Next]_vars

\* The interval fires, its statements are answered, the database comes back.
FairSpec ==
    /\ Spec
    /\ WF_vars(CleanupCostRecords) /\ WF_vars(DeleteCostRecords \/ DeleteFails)
    /\ WF_vars(DbRecovers)

-----------------------------------------------------------------------------
(* Correctness.                                                              *)

Total(rows, a, d) == MapThenSumSet(LAMBDA x : x.cost, {x \in rows : x.agent = a /\ x.day = d})

\* What the two tables say an agent spent on a day.
Archived(a, d) == summary[<<a, d>>] + Total(detail, a, d)

\* Unless a run was cut between its two statements, the tables together hold what
\* was stored, each row once.
Conserved ==
    sweep = Idle /\ ~cut => \A a \in Agents, d \in Days : Archived(a, d) = Total(stored, a, d)

\* A cut run may count a row twice, but nothing is ever lost.
NothingLost == \A a \in Agents, d \in Days : Archived(a, d) >= Total(stored, a, d)

\* A row past the retention period is folded at last, whatever fails on the way.
OldRowsFolded ==
    \A r \in Responses : (\E x \in detail : x.response = r /\ x.day + Keep < today)
                            ~> ~(\E x \in detail : x.response = r)
=============================================================================

---------------------------- MODULE LedgerProofs ----------------------------
(***************************************************************************)
(* Proofs about the cost ledger, for any responses, agents, costs and      *)
(* retention period: the two tables together hold what was stored.         *)
(***************************************************************************)
EXTENDS CostLedger, Counting

USE LedgerConstants

-----------------------------------------------------------------------------
(* The cost of a set of rows.                                                *)

Paid(rows) == MapThenSumSet(LAMBDA x : x.cost, rows)

CostsOf(rows) == [x \in rows |-> x.cost]

\* The fold of MapThenSumSet, as that of SumFunctionOnSet in Counting.
PaidBody(g, s) == IF s = {} THEN 0 ELSE Pick(s).cost + g[s \ {Pick(s)}]

SolvesPaid(g, rows) == g = [s \in SUBSET rows |-> PaidBody(g, s)]

LEMMA PaidIsSum ==
    ASSUME NEW rows
    PROVE  Paid(rows) = SumFunctionOnSet(CostsOf(rows), rows)
<1>1. Paid(rows) = (CHOOSE g : SolvesPaid(g, rows))[rows]
    BY DEF Paid, MapThenSumSet, MapThenFoldSet, SolvesPaid, PaidBody, Pick
<1>2. \A g : \A s \in SUBSET rows : PaidBody(g, s) = Body(CostsOf(rows), g, s)
    BY PickIn DEF PaidBody, Body, CostsOf
<1>3. \A g : SolvesPaid(g, rows) <=> Solves(CostsOf(rows), g, rows)
    BY <1>2 DEF SolvesPaid, Solves
<1>4. (CHOOSE g : SolvesPaid(g, rows)) = (CHOOSE g : Solves(CostsOf(rows), g, rows))
    BY <1>3, Zenon
<1> QED
    BY <1>1, <1>4, SumDef

LEMMA PaidType ==
    ASSUME NEW rows \in SUBSET CostRow, IsFiniteSet(rows)
    PROVE  Paid(rows) \in Nat
<1>1. \A x \in rows : CostsOf(rows)[x] \in Nat
    BY DEF CostsOf, CostRow
<1> QED
    BY <1>1, PaidIsSum, SumType

LEMMA PaidBoth ==
    ASSUME NEW old \in SUBSET CostRow, IsFiniteSet(old),
           NEW new \in SUBSET CostRow, IsFiniteSet(new), old \cap new = {}
    PROVE  Paid(old \cup new) = Paid(old) + Paid(new)
<1> DEFINE f == CostsOf(old \cup new)
<1>1. \A x \in old \cup new : f[x] \in Nat
    BY DEF CostsOf, CostRow
<1>2. /\ \A x \in old : f[x] = CostsOf(old)[x]
      /\ \A x \in new : f[x] = CostsOf(new)[x]
    BY DEF CostsOf
<1>3. Paid(old \cup new) = SumFunctionOnSet(f, old \cup new)
    BY PaidIsSum
<1> HIDE DEF f
<1>4. /\ SumFunctionOnSet(f, old) = Paid(old)
      /\ SumFunctionOnSet(f, new) = Paid(new)
    BY <1>2, SumSame, PaidIsSum
<1> QED
    BY <1>1, <1>3, <1>4, SumBoth

-----------------------------------------------------------------------------
(* What an agent spent on a day, by a set of rows.                           *)

Of(rows, a, d) == {x \in rows : x.agent = a /\ x.day = d}

LEMMA TotalPaid ==
    ASSUME NEW rows, NEW a, NEW d
    PROVE  Total(rows, a, d) = Paid(Of(rows, a, d))
    BY DEF Total, Paid, Of

LEMMA OfSome ==
    ASSUME NEW rows \in SUBSET CostRow, IsFiniteSet(rows), NEW a, NEW d
    PROVE  Of(rows, a, d) \in SUBSET CostRow /\ IsFiniteSet(Of(rows, a, d))
    BY FS_Subset DEF Of

LEMMA TotalType ==
    ASSUME NEW rows \in SUBSET CostRow, IsFiniteSet(rows), NEW a, NEW d
    PROVE  Total(rows, a, d) \in Nat
    BY OfSome, TotalPaid, PaidType

LEMMA TotalBoth ==
    ASSUME NEW old \in SUBSET CostRow, IsFiniteSet(old),
           NEW new \in SUBSET CostRow, IsFiniteSet(new), old \cap new = {},
           NEW a, NEW d
    PROVE  Total(old \cup new, a, d) = Total(old, a, d) + Total(new, a, d)
<1>1. Of(old \cup new, a, d) = Of(old, a, d) \cup Of(new, a, d)
    BY DEF Of
<1>2. Of(old, a, d) \cap Of(new, a, d) = {}
    BY DEF Of
<1>3. Paid(Of(old, a, d) \cup Of(new, a, d)) = Paid(Of(old, a, d)) + Paid(Of(new, a, d))
    BY <1>2, OfSome, PaidBoth
<1> QED
    BY <1>1, <1>3, TotalPaid

\* The rows of a day before the cutoff are folded, the others stay.
LEMMA TotalSplit ==
    ASSUME NEW rows \in SUBSET CostRow, IsFiniteSet(rows), NEW a, NEW d, NEW cutoff \in Nat
    PROVE  /\ Total(rows, a, d) = Total({x \in rows : x.day < cutoff}, a, d)
                                      + Total({x \in rows : x.day >= cutoff}, a, d)
           /\ Total({x \in rows : x.day < cutoff}, a, d) \in Nat
           /\ Total({x \in rows : x.day >= cutoff}, a, d) \in Nat
<1> DEFINE old == {x \in rows : x.day < cutoff}
           new == {x \in rows : x.day >= cutoff}
<1>1. old \in SUBSET CostRow /\ new \in SUBSET CostRow /\ old \cap new = {}
    BY DEF CostRow, Days
<1>2. old \cup new = rows
    BY DEF CostRow, Days
<1>3. IsFiniteSet(old) /\ IsFiniteSet(new)
    BY FS_Subset
<1> HIDE DEF old, new
<1>4. /\ Total(old \cup new, a, d) = Total(old, a, d) + Total(new, a, d)
      /\ Total(old, a, d) \in Nat /\ Total(new, a, d) \in Nat
    BY <1>1, <1>3, TotalBoth, TotalType
<1> QED
    BY <1>2, <1>4 DEF old, new

LEMMA FoldedTotal ==
    ASSUME NEW a, NEW d, NEW cutoff
    PROVE  Folded(a, d, cutoff) = Total({x \in detail : x.day < cutoff}, a, d)
<1>1. {x \in detail : x.agent = a /\ x.day = d /\ x.day < cutoff}
          = {x \in {y \in detail : y.day < cutoff} : x.agent = a /\ x.day = d}
    OBVIOUS
<1> QED
    BY <1>1 DEF Folded, Total
-----------------------------------------------------------------------------
(* Types, and whose row is where.                                            *)

\* A row is stored once, by the INSERT of its response; what is in the detail was stored.
Rows ==
    /\ detail \subseteq stored /\ stored \subseteq CostRow /\ IsFiniteSet(stored)
    /\ \A x \in stored : write[x.response].pc \in {"stored", "dropped"}
    /\ \A x, y \in stored : x.response = y.response => x = y

\* An INSERT under way is of a row that no retention run takes.
Flying ==
    \A r \in Responses : write[r].pc = "flying" =>
        /\ write[r].row \in CostRow /\ write[r].row.response = r
        /\ today <= write[r].row.day + Keep

Typed ==
    /\ today \in Days
    /\ write \in [Responses -> Write]
    /\ summary \in [Agents \X Days -> Nat]
    /\ sweep \in [pc : {"idle", "deleting"}, day : Days]
    /\ sweep.pc = "idle" => sweep = Idle
    /\ sweep.pc = "deleting" => sweep.day + Keep <= today
    /\ {sqlite, cut, down} \subseteq BOOLEAN /\ failures \in Nat /\ crashes \in Nat

Base == Typed /\ Rows /\ Flying

\* The rows that the run under way, if there is one, leaves.
Staying == {x \in detail : sweep.pc = "deleting" => x.day >= sweep.day}

Kept(a, d) == summary[<<a, d>>] + Total(Staying, a, d)

Balance ==
    \A a \in Agents, d \in Days :
        /\ Kept(a, d) >= Total(stored, a, d)
        /\ ~cut => Kept(a, d) = Total(stored, a, d)

LedgerInv == Base /\ Balance

LEMMA Cutoff ==
    ASSUME Typed, NEW x \in CostRow, x.day + Keep < today
    PROVE  today - Keep \in Days
    BY DEF Typed, CostRow, Days

LEMMA NoRows ==
    ASSUME NEW a, NEW d
    PROVE  Total({}, a, d) = 0
<1>1. Of({}, a, d) = {}
    BY DEF Of
<1>2. Paid({}) = 0
    BY PaidIsSum, SumNone
<1> QED
    BY <1>1, <1>2, TotalPaid

LEMMA InitLedger == Init => LedgerInv
<1> SUFFICES ASSUME Init PROVE LedgerInv
    OBVIOUS
<1>1. Typed
    <2>1. write \in [Responses -> Write]
        BY DEF Init, Write
    <2>2. summary \in [Agents \X Days -> Nat]
        BY DEF Init
    <2>3. 0 \in Days
        BY DEF Days
    <2>4. {sqlite, cut, down} \subseteq BOOLEAN
        BY DEF Init
    <2> QED
        BY <2>1, <2>2, <2>3, <2>4 DEF Init, Typed, Idle
<1>2. Rows
    BY FS_EmptySet DEF Init, Rows
<1>3. Flying
    BY DEF Init, Flying
<1>4. Balance
    <2>1. Staying = {} /\ stored = {} /\ ~cut
        BY DEF Init, Staying
    <2>2. \A a \in Agents, d \in Days : summary[<<a, d>>] = 0
        BY DEF Init
    <2>3. \A a \in Agents, d \in Days :
              Kept(a, d) = 0 + 0 /\ Total(stored, a, d) = 0
        BY <2>1, <2>2, NoRows DEF Kept
    <2> QED
        BY <2>1, <2>3 DEF Balance
<1> QED
    BY <1>1, <1>2, <1>3, <1>4 DEF LedgerInv, Base

-----------------------------------------------------------------------------
(* The writer.                                                               *)

LEMMA WriteBase ==
    ASSUME Base, NEW r \in Responses, NEW a \in Agents, NEW c \in Costs, WriteCostRecord(r, a, c)
    PROVE  Base'
<1> DEFINE new == [response |-> r, agent |-> a, cost |-> c, day |-> today]
<1>1. new \in CostRow
    BY DEF Base, Typed, CostRow
<1>2. write' = [write EXCEPT ![r] = [pc |-> "flying", row |-> new]]
    BY DEF WriteCostRecord
<1>3. new.response = r /\ new.day = today
    OBVIOUS
<1> HIDE DEF new
<1>4. Typed'
    BY <1>1, <1>2 DEF WriteCostRecord, Base, Typed, Write
<1>5. Rows'
    BY <1>2 DEF WriteCostRecord, Base, Typed, Rows, CostRow
<1>6. Flying'
    BY <1>1, <1>2, <1>3 DEF WriteCostRecord, Base, Typed, Flying, Days
<1> QED
    BY <1>4, <1>5, <1>6 DEF Base

LEMMA InsertBase ==
    ASSUME Base, NEW r \in Responses, Insert(r)
    PROVE  Base' /\ write[r].row \notin stored
<1> DEFINE row == write[r].row
<1>1. row \in CostRow /\ row.response = r /\ row \notin stored
    BY DEF Insert, Base, Flying, Rows
<1>2. PICK pc \in {"stored", "dropped"} : write' = [write EXCEPT ![r].pc = pc]
    BY DEF Insert, Settle
<1>3. detail' = detail \cup {row} /\ stored' = stored \cup {row}
    BY DEF Insert
<1> HIDE DEF row
<1>4. Typed'
    BY <1>2 DEF Insert, Base, Typed, Write
<1>5. Rows'
    <2>1. IsFiniteSet(stored')
        BY <1>3, FS_AddElement DEF Base, Rows
    <2>2. \A x \in stored : x.response # r
        BY DEF Base, Rows, Insert
    <2>3. \A x \in stored' : write'[x.response].pc \in {"stored", "dropped"}
        BY <1>1, <1>2, <1>3, <2>2 DEF Base, Typed, Rows, CostRow
    <2> QED
        BY <1>1, <1>3, <2>1, <2>2, <2>3 DEF Base, Rows
<1>6. Flying'
    BY <1>2 DEF Insert, Base, Typed, Flying
<1> QED
    BY <1>1, <1>4, <1>5, <1>6 DEF Base, row

\* What was stored may be settled or forgotten, and nothing else changes.
LEMMA SettledBase ==
    ASSUME Base, UNCHANGED <<today, detail, summary, stored>>,
           write' \in [Responses -> Write],
           \A r \in Responses :
               write'[r] = write[r] \/ (write[r].pc = "flying" /\ write'[r].pc = "dropped"),
           sweep' = sweep \/ sweep' = Idle,
           {sqlite', cut', down'} \subseteq BOOLEAN, failures' \in Nat, crashes' \in Nat
    PROVE  Base'
<1>1. Typed'
    BY DEF Base, Typed, Idle, Days
<1>2. Rows'
    BY DEF Base, Rows, CostRow
<1>3. Flying'
    BY DEF Base, Flying
<1> QED
    BY <1>1, <1>2, <1>3 DEF Base

LEMMA BalanceSame ==
    ASSUME Balance, UNCHANGED <<detail, stored, summary, sweep>>, cut => cut'
    PROVE  Balance'
<1>1. Staying' = Staying
    BY DEF Staying
<1> QED
    BY <1>1 DEF Balance, Kept

LEMMA InsertStep ==
    ASSUME LedgerInv, NEW r \in Responses, Insert(r)
    PROVE  LedgerInv'
<1> DEFINE row == write[r].row
<1>1. Base' /\ row \notin stored
    BY InsertBase DEF LedgerInv
<1>2. detail' = detail \cup {row} /\ stored' = stored \cup {row}
    BY DEF Insert
<1>3. row \in CostRow /\ today <= row.day + Keep
    BY DEF Insert, LedgerInv, Base, Flying
<1> HIDE DEF row
<1>4. sweep.pc = "deleting" => row.day >= sweep.day
    BY <1>3 DEF LedgerInv, Base, Typed, CostRow, Days
<1>5. UNCHANGED <<sweep, summary, cut>>
    BY DEF Insert
<1>6. Staying' = Staying \cup {row}
    BY <1>2, <1>4, <1>5 DEF Staying
<1>7. Staying \subseteq stored /\ stored \subseteq CostRow
    BY DEF Staying, LedgerInv, Base, Rows
<1>8. IsFiniteSet(stored) /\ IsFiniteSet(Staying) /\ IsFiniteSet({row})
    BY <1>7, FS_Subset, FS_Singleton DEF LedgerInv, Base, Rows
<1>9. ASSUME NEW a \in Agents, NEW d \in Days
      PROVE  /\ Total(stored', a, d) = Total(stored, a, d) + Total({row}, a, d)
             /\ Total(Staying', a, d) = Total(Staying, a, d) + Total({row}, a, d)
             /\ Total({row}, a, d) \in Nat
             /\ Total(stored, a, d) \in Nat /\ Total(Staying, a, d) \in Nat
             /\ summary[<<a, d>>] \in Nat
    <2>1. Staying \in SUBSET CostRow /\ stored \in SUBSET CostRow /\ {row} \in SUBSET CostRow
        BY <1>3, <1>7
    <2>2. stored \cap {row} = {} /\ Staying \cap {row} = {}
        BY <1>1, <1>7
    <2>3. Total(stored \cup {row}, a, d) = Total(stored, a, d) + Total({row}, a, d)
        BY <1>8, <2>1, <2>2, TotalBoth
    <2>4. Total(Staying \cup {row}, a, d) = Total(Staying, a, d) + Total({row}, a, d)
        BY <1>8, <2>1, <2>2, TotalBoth
    <2>5. Total({row}, a, d) \in Nat /\ Total(stored, a, d) \in Nat /\ Total(Staying, a, d) \in Nat
        BY <1>8, <2>1, TotalType
    <2>6. summary[<<a, d>>] \in Nat
        BY DEF LedgerInv, Base, Typed
    <2> QED
        BY <1>2, <1>6, <2>3, <2>4, <2>5, <2>6
<1>10. Balance'
    <2> SUFFICES ASSUME NEW a \in Agents, NEW d \in Days
                 PROVE  /\ Kept(a, d)' >= Total(stored', a, d)
                        /\ ~cut' => Kept(a, d)' = Total(stored', a, d)
        BY DEF Balance
    <2>1. /\ Kept(a, d) >= Total(stored, a, d)
          /\ ~cut => Kept(a, d) = Total(stored, a, d)
        BY DEF LedgerInv, Balance
    <2>2. Kept(a, d)' = summary[<<a, d>>] + Total(Staying', a, d)
        BY <1>5 DEF Kept
    <2> QED
        BY <1>5, <1>9, <2>1, <2>2 DEF Kept
<1> QED
    BY <1>1, <1>10 DEF LedgerInv

-----------------------------------------------------------------------------
(* The retention run.                                                        *)

\* Rows are taken out of the detail, and the run is begun or ended.
LEMMA DeletedBase ==
    ASSUME Base, UNCHANGED <<sqlite, cut, today, write, stored, down, failures, crashes>>,
           detail' \subseteq detail, summary' \in [Agents \X Days -> Nat],
           \/ UNCHANGED sweep \/ sweep' = Idle
           \/ /\ today - Keep \in Days
              /\ sweep' = [pc |-> "deleting", day |-> today - Keep]
    PROVE  Base'
<1>1. Typed'
    BY DEF Base, Typed, Idle, Days
<1>2. Rows'
    BY DEF Base, Rows
<1>3. Flying'
    BY DEF Base, Flying
<1> QED
    BY <1>1, <1>2, <1>3 DEF Base

LEMMA Finite ==
    ASSUME Base
    PROVE  detail \in SUBSET CostRow /\ IsFiniteSet(detail)
    BY FS_Subset DEF Base, Rows

LEMMA CleanupStep ==
    ASSUME LedgerInv, CleanupCostRecords
    PROVE  LedgerInv'
<1> DEFINE cutoff == today - Keep
           old == {x \in detail : x.day < cutoff}
           new == {x \in detail : x.day >= cutoff}
<1>1. cutoff \in Days /\ cutoff \in Nat
    <2>1. PICK x \in detail : x.day + Keep < today
        BY DEF CleanupCostRecords, Due
    <2> QED
        BY <2>1, Cutoff, Finite DEF LedgerInv, Base, Days
<1>2. sweep = Idle /\ Staying = detail
    BY DEF CleanupCostRecords, Due, Idle, Staying
<1>3. \A a \in Agents, d \in Days :
          /\ Total(detail, a, d) = Total(old, a, d) + Total(new, a, d)
          /\ Total(old, a, d) \in Nat /\ Total(new, a, d) \in Nat
    <2>1. detail \in SUBSET CostRow /\ IsFiniteSet(detail)
        BY Finite DEF LedgerInv
    <2>2. \A c \in Nat : \A a \in Agents, d \in Days :
              /\ Total(detail, a, d) = Total({x \in detail : x.day < c}, a, d)
                                         + Total({x \in detail : x.day >= c}, a, d)
              /\ Total({x \in detail : x.day < c}, a, d) \in Nat
              /\ Total({x \in detail : x.day >= c}, a, d) \in Nat
        BY <2>1, TotalSplit
    <2> HIDE DEF cutoff
    <2> QED
        BY <1>1, <2>2
<1>4. \A a \in Agents, d \in Days : summary'[<<a, d>>] = summary[<<a, d>>] + Total(old, a, d)
    BY FoldedTotal DEF CleanupCostRecords, Aggregate
<1>5. summary' \in [Agents \X Days -> Nat]
    <2>1. \A p \in Agents \X Days : summary[p] + Folded(p[1], p[2], cutoff) \in Nat
        <3> SUFFICES ASSUME NEW p \in Agents \X Days
                     PROVE  summary[p] + Folded(p[1], p[2], cutoff) \in Nat
            OBVIOUS
        <3>1. summary[p] \in Nat
            BY DEF LedgerInv, Base, Typed
        <3>2. Folded(p[1], p[2], cutoff) = Total(old, p[1], p[2]) /\ Total(old, p[1], p[2]) \in Nat
            BY <1>3, FoldedTotal
        <3> HIDE DEF cutoff, old
        <3> QED
            BY <3>1, <3>2
    <2>2. summary' = [p \in Agents \X Days |-> summary[p] + Folded(p[1], p[2], cutoff)]
        BY DEF CleanupCostRecords, Aggregate
    <2> HIDE DEF cutoff
    <2> QED
        BY <2>1, <2>2
<1>6. Staying' = new /\ (detail' = detail \/ detail' = new) /\ (UNCHANGED sweep \/ sweep' = [pc |-> "deleting", day |-> cutoff])
    BY <1>2 DEF CleanupCostRecords, DeleteOld, Staying, Idle
<1>7. UNCHANGED <<sqlite, cut, today, write, stored, down, failures, crashes>>
    BY DEF CleanupCostRecords
<1>8. Base'
    <2>1. detail' \subseteq detail
        BY <1>6
    <2> QED
        BY <1>1, <1>5, <1>6, <1>7, <2>1, DeletedBase DEF LedgerInv
<1>9. Balance'
    <2> HIDE DEF cutoff, old, new
    <2> SUFFICES ASSUME NEW a \in Agents, NEW d \in Days
                 PROVE  /\ Kept(a, d)' >= Total(stored', a, d)
                        /\ ~cut' => Kept(a, d)' = Total(stored', a, d)
        BY DEF Balance
    <2>1. /\ Kept(a, d) >= Total(stored, a, d)
          /\ ~cut => Kept(a, d) = Total(stored, a, d)
        BY DEF LedgerInv, Balance
    <2>2. Kept(a, d)' = summary'[<<a, d>>] + Total(new, a, d)
        BY <1>6 DEF Kept
    <2>3. summary[<<a, d>>] \in Nat
        BY DEF LedgerInv, Base, Typed
    <2>4. Kept(a, d)' = Kept(a, d)
        BY <1>2, <1>3, <1>4, <2>2, <2>3 DEF Kept
    <2> QED
        BY <1>7, <2>1, <2>4
<1> QED
    BY <1>8, <1>9 DEF LedgerInv

\* What stays in a run that has begun is what its end leaves.
LEMMA DeleteStep ==
    ASSUME LedgerInv, DeleteCostRecords
    PROVE  LedgerInv'
<1>1. detail' = Staying /\ sweep' = Idle
    BY DEF DeleteCostRecords, DeleteOld, Staying
<1>2. Staying' = Staying
    BY <1>1 DEF Staying, Idle
<1>3. UNCHANGED <<sqlite, cut, today, write, summary, stored, down, failures, crashes>>
    BY DEF DeleteCostRecords
<1>4. Base'
    <2>1. detail' \subseteq detail
        BY <1>1 DEF Staying
    <2>2. summary' \in [Agents \X Days -> Nat]
        BY <1>3 DEF LedgerInv, Base, Typed
    <2> QED
        BY <1>1, <1>3, <2>1, <2>2, DeletedBase DEF LedgerInv
<1>5. Balance'
    BY <1>2, <1>3 DEF LedgerInv, Balance, Kept
<1> QED
    BY <1>4, <1>5 DEF LedgerInv

LEMMA TotalStaying ==
    ASSUME Base, NEW a, NEW d
    PROVE  /\ Total(Staying, a, d) <= Total(detail, a, d)
           /\ Total(Staying, a, d) \in Nat /\ Total(detail, a, d) \in Nat
<1> DEFINE rest == detail \ Staying
<1>1. Staying \subseteq detail /\ detail = Staying \cup rest /\ Staying \cap rest = {}
    BY DEF Staying
<1>2. /\ Staying \in SUBSET CostRow /\ IsFiniteSet(Staying)
      /\ rest \in SUBSET CostRow /\ IsFiniteSet(rest)
    BY <1>1, Finite, FS_Subset
<1> HIDE DEF rest
<1>3. Total(Staying \cup rest, a, d) = Total(Staying, a, d) + Total(rest, a, d)
    BY <1>1, <1>2, TotalBoth
<1>4. Total(Staying, a, d) \in Nat /\ Total(rest, a, d) \in Nat
    BY <1>2, TotalType
<1> QED
    BY <1>1, <1>3, <1>4

\* A run that is cut leaves all of the detail, and its summary.
LEMMA CutBalance ==
    ASSUME LedgerInv, UNCHANGED <<detail, stored, summary>>,
           sweep' = Idle, sweep # Idle => cut', cut => cut'
    PROVE  Balance'
<1>1. CASE sweep = Idle
    BY <1>1, BalanceSame DEF LedgerInv
<1>2. CASE sweep # Idle
    <2>1. Staying' = detail
        BY DEF Staying, Idle
    <2> SUFFICES ASSUME NEW a \in Agents, NEW d \in Days
                 PROVE  Kept(a, d)' >= Total(stored', a, d)
        BY <1>2 DEF Balance
    <2>2. Kept(a, d) >= Total(stored, a, d)
        BY DEF LedgerInv, Balance
    <2>3. Kept(a, d)' = summary[<<a, d>>] + Total(detail, a, d)
        BY <2>1 DEF Kept
    <2>4. summary[<<a, d>>] \in Nat
        BY DEF LedgerInv, Base, Typed
    <2>5. Total(stored, a, d) \in Nat
        BY TotalType DEF LedgerInv, Base, Rows
    <2> QED
        BY <2>2, <2>3, <2>4, <2>5, TotalStaying DEF LedgerInv, Kept
<1> QED
    BY <1>1, <1>2

LEMMA DeleteFailsStep ==
    ASSUME LedgerInv, DeleteFails
    PROVE  LedgerInv'
<1>1. Base'
    <2>1. /\ UNCHANGED <<sqlite, today, write, detail, summary, stored, down, crashes>>
          /\ cut' = TRUE /\ sweep' = Idle /\ failures' \in {failures, failures + 1}
        BY DEF DeleteFails
    <2>2. /\ write' \in [Responses -> Write] /\ {sqlite', cut', down'} \subseteq BOOLEAN
          /\ failures' \in Nat /\ crashes' \in Nat
        BY <2>1 DEF LedgerInv, Base, Typed
    <2> QED
        BY <2>1, <2>2, SettledBase DEF LedgerInv
<1>2. Balance'
    BY CutBalance DEF DeleteFails
<1> QED
    BY <1>1, <1>2 DEF LedgerInv

-----------------------------------------------------------------------------
(* The rest.                                                                 *)

LEMMA InsertFailsStep ==
    ASSUME LedgerInv, NEW r \in Responses, InsertFails(r)
    PROVE  LedgerInv'
<1>1. /\ write[r].pc = "flying" /\ write' = [write EXCEPT ![r].pc = "dropped"]
      /\ UNCHANGED <<sqlite, cut, today, detail, summary, sweep, stored, down, crashes>>
      /\ failures' \in {failures, failures + 1}
    BY DEF InsertFails, Settle
<1>2. /\ write' \in [Responses -> Write] /\ {sqlite', cut', down'} \subseteq BOOLEAN
      /\ failures' \in Nat /\ crashes' \in Nat
    <2>1. /\ write \in [Responses -> Write] /\ {sqlite, cut, down} \subseteq BOOLEAN
          /\ failures \in Nat /\ crashes \in Nat
        BY DEF LedgerInv, Base, Typed
    <2>2. write' \in [Responses -> Write]
        BY <1>1, <2>1 DEF Write
    <2>3. failures' \in Nat
        BY <1>1, <2>1
    <2> QED
        BY <1>1, <2>1, <2>2, <2>3
<1>3. \A q \in Responses :
          write'[q] = write[q] \/ (write[q].pc = "flying" /\ write'[q].pc = "dropped")
    <2>1. write \in [Responses -> Write]
        BY DEF LedgerInv, Base, Typed
    <2> QED
        BY <1>1, <2>1 DEF Write
<1>4. Base'
    BY <1>1, <1>2, <1>3, SettledBase DEF LedgerInv
<1> QED
    BY <1>1, <1>4, BalanceSame DEF LedgerInv

LEMMA RestartStep ==
    ASSUME LedgerInv, Restart
    PROVE  LedgerInv'
<1>1. /\ write' \in [Responses -> Write] /\ {sqlite', cut', down'} \subseteq BOOLEAN
      /\ failures' \in Nat /\ crashes' \in Nat
    BY DEF Restart, LedgerInv, Base, Typed, Write
<1>2. \A q \in Responses :
          write'[q] = write[q] \/ (write[q].pc = "flying" /\ write'[q].pc = "dropped")
    BY DEF Restart, LedgerInv, Base, Typed, Write
<1>3. Base'
    BY <1>1, <1>2, SettledBase DEF Restart, LedgerInv
<1>4. Balance'
    BY CutBalance DEF Restart
<1> QED
    BY <1>3, <1>4 DEF LedgerInv

LEMMA DatabaseStep ==
    ASSUME LedgerInv, DbFails \/ DbRecovers
    PROVE  LedgerInv'
<1>1. /\ UNCHANGED <<sqlite, cut, today, write, detail, summary, sweep, stored, crashes>>
      /\ down' \in BOOLEAN /\ failures' \in {failures, failures + 1}
    BY DEF DbFails, DbRecovers
<1>2. /\ write' \in [Responses -> Write] /\ {sqlite', cut', down'} \subseteq BOOLEAN
      /\ failures' \in Nat /\ crashes' \in Nat
    BY <1>1 DEF LedgerInv, Base, Typed
<1>3. Base'
    BY <1>1, <1>2, SettledBase DEF LedgerInv
<1> QED
    BY <1>1, <1>3, BalanceSame DEF LedgerInv

LEMMA TickStep ==
    ASSUME LedgerInv, Tick
    PROVE  LedgerInv'
<1>1. Typed'
    BY DEF Tick, LedgerInv, Base, Typed, Days
<1>2. Rows'
    BY DEF Tick, LedgerInv, Base, Rows
<1>3. Flying'
    <2> SUFFICES ASSUME NEW r \in Responses, write[r].pc = "flying"
                 PROVE  /\ write[r].row \in CostRow /\ write[r].row.response = r
                        /\ today + 1 <= write[r].row.day + Keep
        BY DEF Tick, Flying
    <2>1. today < write[r].row.day + Keep
        BY DEF Tick, Prompt
    <2>2. write[r].row \in CostRow /\ write[r].row.response = r
        BY DEF LedgerInv, Base, Flying
    <2> QED
        BY <2>1, <2>2 DEF LedgerInv, Base, Typed, CostRow, Days
<1>4. Balance'
    BY BalanceSame DEF Tick, LedgerInv
<1> QED
    BY <1>1, <1>2, <1>3, <1>4 DEF LedgerInv, Base

-----------------------------------------------------------------------------
(* The theorems.                                                             *)

LEMMA NextLedger == LedgerInv /\ [Next]_vars => LedgerInv'
<1> SUFFICES ASSUME LedgerInv, [Next]_vars PROVE LedgerInv'
    OBVIOUS
<1>1. ASSUME NEW r \in Responses, NEW a \in Agents, NEW c \in Costs, WriteCostRecord(r, a, c)
      PROVE  LedgerInv'
    BY <1>1, WriteBase, BalanceSame DEF LedgerInv, WriteCostRecord
<1>2. CASE UNCHANGED vars
    <2>1. Base'
        BY <1>2 DEF LedgerInv, vars, Base, Typed, Rows, Flying
    <2> QED
        BY <1>2, <2>1, BalanceSame DEF LedgerInv, vars
<1> QED
    BY <1>1, <1>2, InsertStep, InsertFailsStep, CleanupStep, DeleteStep, DeleteFailsStep,
       DatabaseStep, RestartStep, TickStep DEF Next

THEOREM LedgerAlways == Spec => []LedgerInv
    BY InitLedger, NextLedger, PTL DEF Spec

\* The tables, the writes and the run have their types; a response has one row at most.
THEOREM LedgerTyped == Spec => []TypeOK
<1>1. LedgerInv => TypeOK
    <2> SUFFICES ASSUME LedgerInv PROVE TypeOK
        OBVIOUS
    <2>1. ASSUME NEW r \in Responses
          PROVE  Cardinality({x \in detail : x.response = r}) <= 1
        <3> DEFINE own == {x \in detail : x.response = r}
        <3>1. \A x, y \in own : x = y
            BY DEF LedgerInv, Base, Rows
        <3>2. own = {} \/ \E x \in own : own = {x}
            BY <3>1
        <3> HIDE DEF own
        <3>3. Cardinality(own) \in {0, 1}
            BY <3>2, FS_EmptySet, FS_Singleton
        <3>4. Cardinality(own) <= 1
            BY <3>3
        <3> QED
            BY <3>4 DEF own
    <2> QED
        BY <2>1 DEF LedgerInv, Base, Typed, Rows, TypeOK
<1> QED
    BY <1>1, LedgerAlways, PTL

\* Unless a run was cut, what an agent spent on a day is the same before and after the
\* retention run, with either store, and whatever is inserted between its statements.
THEOREM CostsConserved == Spec => []Conserved
<1>1. LedgerInv => Conserved
    <2> SUFFICES ASSUME LedgerInv, sweep = Idle, ~cut, NEW a \in Agents, NEW d \in Days
                 PROVE  Archived(a, d) = Total(stored, a, d)
        BY DEF Conserved
    <2>1. Staying = detail
        BY DEF Staying, Idle
    <2> QED
        BY <2>1 DEF LedgerInv, Balance, Kept, Archived
<1> QED
    BY <1>1, LedgerAlways, PTL

\* A cut run may count rows twice, but no cost that was stored is ever missing, also not
\* between the two statements of a run.
THEOREM CostsKept == Spec => []NothingLost
<1>1. LedgerInv => NothingLost
    <2> SUFFICES ASSUME LedgerInv, NEW a \in Agents, NEW d \in Days
                 PROVE  Archived(a, d) >= Total(stored, a, d)
        BY DEF NothingLost
    <2>1. Kept(a, d) >= Total(stored, a, d)
        BY DEF LedgerInv, Balance
    <2>2. summary[<<a, d>>] \in Nat
        BY DEF LedgerInv, Base, Typed
    <2>3. Total(stored, a, d) \in Nat
        BY TotalType DEF LedgerInv, Base, Rows
    <2> QED
        BY <2>1, <2>2, <2>3, TotalStaying DEF LedgerInv, Kept, Archived
<1> QED
    BY <1>1, LedgerAlways, PTL
=============================================================================

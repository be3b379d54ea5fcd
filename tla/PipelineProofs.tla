--------------------------- MODULE PipelineProofs ---------------------------
(***************************************************************************)
(* Proofs about the request pipeline, for any number of requests, agents   *)
(* and keys and any limits: each response is charged once, a limit is      *)
(* passed by no more than was in flight, the verdict of the loop detector  *)
(* is the count of a window, and the cooldown of a loop is held.           *)
(***************************************************************************)
EXTENDS RequestPipeline, Counting, SequenceTheorems, TLAPS

-----------------------------------------------------------------------------
(* Spend, as a sum over the records of an agent since a time.                *)

RecordsOf(s, a, from) == {n \in DOMAIN s : s[n].agent = a /\ s[n].at >= from}

CostsIn(s) == [n \in DOMAIN s |-> s[n].cost]

Spent(s, a, from) == SumFunctionOnSet(CostsIn(s), RecordsOf(s, a, from))

\* The fold of Spend, as that of SumFunctionOnSet in Counting.
SpendBody(s, g, t) == IF t = {} THEN 0 ELSE s[Pick(t)].cost + g[t \ {Pick(t)}]

SolvesSpend(s, g, T) == g = [t \in SUBSET T |-> SpendBody(s, g, t)]

LEMMA SpendIsSum == \A a, from : Spend(a, from) = Spent(records, a, from)
<1> SUFFICES ASSUME NEW a, NEW from PROVE Spend(a, from) = Spent(records, a, from)
    OBVIOUS
<1> DEFINE T == RecordsOf(records, a, from)
<1>1. Spend(a, from) = (CHOOSE g : SolvesSpend(records, g, T))[T]
    BY DEF Spend, MapThenSumSet, MapThenFoldSet, SolvesSpend, SpendBody, Pick, RecordsOf
<1>2. \A g : \A t \in SUBSET T : SpendBody(records, g, t) = Body(CostsIn(records), g, t)
    BY PickIn DEF SpendBody, Body, CostsIn, RecordsOf
<1> HIDE DEF T
<1>3. \A g : SolvesSpend(records, g, T) <=> Solves(CostsIn(records), g, T)
    BY <1>2 DEF SolvesSpend, Solves
<1>4. (CHOOSE g : SolvesSpend(records, g, T)) = (CHOOSE g : Solves(CostsIn(records), g, T))
    BY <1>3, Zenon
<1>5. SumFunctionOnSet(CostsIn(records), T) = (CHOOSE g : Solves(CostsIn(records), g, T))[T]
    BY SumDef
<1> QED
    BY <1>1, <1>4, <1>5 DEF Spent, T

LEMMA RecordsFinite ==
    ASSUME NEW s \in Seq(CostRecord), NEW a, NEW from
    PROVE  /\ IsFiniteSet(RecordsOf(s, a, from))
           /\ \A n \in DOMAIN s : /\ CostsIn(s)[n] \in Nat /\ CostsIn(s)[n] = s[n].cost
                                  /\ s[n].at \in Nat
<1>1. Len(s) \in Nat /\ DOMAIN s = 1..Len(s) /\ \A n \in DOMAIN s : s[n] \in CostRecord
    OBVIOUS
<1>2. IsFiniteSet(1..Len(s))
    BY <1>1, FS_Interval
<1>3. RecordsOf(s, a, from) \in SUBSET (1..Len(s))
    BY <1>1 DEF RecordsOf
<1>4. IsFiniteSet(RecordsOf(s, a, from))
    BY <1>2, <1>3, FS_Subset
<1> QED
    BY <1>1, <1>4 DEF CostsIn, CostRecord

LEMMA SpentType ==
    ASSUME NEW s \in Seq(CostRecord), NEW a, NEW from
    PROVE  Spent(s, a, from) \in Nat
<1>1. \A n \in RecordsOf(s, a, from) : CostsIn(s)[n] \in Nat
    BY RecordsFinite DEF RecordsOf
<1> QED
    BY <1>1, RecordsFinite, SumType DEF Spent

LEMMA NothingSpent ==
    ASSUME NEW a, NEW from
    PROVE  Spent(<<>>, a, from) = 0
<1>1. RecordsOf(<<>>, a, from) = {}
    BY DEF RecordsOf
<1> QED
    BY <1>1, SumNone DEF Spent

\* A later start leaves out records.
LEMMA SpentLater ==
    ASSUME NEW s \in Seq(CostRecord), NEW a, NEW from \in Nat, NEW later \in Nat, from <= later
    PROVE  Spent(s, a, later) <= Spent(s, a, from)
<1>1. RecordsOf(s, a, later) \in SUBSET RecordsOf(s, a, from)
    <2>1. \A n \in DOMAIN s : s[n].at \in Nat
        BY RecordsFinite
    <2>2. \A n \in DOMAIN s : s[n].at >= later => s[n].at >= from
        BY <2>1
    <2> QED
        BY <2>2 DEF RecordsOf
<1>2. \A n \in RecordsOf(s, a, from) : CostsIn(s)[n] \in Nat
    BY RecordsFinite DEF RecordsOf
<1> QED
    BY <1>1, <1>2, RecordsFinite, SumLess DEF Spent

LEMMA SpentAppend ==
    ASSUME NEW s \in Seq(CostRecord), NEW x \in CostRecord, NEW a, NEW from
    PROVE  /\ Append(s, x) \in Seq(CostRecord)
           /\ Spent(Append(s, x), a, from) =
                  Spent(s, a, from) + IF x.agent = a /\ x.at >= from THEN x.cost ELSE 0
<1> DEFINE t == Append(s, x)
           n == Len(s) + 1
           old == RecordsOf(s, a, from)
<1>1. /\ t \in Seq(CostRecord) /\ Len(t) = n /\ Len(s) \in Nat
      /\ \A i \in 1..Len(s) : t[i] = s[i]
      /\ t[n] = x
    BY AppendProperties
<1>2. DOMAIN s = 1..Len(s) /\ DOMAIN t = 1..n
    BY <1>1
<1> HIDE DEF t
<1>3. DOMAIN t = DOMAIN s \cup {n} /\ n \notin DOMAIN s
    BY <1>1, <1>2
<1>4. RecordsOf(t, a, from) = IF x.agent = a /\ x.at >= from THEN old \cup {n} ELSE old
    BY <1>1, <1>2, <1>3 DEF RecordsOf
<1> HIDE DEF n
<1>5. \A i \in old : CostsIn(t)[i] = CostsIn(s)[i] /\ CostsIn(t)[i] \in Nat
    BY <1>1, <1>2, <1>3, RecordsFinite DEF CostsIn, RecordsOf
<1>6. CostsIn(t)[n] = x.cost /\ CostsIn(t)[n] \in Nat /\ n \notin old
    BY <1>1, <1>3 DEF CostsIn, CostRecord, RecordsOf
<1>7. IsFiniteSet(old)
    BY RecordsFinite
<1> HIDE DEF old
<1>8. SumFunctionOnSet(CostsIn(t), old) = SumFunctionOnSet(CostsIn(s), old)
    BY <1>5, <1>7, SumSame
<1>9. SumFunctionOnSet(CostsIn(t), old \cup {n}) = SumFunctionOnSet(CostsIn(t), old) + x.cost
    <2> DEFINE f == CostsIn(t)
    <2>1. f[n] \in Nat /\ \A i \in old : f[i] \in Nat
        BY <1>5, <1>6
    <2> HIDE DEF f
    <2>2. SumFunctionOnSet(f, old \cup {n}) = SumFunctionOnSet(f, old) + f[n]
        BY <1>6, <1>7, <2>1, SumAdd
    <2> QED
        BY <1>6, <2>2 DEF f
<1>10. SumFunctionOnSet(CostsIn(s), old) \in Nat
    BY SpentType DEF Spent, old
<1>11. Spent(t, a, from) = SumFunctionOnSet(CostsIn(s), old)
                              + IF x.agent = a /\ x.at >= from THEN x.cost ELSE 0
    BY <1>4, <1>8, <1>9, <1>10 DEF Spent
<1> QED
    BY <1>1, <1>11 DEF Spent, old, t

-----------------------------------------------------------------------------
(* What the responses of an agent reported.                                  *)

ChargedTo(q, a) == {r \in Requests : q[r].agent = a /\ q[r].cost # NoUsage}

CostsBy(q) == [r \in Requests |-> q[r].cost]

Reported(q, a) == SumFunctionOnSet(CostsBy(q), ChargedTo(q, a))

ReportedBody(q, g, t) == IF t = {} THEN 0 ELSE q[Pick(t)].cost + g[t \ {Pick(t)}]

SolvesReported(q, g, T) == g = [t \in SUBSET T |-> ReportedBody(q, g, t)]

LEMMA ReportedIsSum ==
    \A a : MapThenSumSet(LAMBDA r : req[r].cost,
                         {r \in Requests : req[r].agent = a /\ req[r].cost # NoUsage})
               = Reported(req, a)
<1> SUFFICES ASSUME NEW a
             PROVE  MapThenSumSet(LAMBDA r : req[r].cost,
                         {r \in Requests : req[r].agent = a /\ req[r].cost # NoUsage})
                        = Reported(req, a)
    OBVIOUS
<1> DEFINE T == ChargedTo(req, a)
           total == MapThenSumSet(LAMBDA r : req[r].cost, T)
<1>1. total = (CHOOSE g : SolvesReported(req, g, T))[T]
    BY DEF MapThenSumSet, MapThenFoldSet, SolvesReported, ReportedBody, Pick
<1>2. \A g : \A t \in SUBSET T : ReportedBody(req, g, t) = Body(CostsBy(req), g, t)
    BY PickIn DEF ReportedBody, Body, CostsBy, ChargedTo
<1>3. T = {r \in Requests : req[r].agent = a /\ req[r].cost # NoUsage}
    BY DEF ChargedTo
<1> HIDE DEF T
<1>4. \A g : SolvesReported(req, g, T) <=> Solves(CostsBy(req), g, T)
    BY <1>2 DEF SolvesReported, Solves
<1>5. (CHOOSE g : SolvesReported(req, g, T)) = (CHOOSE g : Solves(CostsBy(req), g, T))
    BY <1>4, Zenon
<1>6. SumFunctionOnSet(CostsBy(req), T) = (CHOOSE g : Solves(CostsBy(req), g, T))[T]
    BY SumDef
<1>7. total = Reported(req, a)
    BY <1>1, <1>5, <1>6 DEF Reported, T
<1> QED
    BY <1>3, <1>7

-----------------------------------------------------------------------------
(* The start of a period never moves back.                                   *)

LEMMA StartLater ==
    ASSUME NEW n \in Nat, NEW d \in Nat \ {0}
    PROVE  /\ n - (n % d) \in Nat /\ (n + 1) - ((n + 1) % d) \in Nat
           /\ n - (n % d) <= (n + 1) - ((n + 1) % d)
    OBVIOUS

\* What a product of the bound needs: fewer open requests, one less for its cost, or
\* less spent than the limit.
LEMMA Roomier ==
    ASSUME NEW m \in Nat, NEW k \in Nat, NEW limit \in Nat, NEW s \in Nat, NEW t \in Nat,
           NEW c \in Nat, NEW d \in Nat
    PROVE  /\ s + c * m < limit + k * m /\ t <= s /\ d <= c => t + d * m < limit + k * m
           /\ s + c * m < limit + k * m /\ t <= s + m /\ c = d + 1 => t + d * m < limit + k * m
           /\ t < limit /\ d <= k => t + d * m < limit + k * m
           /\ s + c * m < limit + k * m => s < limit + k * m
<1>1. \A i, j \in Nat : i <= j => i * m <= j * m
    OBVIOUS
<1>2. \A i \in Nat : i * m \in Nat /\ (i + 1) * m = i * m + m
    OBVIOUS
<1>3. ASSUME s + c * m < limit + k * m, t <= s, d <= c PROVE t + d * m < limit + k * m
    <2>1. d * m <= c * m
        BY <1>1, <1>3
    <2>2. d * m \in Nat /\ c * m \in Nat /\ k * m \in Nat
        BY <1>2
    <2> QED
        BY <1>3, <2>1, <2>2
<1>4. ASSUME s + c * m < limit + k * m, t <= s + m, c = d + 1 PROVE t + d * m < limit + k * m
    <2>1. c * m = d * m + m
        BY <1>2, <1>4
    <2>2. d * m \in Nat /\ k * m \in Nat
        BY <1>2
    <2> QED
        BY <1>4, <2>1, <2>2
<1>5. ASSUME t < limit, d <= k PROVE t + d * m < limit + k * m
    <2>1. d * m <= k * m /\ d * m \in Nat /\ k * m \in Nat
        BY <1>1, <1>2, <1>5
    <2> QED
        BY <1>5, <2>1
<1>6. ASSUME s + c * m < limit + k * m PROVE s < limit + k * m
    <2>1. c * m \in Nat /\ k * m \in Nat
        BY <1>2
    <2> QED
        BY <1>6, <2>1
<1> QED
    BY <1>3, <1>4, <1>5, <1>6

USE BudgetConstants, PipelineConstants

-----------------------------------------------------------------------------
(* The cooldown.                                                             *)

LEMMA InitCooldown == Init => CooldownInv
<1> SUFFICES ASSUME Init PROVE CooldownInv
    OBVIOUS
<1>1. attempts \in Seq(Attempt) /\ DOMAIN attempts = {}
    BY DEF Init
<1>2. req \in [Requests -> Request]
    BY DEF Init, Unsent, Request
<1> QED
    BY <1>1, <1>2 DEF Init, CooldownInv, CooldownHeld, NothingBlocked, Unsent, At

\* A step that moves no clock, no block and no verdict, and keeps every request's
\* agent and key, keeps the invariant.
LEMMA QuietStep ==
    ASSUME CooldownInv, UNCHANGED <<now, blocked, attempts>>,
           req' \in [Requests -> Request],
           \A r \in Requests : \/ req'[r] = req[r]
                               \/ req'[r].agent \in Agents /\ req'[r].key \in Keys
    PROVE  CooldownInv'
BY DEF CooldownInv, CooldownHeld, At

\* A handler that only moves on is quiet.
LEMMA MoveTyped ==
    ASSUME CooldownInv, NEW r \in Requests, ~At(r, {"unsent"}),
           NEW pc \in InFlight \cup Settled, Goto(r, pc) \/ GotoLogged(r, pc)
    PROVE  /\ req' \in [Requests -> Request]
           /\ \A q \in Requests : \/ req'[q] = req[q]
                                  \/ req'[q].agent \in Agents /\ req'[q].key \in Keys
<1>1. req[r] \in Request /\ req[r].agent \in Agents /\ req[r].key \in Keys
    BY DEF CooldownInv
<1>2. PICK n \in Nat : req' = [req EXCEPT ![r] = [req[r] EXCEPT !.pc = pc, !.logged = n]]
    <2>1. CASE Goto(r, pc)
        <3>1. req[r].logged \in Nat /\ [req[r] EXCEPT !.pc = pc] = [req[r] EXCEPT !.pc = pc, !.logged = req[r].logged]
            BY <1>1 DEF Request
        <3>2. req' = [req EXCEPT ![r] = [req[r] EXCEPT !.pc = pc]]
            BY <2>1 DEF Goto
        <3> QED
            BY <3>1, <3>2
    <2>2. CASE GotoLogged(r, pc)
        <3>1. req[r].logged + 1 \in Nat
            BY <1>1 DEF Request
        <3>2. req' = [req EXCEPT ![r] = [req[r] EXCEPT !.pc = pc, !.logged = req[r].logged + 1]]
            BY <2>2 DEF GotoLogged
        <3> QED
            BY <3>1, <3>2
    <2> QED
        BY <2>1, <2>2
<1> DEFINE moved == [req[r] EXCEPT !.pc = pc, !.logged = n]
<1>3. moved \in Request /\ moved.agent = req[r].agent /\ moved.key = req[r].key
    BY <1>1 DEF Request
<1>4. req' = [req EXCEPT ![r] = moved]
    BY <1>2
<1> HIDE DEF moved
<1>5. req' \in [Requests -> Request]
    BY <1>3, <1>4 DEF CooldownInv
<1>6. \A q \in Requests : req'[q] = IF q = r THEN moved ELSE req[q]
    BY <1>4 DEF CooldownInv
<1> QED
    BY <1>1, <1>3, <1>5, <1>6

\* An expired entry may go: nobody's cooldown is still running on it.
LEMMA ExpiredEntry ==
    ASSUME CooldownInv, UNCHANGED <<now, attempts>>,
           req' \in [Requests -> Request],
           \A r \in Requests : \/ req'[r] = req[r]
                               \/ req'[r].agent \in Agents /\ req'[r].key \in Keys,
           blocked' \in [Agents -> Nat \cup {NoEntry}],
           \A a \in Agents : blocked'[a] = blocked[a] \/ ~IsBlocked(a)
    PROVE  CooldownInv'
<1>1. CooldownHeld'
    <2> SUFFICES ASSUME NEW n \in DOMAIN attempts, attempts[n].verdict = "looping",
                        now < attempts[n].at + Cooldown[attempts[n].agent]
                 PROVE  /\ blocked'[attempts[n].agent] # NoEntry
                        /\ blocked'[attempts[n].agent] >= attempts[n].at + Cooldown[attempts[n].agent]
        BY DEF CooldownHeld
    <2>1. attempts[n] \in Attempt
        BY DEF CooldownInv
    <2>2. attempts[n].agent \in Agents /\ attempts[n].at \in Nat
        BY <2>1 DEF Attempt
    <2> DEFINE a == attempts[n].agent
               until == attempts[n].at + Cooldown[a]
    <2>3. blocked[a] # NoEntry /\ blocked[a] >= until
        BY DEF CooldownInv, CooldownHeld
    <2>4. until \in Nat /\ blocked[a] \in Nat /\ now \in Nat
        BY <2>2, <2>3, SMTT(30) DEF CooldownInv
    <2>5. IsBlocked(a)
        BY <2>3, <2>4 DEF IsBlocked
    <2> QED
        BY <2>2, <2>3, <2>5
<1> QED
    BY <1>1 DEF CooldownInv, At

\* An attempt is appended: with the block of a loop, or without.
LEMMA AttemptStep ==
    ASSUME CooldownInv, NEW r \in Requests, At(r, {"body"}), UNCHANGED now,
           NEW verdict \in {"passed", "looping"},
           NEW pc \in InFlight \cup Settled, Goto(r, pc) \/ GotoLogged(r, pc),
           Attempted(r, verdict),
           IF verdict = "looping" THEN BlockAgent(req[r].agent, Cooldown[req[r].agent])
                                  ELSE UNCHANGED blocked
    PROVE  CooldownInv'
<1> DEFINE a == req[r].agent
           attempt == [agent |-> a, key |-> req[r].key, at |-> now, verdict |-> verdict]
<1>1. a \in Agents /\ req[r].key \in Keys /\ now \in Nat /\ Cooldown[a] \in Nat
    BY DEF CooldownInv, At
<1>2. attempt \in Attempt /\ attempts \in Seq(Attempt)
    BY <1>1 DEF Attempt, CooldownInv
<1>3. attempts' = Append(attempts, attempt)
    BY DEF Attempted
<1>4. attempt.agent = a /\ attempt.at = now /\ attempt.verdict = verdict
    OBVIOUS
<1> HIDE DEF attempt
<1>5. /\ attempts' \in Seq(Attempt)
      /\ \A n \in DOMAIN attempts' : \/ n \in DOMAIN attempts /\ attempts'[n] = attempts[n]
                                     \/ attempts'[n] = attempt
    <2>1. /\ attempts' \in Seq(Attempt) /\ Len(attempts') = Len(attempts) + 1
          /\ \A n \in 1..Len(attempts) : attempts'[n] = attempts[n]
          /\ attempts'[Len(attempts) + 1] = attempt
        BY <1>2, <1>3, AppendProperties
    <2>2. /\ DOMAIN attempts = 1..Len(attempts) /\ DOMAIN attempts' = 1..Len(attempts')
          /\ Len(attempts) \in Nat
        BY <1>2, <2>1
    <2> QED
        BY <2>1, <2>2
<1>6. /\ blocked' \in [Agents -> Nat \cup {NoEntry}]
      /\ \A b \in Agents : b # a => blocked'[b] = blocked[b]
      /\ verdict = "looping" => blocked'[a] = now + Cooldown[a]
      /\ verdict = "passed" => blocked'[a] = blocked[a]
    <2>1. CASE verdict = "looping"
        <3>1. blocked' = [blocked EXCEPT ![a] = now + Cooldown[a]]
            BY <2>1 DEF BlockAgent
        <3>2. now + Cooldown[a] \in Nat /\ blocked \in [Agents -> Nat \cup {NoEntry}]
            BY <1>1, SMTT(30) DEF CooldownInv
        <3> HIDE DEF a
        <3> QED
            BY <1>1, <2>1, <3>1, <3>2
    <2>2. CASE verdict = "passed"
        BY <1>1, <2>2 DEF CooldownInv
    <2> QED
        BY <2>1, <2>2
<1>7. CooldownHeld'
    <2> SUFFICES ASSUME NEW n \in DOMAIN attempts', attempts'[n].verdict = "looping",
                        now < attempts'[n].at + Cooldown[attempts'[n].agent]
                 PROVE  /\ blocked'[attempts'[n].agent] # NoEntry
                        /\ blocked'[attempts'[n].agent] >= attempts'[n].at + Cooldown[attempts'[n].agent]
        BY DEF CooldownHeld
    <2>1. CASE attempts'[n] = attempt
        BY <2>1, <1>1, <1>4, <1>6
    <2>2. CASE n \in DOMAIN attempts /\ attempts'[n] = attempts[n]
        <3>1. attempts[n].agent \in Agents /\ attempts[n].at \in Nat /\ attempts[n].at <= now
            <4>1. attempts[n] \in Attempt
                BY <1>2, <2>2
            <4> QED
                BY <4>1, <2>2 DEF CooldownInv, Attempt
        <3>2. /\ blocked[attempts[n].agent] # NoEntry
              /\ blocked[attempts[n].agent] >= attempts[n].at + Cooldown[attempts[n].agent]
            BY <2>2 DEF CooldownInv, CooldownHeld
        <3>3. CASE attempts[n].agent = a /\ verdict = "looping"
            BY <3>1, <3>3, <1>1, <1>6, <2>2
        <3>4. CASE ~(attempts[n].agent = a /\ verdict = "looping")
            <4>1. blocked'[attempts[n].agent] = blocked[attempts[n].agent]
                BY <3>1, <3>4, <1>6
            <4> QED
                BY <4>1, <3>2, <2>2
        <3> QED
            BY <3>3, <3>4
    <2> QED
        BY <1>5, <2>1, <2>2
<1>8. \A n \in DOMAIN attempts' : attempts'[n].at <= now'
    <2>1. \A n \in DOMAIN attempts : attempts[n].at <= now
        BY DEF CooldownInv
    <2>2. now <= now
        BY <1>1
    <2> QED
        BY <2>1, <2>2, <1>4, <1>5
<1>9. ~At(r, {"unsent"})
    BY DEF At
<1>10. /\ req' \in [Requests -> Request]
       /\ \A q \in Requests : \/ req'[q] = req[q]
                              \/ req'[q].agent \in Agents /\ req'[q].key \in Keys
    BY <1>9, MoveTyped
<1> QED
    BY <1>1, <1>5, <1>6, <1>7, <1>8, <1>10 DEF CooldownInv, At

\* Requests, one action each.
LEMMA HandleCooldown ==
    ASSUME CooldownInv, NEW r \in Requests, Handle(r)
    PROVE  CooldownInv'
<1>1. CASE \E a \in Agents, k \in Keys : Arrive(r, a, k)
    <2>1. PICK a \in Agents, k \in Keys : Arrive(r, a, k)
        BY <1>1
    <2>2. PICK pc \in {"body", "cooling", "limited"}, n \in {0, 1} :
            req' = [req EXCEPT ![r] =
              [pc |-> pc, agent |-> a, key |-> k, left |-> FALSE, cost |-> NoUsage, logged |-> n]]
        BY <2>1 DEF Arrive
    <2> DEFINE arrived == [pc |-> pc, agent |-> a, key |-> k, left |-> FALSE, cost |-> NoUsage, logged |-> n]
    <2>3. arrived \in Request /\ arrived.agent = a /\ arrived.key = k
        <3>1. pc \in InFlight \cup Settled /\ n \in Nat
            BY DEF InFlight, Settled
        <3> QED
            BY <3>1 DEF Request
    <2>4. req' = [req EXCEPT ![r] = arrived]
        BY <2>2
    <2> HIDE DEF arrived
    <2>5. /\ req' \in [Requests -> Request]
          /\ \A q \in Requests : req'[q] = IF q = r THEN arrived ELSE req[q]
        BY <2>3, <2>4 DEF CooldownInv
    <2>6. /\ UNCHANGED <<now, attempts>>
          /\ blocked' = IF IsBlocked(a) THEN blocked ELSE [blocked EXCEPT ![a] = NoEntry]
        BY <2>1 DEF Arrive, Looked
    <2>7. /\ blocked' \in [Agents -> Nat \cup {NoEntry}]
          /\ \A b \in Agents : blocked'[b] = blocked[b] \/ ~IsBlocked(b)
        BY <2>6 DEF CooldownInv
    <2> QED
        BY <2>3, <2>5, <2>6, <2>7, ExpiredEntry
<1>2. CASE Refuse(r) \/ UploadAborts(r) \/ ResponseStarts(r) \/ ResponseErrors(r)
           \/ ConnectionFails(r) \/ TimesOut(r)
    <2>1. PICK pc \in InFlight \cup Settled : Goto(r, pc) \/ GotoLogged(r, pc)
        BY <1>2 DEF Refuse, UploadAborts, ResponseStarts, ResponseErrors, ConnectionFails,
                    TimesOut, InFlight, Settled
    <2>2. UNCHANGED <<now, blocked, attempts>> /\ ~At(r, {"unsent"})
        BY <1>2 DEF Refuse, UploadAborts, ResponseStarts, ResponseErrors, ConnectionFails,
                    TimesOut, At
    <2> QED
        BY <2>1, <2>2, MoveTyped, QuietStep
<1>3. CASE StopLoop(r)
    <2>1. "looping" \in InFlight \cup Settled
        BY DEF Settled
    <2>2. /\ At(r, {"body"}) /\ UNCHANGED now /\ GotoLogged(r, "looping")
          /\ Attempted(r, "looping") /\ BlockAgent(req[r].agent, Cooldown[req[r].agent])
        BY <1>3 DEF StopLoop
    <2> QED
        BY <2>1, <2>2, AttemptStep
<1>4. CASE Forward(r)
    <2>1. "upstream" \in InFlight \cup Settled
        BY DEF InFlight
    <2>2. /\ At(r, {"body"}) /\ UNCHANGED <<now, blocked>> /\ Goto(r, "upstream")
          /\ Attempted(r, "passed")
        BY <1>4 DEF Forward
    <2> QED
        BY <2>1, <2>2, AttemptStep
<1>5. CASE ResponseEnds(r)
    <2>1. PICK cost \in Costs \cup {NoUsage} :
            req' = [req EXCEPT ![r].pc = "delivered", ![r].cost = cost, ![r].logged = @ + 1]
        BY <1>5 DEF ResponseEnds
    <2>2. req[r] \in Request /\ req[r].agent \in Agents /\ req[r].key \in Keys /\ req[r].logged \in Nat
        BY <1>5 DEF CooldownInv, ResponseEnds, At, Request
    <2> DEFINE ended == [req[r] EXCEPT !.pc = "delivered", !.cost = cost, !.logged = req[r].logged + 1]
    <2>3. ended \in Request /\ ended.agent = req[r].agent /\ ended.key = req[r].key
        <3>1. "delivered" \in Settled /\ req[r].logged + 1 \in Nat
            BY <2>2 DEF Settled
        <3> QED
            BY <2>2, <3>1 DEF Request
    <2>4. req' = [req EXCEPT ![r] = ended]
        BY <2>1
    <2> HIDE DEF ended
    <2>5. /\ req' \in [Requests -> Request]
          /\ \A q \in Requests : req'[q] = IF q = r THEN ended ELSE req[q]
        BY <2>3, <2>4 DEF CooldownInv
    <2>6. UNCHANGED <<now, blocked, attempts>>
        BY <1>5 DEF ResponseEnds
    <2> QED
        BY <2>2, <2>3, <2>5, <2>6, QuietStep
<1>6. CASE ClientLeaves(r)
    <2>1. PICK pc \in InFlight \cup Settled :
            req' = [req EXCEPT ![r] = [req[r] EXCEPT !.pc = pc, !.left = TRUE]]
        <3>1. ASSUME NEW pc \in {"gone", "stalled"},
                     req' = [req EXCEPT ![r].pc = pc, ![r].left = TRUE]
              PROVE  pc \in InFlight \cup Settled
                     /\ req' = [req EXCEPT ![r] = [req[r] EXCEPT !.pc = pc, !.left = TRUE]]
            <4>1. pc \in InFlight \cup Settled
                BY DEF InFlight, Settled
            <4>2. req' = [req EXCEPT ![r] = [req[r] EXCEPT !.pc = pc, !.left = TRUE]]
                BY <3>1
            <4> QED
                BY <4>1, <4>2
        <3>2. CASE At(r, {"upstream", "piping"}) /\ req' = [req EXCEPT ![r].left = TRUE]
            <4>1. /\ req[r].pc \in InFlight
                  /\ [req[r] EXCEPT !.left = TRUE] = [req[r] EXCEPT !.pc = req[r].pc, !.left = TRUE]
                BY <3>2 DEF At, InFlight, CooldownInv, Request
            <4>2. req' = [req EXCEPT ![r] = [req[r] EXCEPT !.left = TRUE]]
                BY <3>2
            <4> QED
                BY <4>1, <4>2
        <3> QED
            BY <1>6, <3>1, <3>2 DEF ClientLeaves
    <2>2. req[r] \in Request /\ req[r].agent \in Agents /\ req[r].key \in Keys
        BY <1>6 DEF CooldownInv, ClientLeaves, At
    <2> DEFINE alone == [req[r] EXCEPT !.pc = pc, !.left = TRUE]
    <2>3. alone \in Request /\ alone.agent = req[r].agent /\ alone.key = req[r].key
        BY <2>2 DEF Request
    <2>4. req' = [req EXCEPT ![r] = alone]
        BY <2>1
    <2> HIDE DEF alone
    <2>5. /\ req' \in [Requests -> Request]
          /\ \A q \in Requests : req'[q] = IF q = r THEN alone ELSE req[q]
        BY <2>3, <2>4 DEF CooldownInv
    <2>6. UNCHANGED <<now, blocked, attempts>>
        BY <1>6 DEF ClientLeaves
    <2> QED
        BY <2>2, <2>3, <2>5, <2>6, QuietStep
<1> QED
    BY <1>1, <1>2, <1>3, <1>4, <1>5, <1>6 DEF Handle

\* The rest: the unblock endpoint, the cleanup interval, a restart, the clock.
LEMMA StepCooldown == CooldownInv /\ [Next]_vars => CooldownInv'
<1> SUFFICES ASSUME CooldownInv, [Next]_vars
             PROVE  CooldownInv'
    OBVIOUS
<1> USE DEF CooldownInv
<1>1. CASE \E r \in Requests : Handle(r)
    BY <1>1, HandleCooldown
<1>2. CASE \E a \in Agents : Unblock(a)
    <2>1. PICK a \in Agents : Unblock(a)
        BY <1>2
    <2>2. UNCHANGED <<now, req>> /\ blocked' = [blocked EXCEPT ![a] = NoEntry]
        BY <2>1 DEF Unblock, UnblockAgent
    <2> DEFINE pardon(x) == IF x.agent = a /\ x.verdict = "looping"
                            THEN [x EXCEPT !.verdict = "pardoned"] ELSE x
    <2>3. attempts' = [n \in DOMAIN attempts |-> pardon(attempts[n])]
        BY <2>1 DEF Unblock
    <2>4. \A x \in Attempt : /\ pardon(x) \in Attempt
                             /\ pardon(x).agent = x.agent /\ pardon(x).at = x.at
                             /\ pardon(x).verdict = "looping" => x.verdict = "looping" /\ x.agent # a
        BY DEF Attempt
    <2> HIDE DEF pardon
    <2>5. /\ Len(attempts) \in Nat /\ DOMAIN attempts = 1..Len(attempts)
          /\ \A n \in DOMAIN attempts : attempts[n] \in Attempt
        OBVIOUS
    <2>6. /\ DOMAIN attempts' = DOMAIN attempts
          /\ \A n \in DOMAIN attempts : attempts'[n] = pardon(attempts[n])
        BY <2>3
    <2>7. attempts' \in Seq(Attempt)
        BY <2>3, <2>4, <2>5
    <2>8. \A n \in DOMAIN attempts' :
              /\ attempts'[n].agent = attempts[n].agent /\ attempts'[n].at = attempts[n].at
              /\ attempts[n].agent \in Agents
              /\ attempts'[n].verdict = "looping" =>
                    attempts[n].verdict = "looping" /\ attempts[n].agent # a
        BY <2>4, <2>5, <2>6 DEF Attempt
    <2>9. /\ blocked' \in [Agents -> Nat \cup {NoEntry}]
          /\ \A b \in Agents : b # a => blocked'[b] = blocked[b]
        BY <2>2
    <2>10. CooldownHeld'
        BY <2>2, <2>6, <2>8, <2>9 DEF CooldownHeld
    <2>11. \A n \in DOMAIN attempts' : attempts'[n].at <= now'
        BY <2>2, <2>6, <2>8
    <2> QED
        BY <2>2, <2>7, <2>9, <2>10, <2>11 DEF At
<1>3. CASE SweepBlocked
    <2>1. /\ UNCHANGED <<now, attempts, req>>
          /\ blocked' = [a \in Agents |-> IF IsBlocked(a) THEN blocked[a] ELSE NoEntry]
        BY <1>3 DEF SweepBlocked, CleanupBlocked
    <2>2. /\ blocked' \in [Agents -> Nat \cup {NoEntry}]
          /\ \A a \in Agents : blocked'[a] = blocked[a] \/ ~IsBlocked(a)
        BY <2>1
    <2> QED
        BY <2>1, <2>2, ExpiredEntry
<1>4. CASE Crash
    <2>1. /\ UNCHANGED now /\ blocked' = NothingBlocked /\ attempts' = <<>>
          /\ req' = [r \in Requests |-> IF At(r, InFlight) THEN [req[r] EXCEPT !.pc = "gone"] ELSE req[r]]
        BY <1>4 DEF Crash
    <2>2. \A x \in Request : [x EXCEPT !.pc = "gone"] \in Request
        BY DEF Request, Settled
    <2>3. req' \in [Requests -> Request]
        BY <2>1, <2>2
    <2>4. \A r \in Requests : At(r, {"unsent"})' \/ (req'[r].agent \in Agents /\ req'[r].key \in Keys)
        BY <2>1 DEF At, InFlight, Request
    <2>5. attempts' \in Seq(Attempt) /\ DOMAIN attempts' = {}
        BY <2>1
    <2> QED
        BY <2>1, <2>3, <2>4, <2>5 DEF CooldownHeld, NothingBlocked
<1>5. CASE Tick
    <2>1. now' = now + 1 /\ UNCHANGED <<blocked, req, attempts>>
        BY <1>5 DEF Tick
    <2>2. \A n \in DOMAIN attempts : attempts[n].agent \in Agents /\ attempts[n].at \in Nat
        <3>1. \A n \in DOMAIN attempts : attempts[n] \in Attempt
            OBVIOUS
        <3> QED
            BY <3>1 DEF Attempt
    <2>3. \A a \in Agents : Cooldown[a] \in Nat
        OBVIOUS
    <2>4. CooldownHeld'
        BY <2>1, <2>2, <2>3, SMTT(30) DEF CooldownHeld
    <2>5. \A n \in DOMAIN attempts' : attempts'[n].at <= now'
        BY <2>1, <2>2
    <2> QED
        BY <2>1, <2>4, <2>5 DEF At
<1>6. CASE UNCHANGED vars
    BY <1>6, QuietStep DEF vars
<1> QED
    BY <1>1, <1>2, <1>3, <1>4, <1>5, <1>6 DEF Next

\* No attempt lies in the future and no verdict's block has been shortened, in
\* every reachable state: the inductive invariant of forwardRequest, blockAgent,
\* unblockAgent and the two removals of expired entries.
THEOREM CooldownInvariant == Spec => []CooldownInv
BY InitCooldown, StepCooldown, PTL DEF Spec

\* A loop verdict keeps its agent in blockedAgents for the whole cooldown, unless
\* the unblock endpoint lifts it or the process restarts.
THEOREM CooldownKept == Spec => []CooldownHeld
<1>1. CooldownInv => CooldownHeld
    BY DEF CooldownInv
<1> QED
    BY <1>1, CooldownInvariant, PTL
-----------------------------------------------------------------------------
(* What a handler's step makes of its request.                               *)

\* A handler that has written no entry in the log yet.
Unlogged == {"body", "upstream", "piping", "streaming", "stalled"}

\* The request of r goes from x to y: everything but its arrival and the end of its
\* response.
Moved(r, y) ==
    /\ y \in Request
    /\ req' = [req EXCEPT ![r] = y]
    /\ At(r, InFlight) /\ y.pc # "unsent"
    /\ y.agent = req[r].agent /\ y.key = req[r].key /\ y.cost = req[r].cost
    /\ y.pc \in Unlogged => At(r, Unlogged) /\ y.logged = req[r].logged

LEMMA GotoMoves ==
    ASSUME CooldownInv, NEW r \in Requests, At(r, InFlight),
           NEW pc \in InFlight \cup Settled, Goto(r, pc), pc \in Unlogged => At(r, Unlogged)
    PROVE  \E y : Moved(r, y)
<1> DEFINE y == [req[r] EXCEPT !.pc = pc]
<1>1. req[r] \in Request /\ pc # "unsent" /\ req \in [Requests -> Request]
    BY DEF CooldownInv, InFlight, Settled
<1>2. /\ y \in Request /\ y.pc = pc
      /\ y.agent = req[r].agent /\ y.key = req[r].key /\ y.cost = req[r].cost
      /\ y.logged = req[r].logged
    BY <1>1 DEF Request
<1>3. req' = [req EXCEPT ![r] = y]
    BY DEF Goto
<1> HIDE DEF y
<1> QED
    BY <1>1, <1>2, <1>3 DEF Moved

LEMMA LoggedMoves ==
    ASSUME CooldownInv, NEW r \in Requests, At(r, InFlight),
           NEW pc \in InFlight \cup Settled, GotoLogged(r, pc), pc \notin Unlogged
    PROVE  \E y : Moved(r, y)
<1> DEFINE y == [req[r] EXCEPT !.pc = pc, !.logged = req[r].logged + 1]
<1>1. req[r] \in Request /\ pc # "unsent" /\ req \in [Requests -> Request]
    BY DEF CooldownInv, InFlight, Settled
<1>2. /\ y \in Request /\ y.pc = pc
      /\ y.agent = req[r].agent /\ y.key = req[r].key /\ y.cost = req[r].cost
    <2>1. req[r].logged + 1 \in Nat
        BY <1>1 DEF Request
    <2> QED
        BY <1>1, <2>1 DEF Request
<1>3. req' = [req EXCEPT ![r] = y]
    BY DEF GotoLogged
<1> HIDE DEF y
<1> QED
    BY <1>1, <1>2, <1>3 DEF Moved

LEMMA HandlerMoves ==
    ASSUME CooldownInv, NEW r \in Requests,
           \/ Refuse(r) \/ UploadAborts(r) \/ StopLoop(r) \/ Forward(r) \/ ResponseStarts(r)
           \/ ResponseErrors(r) \/ ConnectionFails(r) \/ TimesOut(r) \/ ClientLeaves(r)
    PROVE  (\E y : Moved(r, y)) /\ UNCHANGED <<now, records, crashes>>
<1>1. UNCHANGED <<now, records, crashes>>
    BY DEF Refuse, UploadAborts, StopLoop, Forward, ResponseStarts, ResponseErrors,
           ConnectionFails, TimesOut, ClientLeaves
<1>2. CASE Refuse(r) \/ UploadAborts(r) \/ StopLoop(r) \/ ResponseErrors(r)
           \/ ConnectionFails(r) \/ TimesOut(r)
    <2>1. /\ At(r, InFlight)
          /\ \E pc \in (InFlight \cup Settled) \ Unlogged : Goto(r, pc) \/ GotoLogged(r, pc)
        BY <1>2 DEF Refuse, UploadAborts, StopLoop, ResponseErrors, ConnectionFails, TimesOut,
                    At, InFlight, Settled, Unlogged
    <2>2. PICK pc \in (InFlight \cup Settled) \ Unlogged : Goto(r, pc) \/ GotoLogged(r, pc)
        BY <2>1
    <2>3. At(r, InFlight) /\ pc \in InFlight \cup Settled /\ pc \notin Unlogged
        BY <2>1
    <2>4. CASE Goto(r, pc)
        BY <1>1, <2>3, <2>4, GotoMoves
    <2>5. CASE GotoLogged(r, pc)
        BY <1>1, <2>3, <2>5, LoggedMoves
    <2> QED
        BY <2>2, <2>4, <2>5
<1>3. CASE Forward(r) \/ ResponseStarts(r)
    <2>1. /\ At(r, InFlight) /\ At(r, Unlogged)
          /\ \/ \E pc \in Unlogged : Goto(r, pc)
             \/ GotoLogged(r, "delivered")
        BY <1>3 DEF Forward, ResponseStarts, At, InFlight, Unlogged
    <2>2. /\ At(r, InFlight) /\ Unlogged \subseteq InFlight \cup Settled
          /\ "delivered" \in InFlight \cup Settled /\ "delivered" \notin Unlogged
        BY <2>1 DEF Unlogged, InFlight, Settled
    <2>3. ASSUME NEW pc \in Unlogged, Goto(r, pc) PROVE \E y : Moved(r, y)
        BY <2>1, <2>2, <2>3, GotoMoves
    <2>4. CASE GotoLogged(r, "delivered")
        BY <1>1, <2>2, <2>4, LoggedMoves
    <2> QED
        BY <1>1, <2>1, <2>3, <2>4
<1>4. CASE ClientLeaves(r)
    <2>1. req[r] \in Request /\ req \in [Requests -> Request]
        BY DEF CooldownInv
    <2>2. /\ At(r, {"upstream", "piping", "streaming"})
          /\ \E pc \in {"gone", "stalled", req[r].pc} :
                req' = [req EXCEPT ![r] = [req[r] EXCEPT !.pc = pc, !.left = TRUE]]
        <3>1. CASE At(r, {"streaming"}) /\ req' = [req EXCEPT ![r].pc = "gone", ![r].left = TRUE]
            BY <3>1 DEF At
        <3>2. CASE At(r, {"piping"}) /\ req' = [req EXCEPT ![r].pc = "stalled", ![r].left = TRUE]
            BY <3>2 DEF At
        <3>3. CASE At(r, {"upstream", "piping"}) /\ req' = [req EXCEPT ![r].left = TRUE]
            <4>1. [req[r] EXCEPT !.left = TRUE] = [req[r] EXCEPT !.pc = req[r].pc, !.left = TRUE]
                BY <2>1 DEF Request
            <4>2. req' = [req EXCEPT ![r] = [req[r] EXCEPT !.left = TRUE]]
                BY <3>3
            <4> QED
                BY <3>3, <4>1, <4>2 DEF At
        <3> QED
            BY <1>4, <3>1, <3>2, <3>3 DEF ClientLeaves
    <2>3. PICK pc \in {"gone", "stalled", req[r].pc} :
                req' = [req EXCEPT ![r] = [req[r] EXCEPT !.pc = pc, !.left = TRUE]]
        BY <2>2
    <2> DEFINE y == [req[r] EXCEPT !.pc = pc, !.left = TRUE]
    <2>4. At(r, InFlight) /\ At(r, Unlogged) /\ pc # "unsent" /\ pc \in InFlight \cup Settled
        BY <2>2 DEF At, InFlight, Unlogged, Settled
    <2>5. /\ y \in Request /\ y.pc = pc
          /\ y.agent = req[r].agent /\ y.key = req[r].key /\ y.cost = req[r].cost
          /\ y.logged = req[r].logged
        BY <2>1, <2>4 DEF Request
    <2>6. req' = [req EXCEPT ![r] = y]
        BY <2>3
    <2> HIDE DEF y
    <2> QED
        BY <1>1, <2>4, <2>5, <2>6 DEF Moved
<1> QED
    BY <1>1, <1>2, <1>3, <1>4

\* The request as it arrives, after the budget check.
LEMMA Arrived ==
    ASSUME CooldownInv, NEW r \in Requests, NEW a \in Agents, NEW k \in Keys, Arrive(r, a, k)
    PROVE  /\ At(r, {"unsent"}) /\ UNCHANGED <<now, records, crashes>>
           /\ \E y \in Request :
                /\ req' = [req EXCEPT ![r] = y]
                /\ y.agent = a /\ y.cost = NoUsage /\ y.pc # "unsent"
                /\ \/ CheckBudget(a).allowed /\ y.pc = "body" /\ y.logged = 0
                   \/ ~CheckBudget(a).allowed /\ y.pc \in Settled \ Unlogged
<1>1. At(r, {"unsent"}) /\ UNCHANGED <<now, records, crashes>>
    BY DEF Arrive
<1> DEFINE v == CheckBudget(a)
           pc == IF v.allowed THEN "body" ELSE IF v.code = "loop" THEN "cooling" ELSE "limited"
           n == IF v.allowed THEN 0 ELSE 1
           y == [pc |-> pc, agent |-> a, key |-> k, left |-> FALSE, cost |-> NoUsage, logged |-> n]
<1>2. req' = [req EXCEPT ![r] = y]
    BY DEF Arrive
<1> HIDE DEF v
<1>3. /\ \/ v.allowed /\ pc = "body" /\ n = 0
         \/ ~v.allowed /\ pc \in Settled \ Unlogged
      /\ pc \in InFlight \cup Settled /\ pc # "unsent" /\ n \in Nat
    <2>1. CASE v.allowed
        BY <2>1 DEF InFlight, Settled, Unlogged
    <2>2. CASE ~v.allowed
        <3>1. n = 1 /\ pc \in {"cooling", "limited"}
            BY <2>2
        <3> QED
            BY <2>2, <3>1 DEF Settled, Unlogged
    <2> QED
        BY <2>1, <2>2
<1> HIDE DEF pc, n
<1>4. y \in Request
    BY <1>3 DEF Request
<1>5. y.agent = a /\ y.cost = NoUsage /\ y.pc = pc /\ y.logged = n
    OBVIOUS
<1> HIDE DEF y
<1> QED
    BY <1>1, <1>2, <1>3, <1>4, <1>5 DEF v

-----------------------------------------------------------------------------
(* Each completed response is charged and logged once.                       *)

\* A request has a cost once its response has ended, and then one entry in the log.
Sound(x) ==
    /\ x.cost # NoUsage => x.pc = "delivered" /\ x.logged = 1
    /\ x.pc \in Unlogged => x.logged = 0

\* Until a restart the records of an agent are what its responses reported.
ChargeInv ==
    /\ crashes \in Nat
    /\ records \in Seq(CostRecord)
    /\ \A r \in Requests : Sound(req[r])
    /\ crashes = 0 => \A a \in Agents :
          IsFiniteSet(ChargedTo(req, a)) /\ Spent(records, a, 0) = Reported(req, a)

LEMMA InitCharges == Init => ChargeInv
<1> SUFFICES ASSUME Init PROVE ChargeInv
    OBVIOUS
<1>1. records = <<>> /\ crashes = 0 /\ \A r \in Requests : req[r] = Unsent
    BY DEF Init
<1>2. \A r \in Requests : Sound(req[r])
    BY <1>1 DEF Sound, Unsent, Unlogged
<1>3. \A a \in Agents : ChargedTo(req, a) = {}
    BY <1>1 DEF ChargedTo, Unsent
<1>4. \A a \in Agents : Reported(req, a) = 0
    BY <1>3, SumNone DEF Reported
<1>5. \A a \in Agents : Spent(records, a, 0) = 0
    BY <1>1, NothingSpent
<1>6. records \in Seq(CostRecord)
    BY <1>1
<1> QED
    BY <1>1, <1>2, <1>3, <1>4, <1>5, <1>6, FS_EmptySet DEF ChargeInv

\* Nothing is charged: no cost is reported, and no request that has one changes.
LEMMA Uncharged ==
    ASSUME ChargeInv, records' = records, crashes' = crashes,
           \A r \in Requests : /\ Sound(req[r]) => Sound(req'[r])
                               /\ req'[r].cost = req[r].cost
                               /\ req[r].cost # NoUsage => req'[r].agent = req[r].agent
    PROVE  ChargeInv'
<1>1. ASSUME NEW a \in Agents
      PROVE  ChargedTo(req', a) = ChargedTo(req, a) /\ Reported(req', a) = Reported(req, a)
    <2>1. ChargedTo(req', a) = ChargedTo(req, a)
        BY DEF ChargedTo
    <2>2. CostsBy(req') = CostsBy(req)
        BY DEF CostsBy
    <2> QED
        BY <2>1, <2>2 DEF Reported
<1>2. \A r \in Requests : Sound(req'[r])
    BY DEF ChargeInv
<1>3. ~(crashes = 0) \/ \A a \in Agents :
          IsFiniteSet(ChargedTo(req', a)) /\ Spent(records', a, 0) = Reported(req', a)
    BY <1>1 DEF ChargeInv
<1> QED
    BY <1>2, <1>3 DEF ChargeInv

LEMMA MovedCharges ==
    ASSUME CooldownInv, ChargeInv, NEW r \in Requests, NEW y, Moved(r, y),
           UNCHANGED <<records, crashes>>
    PROVE  ChargeInv'
<1>1. req \in [Requests -> Request] /\ Sound(req[r])
    BY DEF CooldownInv, ChargeInv
<1>2. req[r].cost = NoUsage
    BY <1>1 DEF Sound, Moved, At, InFlight
<1>3. Sound(y) /\ y.cost = NoUsage
    <2>1. y.pc \in Unlogged => y.logged = 0
        BY <1>1 DEF Sound, Moved, At
    <2> QED
        BY <1>2, <2>1 DEF Sound, Moved
<1>4. \A q \in Requests : req'[q] = IF q = r THEN y ELSE req[q]
    BY <1>1 DEF Moved
<1> QED
    BY <1>2, <1>3, <1>4, Uncharged

LEMMA ArrivedCharges ==
    ASSUME CooldownInv, ChargeInv, NEW r \in Requests, NEW a \in Agents, NEW k \in Keys,
           Arrive(r, a, k)
    PROVE  ChargeInv'
<1>1. PICK y \in Request :
                /\ req' = [req EXCEPT ![r] = y]
                /\ y.cost = NoUsage
                /\ (y.pc = "body" /\ y.logged = 0) \/ y.pc \notin Unlogged
    BY Arrived
<1>2. At(r, {"unsent"}) /\ UNCHANGED <<records, crashes>>
    BY Arrived
<1>3. req \in [Requests -> Request] /\ Sound(req[r])
    BY DEF CooldownInv, ChargeInv
<1>4. req[r].cost = NoUsage
    BY <1>2, <1>3 DEF Sound, At
<1>5. Sound(y)
    BY <1>1 DEF Sound
<1>6. \A q \in Requests : req'[q] = IF q = r THEN y ELSE req[q]
    BY <1>1, <1>3
<1> QED
    BY <1>1, <1>2, <1>4, <1>5, <1>6, Uncharged

\* The end of a response, as the other steps are described by Moved.
LEMMA EndedIs ==
    ASSUME CooldownInv, NEW r \in Requests, ResponseEnds(r)
    PROVE  /\ At(r, {"piping", "streaming"}) /\ UNCHANGED <<now, blocked, windows, attempts, crashes>>
           /\ req[r] \in Request /\ req[r].agent \in Agents /\ now \in Nat
           /\ \E y \in Request :
                /\ req' = [req EXCEPT ![r] = y]
                /\ y.pc = "delivered" /\ y.agent = req[r].agent /\ y.key = req[r].key
                /\ y.logged = req[r].logged + 1
                /\ \/ y.cost = NoUsage /\ records' = records
                   \/ /\ y.cost \in Costs
                      /\ records' = Append(records, [agent |-> req[r].agent, cost |-> y.cost, at |-> now])
<1>1. PICK cost \in Costs \cup {NoUsage} :
          /\ req' = [req EXCEPT ![r].pc = "delivered", ![r].cost = cost, ![r].logged = @ + 1]
          /\ IF cost = NoUsage THEN UNCHANGED records ELSE RecordCost(req[r].agent, cost)
    BY DEF ResponseEnds
<1>2. /\ At(r, {"piping", "streaming"}) /\ UNCHANGED <<now, blocked, windows, attempts, crashes>>
      /\ req[r] \in Request /\ req[r].agent \in Agents /\ now \in Nat
    BY DEF CooldownInv, ResponseEnds, At
<1>3. req[r].logged + 1 \in Nat
    BY <1>2 DEF Request
<1> DEFINE y == [req[r] EXCEPT !.pc = "delivered", !.cost = cost, !.logged = req[r].logged + 1]
<1>4. /\ y \in Request /\ y.pc = "delivered" /\ y.cost = cost /\ y.logged = req[r].logged + 1
      /\ y.agent = req[r].agent /\ y.key = req[r].key
    BY <1>2, <1>3 DEF Request, Settled
<1>5. req' = [req EXCEPT ![r] = y]
    BY <1>1
<1> HIDE DEF y
<1>6. \/ y.cost = NoUsage /\ records' = records
      \/ /\ y.cost \in Costs
         /\ records' = Append(records, [agent |-> req[r].agent, cost |-> y.cost, at |-> now])
    BY <1>1, <1>4 DEF RecordCost
<1> QED
    BY <1>2, <1>4, <1>5, <1>6

LEMMA EndedCharges ==
    ASSUME CooldownInv, ChargeInv, NEW r \in Requests, ResponseEnds(r)
    PROVE  ChargeInv'
<1>1. PICK y \in Request :
        /\ req' = [req EXCEPT ![r] = y]
        /\ y.pc = "delivered" /\ y.agent = req[r].agent /\ y.logged = req[r].logged + 1
        /\ \/ y.cost = NoUsage /\ records' = records
           \/ /\ y.cost \in Costs
              /\ records' = Append(records, [agent |-> req[r].agent, cost |-> y.cost, at |-> now])
    BY EndedIs
<1>2. /\ At(r, {"piping", "streaming"}) /\ crashes' = crashes
      /\ req[r].agent \in Agents /\ now \in Nat
    BY EndedIs
<1>3. req \in [Requests -> Request] /\ Sound(req[r]) /\ records \in Seq(CostRecord)
    BY DEF CooldownInv, ChargeInv
<1>4. req[r].cost = NoUsage /\ req[r].logged = 0
    BY <1>2, <1>3 DEF Sound, At, Unlogged
<1>5. Sound(y)
    BY <1>1, <1>4 DEF Sound, Unlogged
<1>6. \A q \in Requests : req'[q] = IF q = r THEN y ELSE req[q]
    BY <1>1, <1>3
<1>7. CASE y.cost = NoUsage /\ records' = records
    BY <1>1, <1>2, <1>4, <1>5, <1>6, <1>7, Uncharged
<1>8. CASE y.cost \in Costs
           /\ records' = Append(records, [agent |-> req[r].agent, cost |-> y.cost, at |-> now])
    <2> DEFINE x == [agent |-> req[r].agent, cost |-> y.cost, at |-> now]
    <2>1. x \in CostRecord /\ x.agent = req[r].agent /\ x.cost = y.cost /\ x.at >= 0 /\ y.cost \in Nat
        <3>1. y.cost \in Nat
            BY <1>8, Zenon
        <3>2. now >= 0
            BY ONLY <1>2
        <3> QED
            BY <1>2, <3>1, <3>2 DEF CostRecord
    <2>2. records' = Append(records, x)
        BY <1>8
    <2> HIDE DEF x
    <2>3. records' \in Seq(CostRecord)
        BY <1>3, <2>1, <2>2, SpentAppend
    <2>4. ASSUME NEW a \in Agents, IsFiniteSet(ChargedTo(req, a)),
                 Spent(records, a, 0) = Reported(req, a)
          PROVE  IsFiniteSet(ChargedTo(req', a)) /\ Spent(records', a, 0) = Reported(req', a)
        <3>1. Spent(records', a, 0) = Spent(records, a, 0) + IF req[r].agent = a THEN y.cost ELSE 0
            BY <1>3, <2>1, <2>2, SpentAppend
        <3>2. \A q \in ChargedTo(req, a) : q # r
            BY <1>4 DEF ChargedTo
        <3>3. /\ \A q \in ChargedTo(req, a) : CostsBy(req')[q] = CostsBy(req)[q] /\ CostsBy(req')[q] \in Nat
              /\ CostsBy(req')[r] = y.cost
            <4>1. \A q \in ChargedTo(req, a) : req'[q] = req[q] /\ q \in Requests /\ req[q].cost \in Nat
                BY <1>3, <1>6, <3>2 DEF ChargedTo, Request
            <4> QED
                BY <4>1, <1>6 DEF CostsBy
        <3>4. SumFunctionOnSet(CostsBy(req'), ChargedTo(req, a)) = Reported(req, a)
            BY <2>4, <3>3, SumSame DEF Reported
        <3>5. CASE req[r].agent = a
            <4>1. ChargedTo(req', a) = ChargedTo(req, a) \cup {r}
                BY <1>1, <1>6, <1>8, <3>2, <3>5 DEF ChargedTo
            <4>2. r \notin ChargedTo(req, a)
                BY <3>2
            <4>3. SumFunctionOnSet(CostsBy(req'), ChargedTo(req, a) \cup {r})
                      = SumFunctionOnSet(CostsBy(req'), ChargedTo(req, a)) + CostsBy(req')[r]
                <5> DEFINE f == CostsBy(req')
                           T == ChargedTo(req, a)
                <5>1. IsFiniteSet(T) /\ r \notin T /\ f[r] \in Nat /\ \A q \in T : f[q] \in Nat
                    BY <2>1, <2>4, <3>3, <4>2
                <5> HIDE DEF f, T
                <5>2. SumFunctionOnSet(f, T \cup {r}) = SumFunctionOnSet(f, T) + f[r]
                    BY <5>1, SumAdd
                <5> QED
                    BY <5>2 DEF f, T
            <4>4. IsFiniteSet(ChargedTo(req, a) \cup {r})
                BY <2>4, FS_AddElement
            <4>5. Reported(req', a) = Reported(req, a) + y.cost
                BY <3>3, <3>4, <4>1, <4>3 DEF Reported
            <4>6. Spent(records', a, 0) = Spent(records, a, 0) + y.cost
                BY <3>1, <3>5
            <4> QED
                BY <2>4, <4>1, <4>4, <4>5, <4>6
        <3>6. CASE req[r].agent # a
            <4>1. ChargedTo(req', a) = ChargedTo(req, a)
                BY <1>1, <1>6, <3>2, <3>6 DEF ChargedTo
            <4>2. Spent(records, a, 0) \in Nat
                BY <1>3, SpentType
            <4> QED
                BY <2>4, <3>1, <3>4, <3>6, <4>1, <4>2 DEF Reported
        <3> QED
            BY <3>5, <3>6
    <2>5. \A q \in Requests : Sound(req'[q])
        BY <1>5, <1>6 DEF ChargeInv
    <2>6. ~(crashes = 0) \/ \A a \in Agents :
              IsFiniteSet(ChargedTo(req', a)) /\ Spent(records', a, 0) = Reported(req', a)
        BY <2>4 DEF ChargeInv
    <2> QED
        BY <1>2, <2>3, <2>5, <2>6 DEF ChargeInv
<1> QED
    BY <1>1, <1>7, <1>8

LEMMA NextCharges == CooldownInv /\ ChargeInv /\ [Next]_vars => ChargeInv'
<1> SUFFICES ASSUME CooldownInv, ChargeInv, [Next]_vars
             PROVE  ChargeInv'
    OBVIOUS
<1>1. CASE \E r \in Requests : Handle(r)
    <2>1. PICK r \in Requests : Handle(r)
        BY <1>1
    <2>2. CASE \E a \in Agents, k \in Keys : Arrive(r, a, k)
        BY <2>2, ArrivedCharges
    <2>3. CASE ResponseEnds(r)
        BY <2>3, EndedCharges
    <2>4. CASE \/ Refuse(r) \/ UploadAborts(r) \/ StopLoop(r) \/ Forward(r) \/ ResponseStarts(r)
               \/ ResponseErrors(r) \/ ConnectionFails(r) \/ TimesOut(r) \/ ClientLeaves(r)
        BY <2>4, HandlerMoves, MovedCharges
    <2> QED
        BY <2>1, <2>2, <2>3, <2>4 DEF Handle
<1>2. CASE Crash
    <2>1. /\ crashes' = crashes + 1 /\ records' = <<>>
          /\ req' = [r \in Requests |-> IF At(r, InFlight) THEN [req[r] EXCEPT !.pc = "gone"] ELSE req[r]]
        BY <1>2 DEF Crash
    <2>2. \A x \in Request : Sound(x) => (x.pc \in InFlight => Sound([x EXCEPT !.pc = "gone"]))
        BY DEF Sound, Request, InFlight, Unlogged
    <2>3. \A r \in Requests : Sound(req'[r])
        BY <2>1, <2>2 DEF At, CooldownInv, ChargeInv
    <2>4. records' \in Seq(CostRecord) /\ crashes' \in Nat /\ crashes' # 0
        BY <2>1 DEF ChargeInv
    <2> QED
        BY <2>3, <2>4 DEF ChargeInv
<1>3. CASE (\E a \in Agents : Unblock(a)) \/ SweepBlocked \/ Tick \/ UNCHANGED vars
    <2>1. UNCHANGED <<records, req, crashes>>
        BY <1>3 DEF Unblock, SweepBlocked, Tick, vars
    <2> QED
        BY <2>1, Uncharged
<1> QED
    BY <1>1, <1>2, <1>3 DEF Next

LEMMA ChargesInvariant == Spec => []ChargeInv
BY InitCharges, NextCharges, CooldownInvariant, PTL DEF Spec

\* Until a restart the spend of an agent is the sum of what its responses reported,
\* whole responses and no others, each once; and a response that reported a cost has
\* one entry in the action log, whatever its upstream or client does afterwards.
THEOREM ChargesExact == Spec => []ChargedOnce
<1>1. ChargeInv => ChargedOnce
    BY SpendIsSum, ReportedIsSum DEF ChargeInv, ChargedOnce, Sound
<1> QED
    BY <1>1, ChargesInvariant, PTL

-----------------------------------------------------------------------------
(* The overshoot is bounded by what may be in flight.                        *)

\* The costs of responses are bounded: without that no limit can be kept.
CostsBounded == \E c \in Costs : \A d \in Costs : d <= c

OpenIn(q, a) == {r \in Requests : q[r].agent = a /\ q[r].pc \in InFlight}

\* What an agent has spent since the period of length d began, and what its open
\* requests may still cost, stay below the limit and the overshoot.
Within(q, s, t, a, d, limit) ==
    limit \in Nat \ {0} =>
        Spent(s, a, t - (t % d)) + Cardinality(OpenIn(q, a)) * Max(Costs)
            < limit + MaxInFlight * Max(Costs)

RoomInv ==
    /\ \A a \in Agents : IsFiniteSet(OpenIn(req, a)) /\ Cardinality(OpenIn(req, a)) <= MaxInFlight
    /\ \A a \in Hard : /\ Within(req, records, now, a, Day, DailyLimit[a])
                       /\ Within(req, records, now, a, Month, MonthlyLimit[a])

LEMMA MaxIs ==
    ASSUME CostsBounded
    PROVE  Max(Costs) \in Nat /\ \A c \in Costs : c \in Nat /\ c <= Max(Costs)
<1>1. \A c, d \in Costs : c \in Nat /\ (d <= c <=> c >= d)
    <2>1. \A c, d \in Nat : d <= c <=> c >= d
        BY ONLY TRUE
    <2> QED
        BY <2>1, Zenon
<1>2. \E c \in Costs : \A d \in Costs : c >= d
    BY <1>1, Zenon DEF CostsBounded
<1>3. Max(Costs) \in Costs /\ \A d \in Costs : Max(Costs) >= d
    BY <1>2, Zenon DEF Max
<1> QED
    BY <1>1, <1>3, Zenon

LEMMA Constants ==
    /\ MaxInFlight \in Nat /\ Day \in Nat \ {0} /\ Month \in Nat \ {0} /\ Hard \subseteq Agents
    /\ \A a \in Hard : /\ DailyLimit[a] = NoLimit \/ DailyLimit[a] \in Nat
                       /\ MonthlyLimit[a] = NoLimit \/ MonthlyLimit[a] \in Nat
    /\ NoLimit \notin Nat
BY Zenon

\* The ways in which what an agent has left changes.
LEMMA WithinKept ==
    ASSUME CostsBounded, NEW a, NEW d \in Nat \ {0}, NEW limit,
           NEW q, NEW s \in Seq(CostRecord), NEW t \in Nat, IsFiniteSet(OpenIn(q, a)),
           NEW qq, NEW ss \in Seq(CostRecord), NEW tt \in Nat, IsFiniteSet(OpenIn(qq, a)),
           \/ /\ Within(q, s, t, a, d, limit)
              /\ Cardinality(OpenIn(qq, a)) <= Cardinality(OpenIn(q, a))
              /\ Spent(ss, a, tt - (tt % d)) <= Spent(s, a, t - (t % d))
           \/ /\ Within(q, s, t, a, d, limit)
              /\ Cardinality(OpenIn(q, a)) = Cardinality(OpenIn(qq, a)) + 1
              /\ Spent(ss, a, tt - (tt % d)) <= Spent(s, a, t - (t % d)) + Max(Costs)
           \/ /\ Cardinality(OpenIn(qq, a)) <= MaxInFlight
              /\ limit \in Nat \ {0} => Spent(ss, a, tt - (tt % d)) < limit
    PROVE  Within(qq, ss, tt, a, d, limit)
<1> SUFFICES ASSUME limit \in Nat \ {0}
             PROVE  Spent(ss, a, tt - (tt % d)) + Cardinality(OpenIn(qq, a)) * Max(Costs)
                        < limit + MaxInFlight * Max(Costs)
    BY Zenon DEF Within
<1> DEFINE m == Max(Costs)
           u == Spent(s, a, t - (t % d))
           v == Spent(ss, a, tt - (tt % d))
           x == Cardinality(OpenIn(q, a))
           y == Cardinality(OpenIn(qq, a))
<1>1. m \in Nat /\ MaxInFlight \in Nat /\ limit \in Nat
    BY MaxIs, Constants, Zenon
<1>2. u \in Nat /\ v \in Nat
    BY SpentType, Zenon
<1>3. x \in Nat /\ y \in Nat
    BY FS_CardinalityType, Zenon
<1>4. \/ u + x * m < limit + MaxInFlight * m /\ v <= u /\ y <= x
      \/ u + x * m < limit + MaxInFlight * m /\ v <= u + m /\ x = y + 1
      \/ v < limit /\ y <= MaxInFlight
    BY Zenon DEF Within
<1> HIDE DEF m, u, v, x, y
<1>5. v + y * m < limit + MaxInFlight * m
    BY <1>1, <1>2, <1>3, <1>4, Roomier, Zenon
<1> QED
    BY <1>5, Zenon DEF v, y, m

LEMMA InitRoom == CostsBounded /\ Init => RoomInv
<1> SUFFICES ASSUME CostsBounded, Init PROVE RoomInv
    OBVIOUS
<1>1. records = <<>> /\ now = 0 /\ \A r \in Requests : req[r] = Unsent
    BY DEF Init
<1>2. \A a : OpenIn(req, a) = {}
    BY <1>1 DEF OpenIn, Unsent, InFlight
<1>3. IsFiniteSet({}) /\ Cardinality({}) = 0 /\ 0 <= MaxInFlight
    BY FS_EmptySet
<1>4. records \in Seq(CostRecord)
    BY <1>1
<1>5. ASSUME NEW a, NEW d \in Nat \ {0}, NEW limit
      PROVE  Within(req, records, now, a, d, limit)
    <2>1. Spent(records, a, now - (now % d)) = 0
        BY <1>1, NothingSpent
    <2>2. limit \in Nat \ {0} => 0 < limit
        BY ONLY TRUE
    <2>3. now \in Nat
        BY <1>1
    <2>4. IsFiniteSet(OpenIn(req, a)) /\ Cardinality(OpenIn(req, a)) <= MaxInFlight
        BY <1>2, <1>3
    <2>5. limit \in Nat \ {0} => Spent(records, a, now - (now % d)) < limit
        BY <2>1, <2>2, Zenon
    <2> QED
        BY <1>4, <2>3, <2>4, <2>5, WithinKept, Zenon
<1> QED
    BY <1>2, <1>3, <1>5, Constants, Zenon DEF RoomInv

\* Nobody opens a request, spends or moves the clock back.
LEMMA Roomy ==
    ASSUME CostsBounded, RoomInv, CooldownInv, ChargeInv, ChargeInv', now' \in Nat,
           \A a \in Agents : OpenIn(req', a) \subseteq OpenIn(req, a),
           \A a \in Agents, d \in Nat \ {0} :
               Spent(records', a, now' - (now' % d)) <= Spent(records, a, now - (now % d))
    PROVE  RoomInv'
<1>1. ASSUME NEW a \in Agents
      PROVE  /\ IsFiniteSet(OpenIn(req, a)) /\ IsFiniteSet(OpenIn(req', a))
             /\ Cardinality(OpenIn(req', a)) <= Cardinality(OpenIn(req, a))
             /\ Cardinality(OpenIn(req', a)) <= MaxInFlight
    <2> DEFINE T == OpenIn(req, a)
               U == OpenIn(req', a)
    <2>1. IsFiniteSet(T) /\ U \in SUBSET T /\ Cardinality(T) <= MaxInFlight /\ MaxInFlight \in Nat
        BY Constants, Zenon DEF RoomInv
    <2> HIDE DEF T, U
    <2>2. IsFiniteSet(U) /\ Cardinality(U) <= Cardinality(T)
        BY <2>1, FS_Subset
    <2>3. Cardinality(U) \in Nat /\ Cardinality(T) \in Nat
        BY <2>1, <2>2, FS_CardinalityType
    <2>4. Cardinality(U) <= MaxInFlight
        BY ONLY <2>1, <2>2, <2>3
    <2> QED
        BY <2>1, <2>2, <2>4 DEF T, U
<1>2. records \in Seq(CostRecord) /\ records' \in Seq(CostRecord) /\ now \in Nat
    BY DEF ChargeInv, CooldownInv
<1>3. ASSUME NEW a \in Agents, NEW d \in Nat \ {0}, NEW limit, Within(req, records, now, a, d, limit)
      PROVE  Within(req', records', now', a, d, limit)
    BY <1>1, <1>2, <1>3, WithinKept, Zenon
<1> QED
    BY <1>1, <1>3, Constants, Zenon DEF RoomInv

LEMMA MovedRoom ==
    ASSUME CostsBounded, RoomInv, CooldownInv, ChargeInv, ChargeInv', UNCHANGED <<now, records>>,
           NEW r \in Requests, NEW y, Moved(r, y)
    PROVE  RoomInv'
<1>1. req \in [Requests -> Request] /\ now \in Nat
    BY DEF CooldownInv
<1>2. \A q \in Requests : req'[q] = IF q = r THEN y ELSE req[q]
    BY <1>1 DEF Moved
<1>3. \A a \in Agents : OpenIn(req', a) \subseteq OpenIn(req, a)
    BY <1>2 DEF OpenIn, Moved, At
<1>4. \A a \in Agents, d \in Nat \ {0} :
          Spent(records', a, now' - (now' % d)) <= Spent(records, a, now - (now % d))
    <2>1. \A a, d : Spent(records, a, now - (now % d)) \in Nat
        BY SpentType, Zenon DEF ChargeInv
    <2>2. \A n \in Nat : n <= n
        BY ONLY TRUE
    <2> QED
        BY <2>1, <2>2, Zenon
<1> QED
    BY <1>1, <1>3, <1>4, Roomy, Zenon

\* Who is let in has not spent its limit yet.
LEMMA LetIn ==
    ASSUME CooldownInv, ChargeInv, NEW a \in Hard, CheckBudget(a).allowed
    PROVE  /\ DailyLimit[a] \in Nat => Spent(records, a, now - (now % Day)) < DailyLimit[a]
           /\ MonthlyLimit[a] \in Nat => Spent(records, a, now - (now % Month)) < MonthlyLimit[a]
<1>1. ~Reached(DailySpend(a), DailyLimit[a]) /\ ~Reached(MonthlySpend(a), MonthlyLimit[a])
    BY Zenon DEF CheckBudget, Verdict
<1>2. /\ DailySpend(a) = Spent(records, a, now - (now % Day))
      /\ MonthlySpend(a) = Spent(records, a, now - (now % Month))
    BY SpendIsSum, Zenon DEF DailySpend, MonthlySpend, DayStart, MonthStart
<1>3. DailySpend(a) \in Nat /\ MonthlySpend(a) \in Nat
    <2>1. records \in Seq(CostRecord)
        BY DEF ChargeInv
    <2>2. \A from : Spent(records, a, from) \in Nat
        BY <2>1, SpentType
    <2> QED
        BY <1>2, <2>2
<1>4. \A m, n \in Nat : ~(m >= n) => m < n
    BY ONLY TRUE
<1>5. ASSUME NEW m \in Nat, NEW limit \in Nat, ~Reached(m, limit)
      PROVE  m < limit
    BY <1>4, <1>5, Constants, Zenon DEF Reached
<1> QED
    BY <1>1, <1>2, <1>3, <1>5, Zenon

LEMMA ArrivedRoom ==
    ASSUME CostsBounded, RoomInv, CooldownInv, ChargeInv, ChargeInv',
           NEW r \in Requests, NEW b \in Agents, NEW k \in Keys, Arrive(r, b, k)
    PROVE  RoomInv'
<1>1. PICK y \in Request :
        /\ req' = [req EXCEPT ![r] = y]
        /\ y.agent = b
        /\ \/ CheckBudget(b).allowed /\ y.pc = "body"
           \/ ~CheckBudget(b).allowed /\ y.pc \in Settled \ Unlogged
    BY Arrived
<1>2. At(r, {"unsent"}) /\ UNCHANGED <<now, records>> /\ Cardinality(OpenIn(req, b)) < MaxInFlight
    BY Arrived DEF Arrive, Open, OpenIn, At
<1>3. req \in [Requests -> Request] /\ now \in Nat /\ records \in Seq(CostRecord)
    BY DEF CooldownInv, ChargeInv
<1>4. \A q \in Requests : req'[q] = IF q = r THEN y ELSE req[q]
    BY <1>1, <1>3
<1>5. \A a : r \notin OpenIn(req, a)
    BY <1>2 DEF At, OpenIn, InFlight
<1>6. ASSUME NEW a \in Agents
      PROVE  OpenIn(req', a) = IF a = b /\ CheckBudget(b).allowed THEN OpenIn(req, a) \cup {r}
                               ELSE OpenIn(req, a)
    <2>1. y.pc \in InFlight <=> CheckBudget(b).allowed
        BY <1>1 DEF InFlight, Settled, Unlogged
    <2> QED
        BY <1>1, <1>4, <1>5, <2>1 DEF OpenIn
<1>7. ASSUME NEW a \in Agents
      PROVE  IsFiniteSet(OpenIn(req', a)) /\ Cardinality(OpenIn(req', a)) <= MaxInFlight
    <2>1. IsFiniteSet(OpenIn(req, a)) /\ Cardinality(OpenIn(req, a)) <= MaxInFlight
        BY DEF RoomInv
    <2>2. CASE a = b /\ CheckBudget(b).allowed
        <3>1. OpenIn(req', a) = OpenIn(req, a) \cup {r} /\ Cardinality(OpenIn(req, a)) < MaxInFlight
            BY <1>2, <1>6, <2>2
        <3>2. IsFiniteSet(OpenIn(req', a)) /\ Cardinality(OpenIn(req', a)) = Cardinality(OpenIn(req, a)) + 1
            BY <1>5, <2>1, <3>1, FS_AddElement
        <3>3. Cardinality(OpenIn(req, a)) \in Nat /\ MaxInFlight \in Nat
            BY <2>1, FS_CardinalityType, Constants, Zenon
        <3>4. \A m, n \in Nat : m < n => m + 1 <= n
            BY ONLY TRUE
        <3> QED
            BY <3>1, <3>2, <3>3, <3>4, Zenon
    <2>3. CASE ~(a = b /\ CheckBudget(b).allowed)
        BY <1>6, <2>1, <2>3
    <2> QED
        BY <2>2, <2>3
<1>8. ASSUME NEW a \in Hard, NEW d \in Nat \ {0}, NEW limit,
             Within(req, records, now, a, d, limit),
             CheckBudget(a).allowed /\ limit \in Nat => Spent(records, a, now - (now % d)) < limit
      PROVE  Within(req', records', now', a, d, limit)
    <2>1. a \in Agents
        BY Constants, Zenon
    <2>2. /\ IsFiniteSet(OpenIn(req, a)) /\ IsFiniteSet(OpenIn(req', a))
          /\ Cardinality(OpenIn(req', a)) <= MaxInFlight
        BY <1>7, <2>1, Zenon DEF RoomInv
    <2>3. CASE a = b /\ CheckBudget(b).allowed
        <3>1. limit \in Nat \ {0} => Spent(records', a, now' - (now' % d)) < limit
            BY <1>2, <1>8, <2>3
        <3> QED
            BY <1>2, <1>3, <2>2, <3>1, WithinKept
    <2>4. CASE ~(a = b /\ CheckBudget(b).allowed)
        <3>1. OpenIn(req', a) = OpenIn(req, a)
            BY <1>6, <2>1, <2>4, Zenon
        <3> QED
            BY <1>2, <1>8, <3>1 DEF Within
    <2> QED
        BY <2>3, <2>4
<1>9. ASSUME NEW a \in Hard
      PROVE  /\ Within(req', records', now', a, Day, DailyLimit[a])
             /\ Within(req', records', now', a, Month, MonthlyLimit[a])
    <2>1. /\ Within(req, records, now, a, Day, DailyLimit[a])
          /\ Within(req, records, now, a, Month, MonthlyLimit[a])
        BY DEF RoomInv
    <2>2. CheckBudget(a).allowed =>
              /\ DailyLimit[a] \in Nat => Spent(records, a, now - (now % Day)) < DailyLimit[a]
              /\ MonthlyLimit[a] \in Nat => Spent(records, a, now - (now % Month)) < MonthlyLimit[a]
        BY LetIn
    <2> QED
        BY <1>8, <2>1, <2>2, Constants, Zenon
<1> QED
    BY <1>7, <1>9, Constants, Zenon DEF RoomInv

LEMMA EndedRoom ==
    ASSUME CostsBounded, RoomInv, CooldownInv, ChargeInv, ChargeInv',
           NEW r \in Requests, ResponseEnds(r)
    PROVE  RoomInv'
<1>1. PICK y \in Request :
        /\ req' = [req EXCEPT ![r] = y]
        /\ y.pc = "delivered" /\ y.agent = req[r].agent
        /\ \/ y.cost = NoUsage /\ records' = records
           \/ /\ y.cost \in Costs
              /\ records' = Append(records, [agent |-> req[r].agent, cost |-> y.cost, at |-> now])
    BY EndedIs
<1>2. At(r, {"piping", "streaming"}) /\ now' = now /\ req[r].agent \in Agents
    BY EndedIs
<1> DEFINE b == req[r].agent
<1>3. req \in [Requests -> Request] /\ now \in Nat /\ now' \in Nat
      /\ records \in Seq(CostRecord) /\ records' \in Seq(CostRecord)
    BY <1>2 DEF CooldownInv, ChargeInv
<1>4. \A q \in Requests : req'[q] = IF q = r THEN y ELSE req[q]
    BY <1>1, <1>3
<1>5. \A a : OpenIn(req', a) = OpenIn(req, a) \ {r}
    BY <1>1, <1>4 DEF OpenIn, InFlight
<1>6. r \in OpenIn(req, b) /\ \A a : a # b => r \notin OpenIn(req, a)
    BY <1>2 DEF OpenIn, At, InFlight
<1>7. ASSUME NEW a \in Agents
      PROVE  /\ IsFiniteSet(OpenIn(req, a)) /\ IsFiniteSet(OpenIn(req', a))
             /\ IF a = b THEN Cardinality(OpenIn(req, a)) = Cardinality(OpenIn(req', a)) + 1
                ELSE Cardinality(OpenIn(req', a)) <= Cardinality(OpenIn(req, a))
             /\ Cardinality(OpenIn(req', a)) <= MaxInFlight
    <2> DEFINE T == OpenIn(req, a)
    <2>1. IsFiniteSet(T) /\ Cardinality(T) <= MaxInFlight /\ MaxInFlight \in Nat
        BY Constants, Zenon DEF RoomInv
    <2>2. r \in T <=> a = b
        BY <1>6
    <2>3. OpenIn(req', a) = T \ {r}
        BY <1>5
    <2> HIDE DEF T
    <2>4. /\ IsFiniteSet(T \ {r})
          /\ Cardinality(T \ {r}) = IF r \in T THEN Cardinality(T) - 1 ELSE Cardinality(T)
        BY <2>1, FS_RemoveElement
    <2>5. Cardinality(T) \in Nat /\ Cardinality(T \ {r}) \in Nat
        BY <2>1, <2>4, FS_CardinalityType
    <2>6. /\ IF r \in T THEN Cardinality(T) = Cardinality(T \ {r}) + 1
             ELSE Cardinality(T \ {r}) <= Cardinality(T)
          /\ Cardinality(T \ {r}) <= MaxInFlight
        BY ONLY <2>1, <2>4, <2>5
    <2> QED
        BY <2>1, <2>2, <2>3, <2>4, <2>6 DEF T
<1>8. ASSUME NEW a \in Agents, NEW d
      PROVE  Spent(records', a, now' - (now' % d)) <=
                 IF a = b THEN Spent(records, a, now - (now % d)) + Max(Costs)
                 ELSE Spent(records, a, now - (now % d))
    <2> DEFINE from == now - (now % d)
               u == Spent(records, a, from)
               v == Spent(records', a, from)
    <2>1. u \in Nat /\ Max(Costs) \in Nat /\ \A c \in Costs : c \in Nat /\ c <= Max(Costs)
        BY <1>3, SpentType, MaxIs, Zenon
    <2>2. v = u \/ \E c \in Costs : v = u + IF a = b /\ now >= from THEN c ELSE 0
        <3>1. CASE y.cost = NoUsage /\ records' = records
            BY <3>1
        <3>2. CASE y.cost \in Costs
                   /\ records' = Append(records, [agent |-> req[r].agent, cost |-> y.cost, at |-> now])
            <4> DEFINE x == [agent |-> req[r].agent, cost |-> y.cost, at |-> now]
            <4>1. y.cost \in Nat
                BY <2>1, <3>2, Zenon
            <4>2. x \in CostRecord /\ x.agent = b /\ x.cost = y.cost /\ x.at = now
                BY <1>2, <1>3, <4>1 DEF CostRecord
            <4> HIDE DEF x, from
            <4>3. records' = Append(records, x)
                BY <3>2 DEF x
            <4>4. v = u + IF x.agent = a /\ x.at >= from THEN x.cost ELSE 0
                BY <1>3, <4>2, <4>3, SpentAppend
            <4>5. v = u + IF a = b /\ now >= from THEN y.cost ELSE 0
                BY <4>2, <4>4
            <4> QED
                BY <3>2, <4>5
        <3> QED
            BY <1>1, <3>1, <3>2
    <2>3. now' - (now' % d) = from
        BY <1>2
    <2> HIDE DEF u, v, from, b
    <2>4. v <= IF a = b THEN u + Max(Costs) ELSE u
        BY ONLY <2>1, <2>2
    <2> QED
        BY <2>3, <2>4 DEF u, v, from
<1>9. ASSUME NEW a \in Agents, NEW d \in Nat \ {0}, NEW limit, Within(req, records, now, a, d, limit)
      PROVE  Within(req', records', now', a, d, limit)
    <2>1. CASE a = b
        <3>1. /\ Cardinality(OpenIn(req, a)) = Cardinality(OpenIn(req', a)) + 1
              /\ Spent(records', a, now' - (now' % d)) <= Spent(records, a, now - (now % d)) + Max(Costs)
            BY <1>7, <1>8, <2>1
        <3> QED
            BY <1>3, <1>7, <1>9, <3>1, WithinKept, Zenon
    <2>2. CASE a # b
        <3>1. /\ Cardinality(OpenIn(req', a)) <= Cardinality(OpenIn(req, a))
              /\ Spent(records', a, now' - (now' % d)) <= Spent(records, a, now - (now % d))
            BY <1>7, <1>8, <2>2
        <3> QED
            BY <1>3, <1>7, <1>9, <3>1, WithinKept, Zenon
    <2> QED
        BY <2>1, <2>2
<1> QED
    BY <1>7, <1>9, Constants, Zenon DEF RoomInv

LEMMA NextRoom ==
    CostsBounded /\ RoomInv /\ CooldownInv /\ ChargeInv /\ ChargeInv' /\ [Next]_vars => RoomInv'
<1> SUFFICES ASSUME CostsBounded, RoomInv, CooldownInv, ChargeInv, ChargeInv', [Next]_vars
             PROVE  RoomInv'
    OBVIOUS
<1>1. now \in Nat /\ records \in Seq(CostRecord) /\ \A a, from : Spent(records, a, from) \in Nat
    <2>1. now \in Nat /\ records \in Seq(CostRecord)
        BY DEF CooldownInv, ChargeInv
    <2> QED
        BY <2>1, SpentType
<1>2. \A n \in Nat : n <= n /\ n + 1 \in Nat /\ 0 <= n
    BY ONLY TRUE
<1>3. CASE \E r \in Requests : Handle(r)
    <2>1. PICK r \in Requests : Handle(r)
        BY <1>3
    <2>2. CASE \E a \in Agents, k \in Keys : Arrive(r, a, k)
        BY <2>2, ArrivedRoom
    <2>3. CASE ResponseEnds(r)
        BY <2>3, EndedRoom
    <2>4. CASE \/ Refuse(r) \/ UploadAborts(r) \/ StopLoop(r) \/ Forward(r) \/ ResponseStarts(r)
               \/ ResponseErrors(r) \/ ConnectionFails(r) \/ TimesOut(r) \/ ClientLeaves(r)
        BY <2>4, HandlerMoves, MovedRoom
    <2> QED
        BY <2>1, <2>2, <2>3, <2>4 DEF Handle
<1>4. CASE Crash
    <2>1. /\ now' = now /\ records' = <<>>
          /\ req' = [r \in Requests |-> IF At(r, InFlight) THEN [req[r] EXCEPT !.pc = "gone"] ELSE req[r]]
        BY <1>4 DEF Crash
    <2>2. \A x \in Request : [x EXCEPT !.pc = "gone"].pc = "gone" /\ "gone" \notin InFlight
        BY DEF Request, InFlight
    <2>3. \A a \in Agents : OpenIn(req', a) \subseteq OpenIn(req, a)
        BY <2>1, <2>2 DEF OpenIn, At, CooldownInv
    <2>4. \A a, from : Spent(records', a, from) = 0
        BY <2>1, NothingSpent
    <2>5. \A a \in Agents, d \in Nat \ {0} :
              Spent(records', a, now' - (now' % d)) <= Spent(records, a, now - (now % d))
        BY <1>1, <1>2, <2>4, Zenon
    <2> QED
        BY <1>1, <2>1, <2>3, <2>5, Roomy, Zenon
<1>5. CASE Tick
    <2>1. now' = now + 1 /\ UNCHANGED <<records, req>>
        BY <1>5 DEF Tick
    <2>2. \A a \in Agents : OpenIn(req', a) \subseteq OpenIn(req, a)
        BY <2>1
    <2>3. ASSUME NEW a \in Agents, NEW d \in Nat \ {0}
          PROVE  Spent(records', a, now' - (now' % d)) <= Spent(records, a, now - (now % d))
        <3>1. /\ now - (now % d) \in Nat /\ (now + 1) - ((now + 1) % d) \in Nat
              /\ now - (now % d) <= (now + 1) - ((now + 1) % d)
            BY <1>1, StartLater, Zenon
        <3>2. Spent(records, a, (now + 1) - ((now + 1) % d)) <= Spent(records, a, now - (now % d))
            BY <1>1, <3>1, SpentLater, Zenon
        <3> QED
            BY <2>1, <3>2, Zenon
    <2> QED
        BY <1>1, <1>2, <2>1, <2>2, <2>3, Roomy, Zenon
<1>6. CASE (\E a \in Agents : Unblock(a)) \/ SweepBlocked \/ UNCHANGED vars
    <2>1. UNCHANGED <<now, records, req>>
        BY <1>6 DEF Unblock, SweepBlocked, vars
    <2> QED
        BY <1>1, <1>2, <2>1, Roomy, Zenon
<1> QED
    BY <1>3, <1>4, <1>5, <1>6 DEF Next

\* The spend of an agent with a hard limit never passes it by more than its requests in
\* flight may cost: for any number of requests and agents, any limits and bounded costs,
\* over the ends of days and months, broken responses and restarts.
THEOREM OvershootBounded == CostsBounded => (Spec => []BoundedOvershoot)
<1> SUFFICES ASSUME CostsBounded PROVE Spec => []BoundedOvershoot
    OBVIOUS
<1>1. Init => RoomInv
    BY InitRoom
<1>2. RoomInv /\ CooldownInv /\ ChargeInv /\ ChargeInv' /\ [Next]_vars => RoomInv'
    BY NextRoom
<1>3. RoomInv /\ ChargeInv => BoundedOvershoot
    <2> SUFFICES ASSUME RoomInv, ChargeInv PROVE BoundedOvershoot
        OBVIOUS
    <2>1. ASSUME NEW a \in Hard, NEW d, NEW limit \in Nat \ {0}, NEW from,
                 from = now - (now % d), Within(req, records, now, a, d, limit)
          PROVE  Spent(records, a, from) < limit + Overshoot
        <3>1. records \in Seq(CostRecord)
            BY DEF ChargeInv
        <3>2. Spent(records, a, from) \in Nat
            BY <3>1, SpentType
        <3>3. a \in Agents /\ MaxInFlight \in Nat
            BY Constants, Zenon
        <3>4. IsFiniteSet(OpenIn(req, a))
            BY <3>3 DEF RoomInv
        <3>5. Cardinality(OpenIn(req, a)) \in Nat
            BY <3>4, FS_CardinalityType
        <3>6. Spent(records, a, from) + Cardinality(OpenIn(req, a)) * Max(Costs)
                  < limit + MaxInFlight * Max(Costs)
            BY <2>1, Zenon DEF Within
        <3>7. limit \in Nat /\ Max(Costs) \in Nat
            BY MaxIs, Zenon
        <3>8. Spent(records, a, from) < limit + MaxInFlight * Max(Costs)
            BY <3>2, <3>3, <3>5, <3>6, <3>7, Roomier, Zenon
        <3> QED
            BY <3>8, Zenon DEF Overshoot
    <2>2. \A a : /\ DailySpend(a) = Spent(records, a, now - (now % Day))
                 /\ MonthlySpend(a) = Spent(records, a, now - (now % Month))
        BY SpendIsSum, Zenon DEF DailySpend, MonthlySpend, DayStart, MonthStart
    <2> QED
        BY <2>1, <2>2, Zenon DEF BoundedOvershoot, RoomInv
<1> QED
    BY <1>1, <1>2, <1>3, CooldownInvariant, ChargesInvariant, PTL DEF Spec

-----------------------------------------------------------------------------
(* The verdict of the loop detector.                                         *)

\* The times, and the attempts of an agent with a key, less than a window old at u.
Younger(a, u) == {t \in Nat : t + Window[a] > u}

Alike(a, k, u) == {x \in Attempt : x.agent = a /\ x.key = k /\ x.at + Window[a] > u}

\* A window may have forgotten attempts, but none that is still young, now or later.
Remembered(w, s) ==
    \A a \in Agents, k \in Keys, u \in Nat :
        u >= now => Cardinality(Where(w[a][k], Younger(a, u))) = Cardinality(Where(s, Alike(a, k, u)))

LoopInv ==
    /\ WindowsTypeOK
    /\ Remembered(windows, attempts)
    /\ LoopVerdict

LEMMA LoopConstants ==
    \A a \in Agents : Window[a] \in Nat /\ Threshold[a] \in Nat
BY Zenon

LEMMA InitLoops == windows = NoWindows /\ attempts = <<>> => LoopInv
<1> SUFFICES ASSUME windows = NoWindows, attempts = <<>> PROVE LoopInv
    OBVIOUS
<1>1. WindowsTypeOK
    BY DEF WindowsTypeOK, NoWindows
<1>2. \A L : Where(<<>>, L) = {}
    BY DEF Where
<1>3. Remembered(windows, attempts)
    BY <1>2 DEF Remembered, NoWindows
<1>4. LoopVerdict
    BY DEF LoopVerdict
<1> QED
    BY <1>1, <1>3, <1>4 DEF LoopInv

\* Nothing is recorded, and no attempt but for its pardon changes.
LEMMA QuietLoops ==
    ASSUME LoopInv, CooldownInv, windows' = windows, now' \in Nat, now' >= now,
           attempts' \in Seq(Attempt), DOMAIN attempts' = DOMAIN attempts,
           \A n \in DOMAIN attempts :
               /\ attempts'[n].agent = attempts[n].agent /\ attempts'[n].key = attempts[n].key
               /\ attempts'[n].at = attempts[n].at
               /\ attempts'[n].verdict = "passed" <=> attempts[n].verdict = "passed"
    PROVE  LoopInv'
<1>1. attempts \in Seq(Attempt) /\ now \in Nat
    BY DEF CooldownInv
<1>2. \A n \in DOMAIN attempts : attempts[n] \in Attempt /\ attempts'[n] \in Attempt
    BY <1>1
<1>3. \A a, k, u : Where(attempts', Alike(a, k, u)) = Where(attempts, Alike(a, k, u))
    BY <1>2 DEF Where, Alike
<1>4. \A u \in Nat : u >= now' => u >= now
    BY ONLY now' \in Nat, now' >= now, <1>1
<1>5. Remembered(windows, attempts)'
    <2> SUFFICES ASSUME NEW a \in Agents, NEW k \in Keys, NEW u \in Nat, u >= now'
                 PROVE  Cardinality(Where(windows'[a][k], Younger(a, u)))
                            = Cardinality(Where(attempts', Alike(a, k, u)))
        BY Zenon DEF Remembered
    <2>1. Cardinality(Where(windows[a][k], Younger(a, u))) = Cardinality(Where(attempts, Alike(a, k, u)))
        BY <1>4, Zenon DEF Remembered, LoopInv
    <2> QED
        BY <1>3, <2>1
<1>6. Len(attempts) \in Nat /\ DOMAIN attempts = 1..Len(attempts)
    BY <1>1
<1>7. \A n \in DOMAIN attempts : \A m \in 1..n : m \in DOMAIN attempts
    BY ONLY <1>6
<1>8. \A n \in DOMAIN attempts : Identical(n)' = Identical(n)
    BY <1>7, ZenonT(30) DEF Identical
<1>9. LoopVerdict'
    BY <1>8, Zenon DEF LoopVerdict, LoopInv
<1> QED
    BY <1>5, <1>9 DEF LoopInv, WindowsTypeOK

\* The windows after an attempt, and how many attempts it makes.
LEMMA RecordedIs ==
    ASSUME LoopInv, CooldownInv, NEW a \in Agents, NEW k \in Keys,
           NEW x \in Attempt, x.agent = a, x.key = k, x.at = now, attempts' = Append(attempts, x)
    PROVE  /\ Recorded(a, k, now) \in Seq(Nat)
           /\ \A u \in Nat : u >= now =>
                 Cardinality(Where(Recorded(a, k, now), Younger(a, u)))
                     = Cardinality(Where(attempts', Alike(a, k, u)))
           /\ Len(Recorded(a, k, now)) = Cardinality(Where(attempts', Alike(a, k, now)))
<1> DEFINE w == windows[a][k]
           s == Append(w, now)
<1>1. w \in Seq(Nat) /\ now \in Nat /\ attempts \in Seq(Attempt) /\ Window[a] \in Nat
    <2>1. windows \in [Agents -> [Keys -> Seq(Nat)]]
        BY DEF LoopInv, WindowsTypeOK
    <2>2. w \in Seq(Nat)
        BY <2>1
    <2> QED
        BY <2>2, LoopConstants DEF CooldownInv
<1> HIDE DEF w
<1>2. s \in Seq(Nat)
    BY <1>1, WhereAppend
<1>3. \A u \in Nat : now \in Younger(a, u) <=> x \in Alike(a, k, u)
    BY <1>1, Zenon DEF Younger, Alike
<1>4. \A u \in Nat : u >= now => Cardinality(Where(w, Younger(a, u))) = Cardinality(Where(attempts, Alike(a, k, u)))
    BY Zenon DEF LoopInv, Remembered, w
<1>5. \A u \in Nat : u >= now =>
          Cardinality(Where(s, Younger(a, u))) = Cardinality(Where(attempts', Alike(a, k, u)))
    <2> SUFFICES ASSUME NEW u \in Nat, u >= now
                 PROVE  Cardinality(Where(s, Younger(a, u))) = Cardinality(Where(attempts', Alike(a, k, u)))
        OBVIOUS
    <2>1. Cardinality(Where(s, Younger(a, u))) =
              Cardinality(Where(w, Younger(a, u))) + IF now \in Younger(a, u) THEN 1 ELSE 0
        BY ONLY <1>1, WhereAppend
    <2>2. Cardinality(Where(attempts', Alike(a, k, u))) =
              Cardinality(Where(attempts, Alike(a, k, u))) + IF x \in Alike(a, k, u) THEN 1 ELSE 0
        BY <1>1, WhereAppend
    <2> QED
        BY <1>3, <1>4, <2>1, <2>2, Zenon
<1>6. Recorded(a, k, now) = Filtered(s, Where(s, Younger(a, now)))
    <2>1. {i \in DOMAIN s : s[i] + Window[a] > now} = Where(s, Younger(a, now))
        <3>1. \A i \in DOMAIN s : s[i] \in Nat
            BY <1>2
        <3> QED
            BY <3>1 DEF Where, Younger
    <2> QED
        BY <2>1, Zenon DEF Recorded, s, w
<1> HIDE DEF s
<1>7. \A u \in Nat : u >= now => Younger(a, u) \subseteq Younger(a, now)
    <2>1. \A u, t \in Nat : u >= now /\ t + Window[a] > u => t + Window[a] > now
        BY ONLY <1>1
    <2> QED
        BY <2>1, Zenon DEF Younger
<1>8. /\ Recorded(a, k, now) \in Seq(Nat)
      /\ Len(Recorded(a, k, now)) = Cardinality(Where(s, Younger(a, now)))
      /\ \A u \in Nat : u >= now =>
            Cardinality(Where(Recorded(a, k, now), Younger(a, u))) = Cardinality(Where(s, Younger(a, u)))
    <2> DEFINE K == Younger(a, now)
    <2> HIDE DEF K
    <2>1. ASSUME NEW L \in SUBSET K
          PROVE  /\ Filtered(s, Where(s, K)) \in Seq(Nat)
                 /\ Len(Filtered(s, Where(s, K))) = Cardinality(Where(s, K))
                 /\ Cardinality(Where(Filtered(s, Where(s, K)), L)) = Cardinality(Where(s, L))
        BY ONLY <1>2, L \in SUBSET K, WhereFiltered
    <2>2. K \in SUBSET K
        OBVIOUS
    <2> QED
        BY <1>6, <1>7, <2>1, <2>2 DEF K
<1>9. now >= now
    BY ONLY <1>1
<1> QED
    BY <1>1, <1>5, <1>8, <1>9, Zenon

LEMMA AttemptLoops ==
    ASSUME LoopInv, CooldownInv, CooldownInv', UNCHANGED now,
           NEW r \in Requests, At(r, {"body"}), NEW verdict \in {"passed", "looping"},
           Attempted(r, verdict),
           verdict # "passed" <=> IsLooping(req[r].agent, req[r].key, now)
    PROVE  LoopInv'
<1> DEFINE a == req[r].agent
           k == req[r].key
           x == [agent |-> a, key |-> k, at |-> now, verdict |-> verdict]
<1>1. a \in Agents /\ k \in Keys /\ now \in Nat /\ attempts \in Seq(Attempt) /\ attempts' \in Seq(Attempt)
    BY DEF CooldownInv, At
<1>2. x \in Attempt /\ x.agent = a /\ x.key = k /\ x.at = now /\ x.verdict = verdict
    BY <1>1 DEF Attempt
<1>3. attempts' = Append(attempts, x) /\ windows' = [windows EXCEPT ![a][k] = Recorded(a, k, now)]
    BY DEF Attempted, RecordRequest
<1>4. verdict # "passed" <=> Len(Recorded(a, k, now)) >= Threshold[a]
    BY DEF IsLooping
<1> HIDE DEF a, k, x
<1> PICK n \in Nat : n = Len(attempts) + 1
    BY <1>1
<1>5. /\ Recorded(a, k, now) \in Seq(Nat)
      /\ \A u \in Nat : u >= now =>
            Cardinality(Where(Recorded(a, k, now), Younger(a, u)))
                = Cardinality(Where(attempts', Alike(a, k, u)))
      /\ Len(Recorded(a, k, now)) = Cardinality(Where(attempts', Alike(a, k, now)))
    BY <1>1, <1>2, <1>3, RecordedIs
<1>6. windows \in [Agents -> [Keys -> Seq(Nat)]]
    BY DEF LoopInv, WindowsTypeOK
<1>7. WindowsTypeOK'
    BY <1>1, <1>3, <1>5, <1>6 DEF WindowsTypeOK
<1>8. \A b \in Agents, l \in Keys :
          windows'[b][l] = IF b = a /\ l = k THEN Recorded(a, k, now) ELSE windows[b][l]
    BY <1>1, <1>3, <1>6
<1>9. Remembered(windows, attempts)'
    <2> SUFFICES ASSUME NEW b \in Agents, NEW l \in Keys, NEW u \in Nat, u >= now'
                 PROVE  Cardinality(Where(windows'[b][l], Younger(b, u)))
                            = Cardinality(Where(attempts', Alike(b, l, u)))
        BY Zenon DEF Remembered
    <2>1. CASE b = a /\ l = k
        BY <1>5, <1>8, <2>1
    <2>2. CASE ~(b = a /\ l = k)
        <3>1. x \notin Alike(b, l, u)
            BY <1>2, <2>2 DEF Alike
        <3>2. Where(attempts', Alike(b, l, u)) = Where(attempts, Alike(b, l, u))
            BY <1>1, <1>2, <1>3, <3>1, WhereAppend
        <3>3. windows'[b][l] = windows[b][l]
            BY <1>8, <2>2
        <3> QED
            BY <3>2, <3>3, Zenon DEF LoopInv, Remembered
    <2> QED
        BY <2>1, <2>2
<1>10. /\ n \in Nat /\ n = Len(attempts) + 1
       /\ Len(attempts) \in Nat /\ DOMAIN attempts' = 1..n /\ DOMAIN attempts = 1..Len(attempts)
       /\ attempts'[n] = x /\ \A m \in 1..Len(attempts) : attempts'[m] = attempts[m]
    BY <1>1, <1>2, <1>3, AppendProperties
<1>11. Identical(n)' = Where(attempts', Alike(a, k, now))
    <2>1. \A m \in 1..n : attempts'[m] \in Attempt
        BY <1>1, <1>10
    <2> QED
        BY <1>2, <1>10, <2>1 DEF Identical, Where, Alike
<1>12. ASSUME NEW m \in DOMAIN attempts
       PROVE  attempts'[m] = attempts[m] /\ Identical(m)' = Identical(m)
    <2>1. m \in 1..Len(attempts) /\ \A i \in 1..m : i \in 1..Len(attempts)
        BY ONLY <1>10, m \in DOMAIN attempts
    <2>2. attempts'[m] = attempts[m] /\ \A i \in 1..m : attempts'[i] = attempts[i]
        BY <1>10, <2>1
    <2> QED
        BY <2>2, Zenon DEF Identical
<1>13. \A m \in DOMAIN attempts' : m \in DOMAIN attempts \/ m = n
    BY ONLY <1>10
<1>14. LoopVerdict'
    <2> SUFFICES ASSUME NEW m \in DOMAIN attempts'
                 PROVE  attempts'[m].verdict # "passed"
                            <=> Cardinality(Identical(m)') >= Threshold[attempts'[m].agent]
        BY Zenon DEF LoopVerdict
    <2>1. CASE m \in DOMAIN attempts
        BY <1>12, <2>1, Zenon DEF LoopInv, LoopVerdict
    <2>2. CASE m = n
        BY <1>2, <1>4, <1>5, <1>10, <1>11, <2>2, Zenon
    <2> QED
        BY <1>13, <2>1, <2>2
<1> QED
    BY <1>7, <1>9, <1>14 DEF LoopInv

LEMMA NextLoops == LoopInv /\ CooldownInv /\ CooldownInv' /\ [Next]_vars => LoopInv'
<1> SUFFICES ASSUME LoopInv, CooldownInv, CooldownInv', [Next]_vars
             PROVE  LoopInv'
    OBVIOUS
<1>1. now \in Nat /\ attempts \in Seq(Attempt) /\ attempts' \in Seq(Attempt)
    BY DEF CooldownInv
<1>2. \A n \in Nat : n >= n /\ n + 1 \in Nat /\ n + 1 >= n
    BY ONLY TRUE
<1>3. ASSUME NEW r \in Requests, StopLoop(r)
      PROVE  LoopInv'
    BY <1>3, AttemptLoops DEF StopLoop
<1>4. ASSUME NEW r \in Requests, Forward(r)
      PROVE  LoopInv'
    BY <1>4, AttemptLoops DEF Forward
<1>5. ASSUME UNCHANGED <<windows, attempts>>, now' = now \/ now' = now + 1
      PROVE  LoopInv'
    BY <1>1, <1>2, <1>5, QuietLoops
<1>6. CASE Crash
    <2>1. windows' = NoWindows /\ attempts' = <<>>
        BY <1>6 DEF Crash
    <2>2. (windows = NoWindows /\ attempts = <<>> => LoopInv)'
        BY InitLoops, PTL
    <2>3. NoWindows' = NoWindows
        BY DEF NoWindows
    <2> QED
        BY <2>1, <2>2, <2>3
<1>7. CASE \E a \in Agents : Unblock(a)
    <2>1. PICK a \in Agents : Unblock(a)
        BY <1>7
    <2>2. /\ windows' = windows /\ now' = now
          /\ attempts' = [n \in DOMAIN attempts |->
                      IF attempts[n].agent = a /\ attempts[n].verdict = "looping"
                      THEN [attempts[n] EXCEPT !.verdict = "pardoned"] ELSE attempts[n]]
        BY <2>1 DEF Unblock
    <2>3. \A n \in DOMAIN attempts : attempts[n] \in Attempt
        BY <1>1
    <2>4. /\ DOMAIN attempts' = DOMAIN attempts
          /\ \A n \in DOMAIN attempts :
               /\ attempts'[n].agent = attempts[n].agent /\ attempts'[n].key = attempts[n].key
               /\ attempts'[n].at = attempts[n].at
               /\ attempts'[n].verdict = "passed" <=> attempts[n].verdict = "passed"
        BY <2>2, <2>3 DEF Attempt
    <2> QED
        BY <1>1, <1>2, <2>2, <2>4, QuietLoops
<1>8. CASE SweepBlocked \/ Tick \/ UNCHANGED vars
    <2>1. UNCHANGED <<windows, attempts>> /\ (now' = now \/ now' = now + 1)
        BY <1>8 DEF SweepBlocked, Tick, vars
    <2> QED
        BY <1>5, <2>1
<1>9. CASE \E r \in Requests : Handle(r)
    <2>1. PICK r \in Requests : Handle(r)
        BY <1>9
    <2>2. CASE ~(StopLoop(r) \/ Forward(r))
        <3>1. UNCHANGED <<windows, attempts, now>>
            BY <2>1, <2>2 DEF Handle, Arrive, Refuse, UploadAborts, ResponseStarts, ResponseErrors,
                              ResponseEnds, ConnectionFails, TimesOut, ClientLeaves
        <3> QED
            BY <1>5, <3>1
    <2> QED
        BY <1>3, <1>4, <2>2
<1> QED
    BY <1>6, <1>7, <1>8, <1>9 DEF Next

\* An attempt is stopped as a loop exactly when it and the earlier ones of its agent with
\* its key, less than a window old, reach the threshold: what recordRequest forgets at
\* each attempt was never needed again, for any agents, keys, windows and thresholds.
THEOREM LoopsCounted == Spec => []LoopVerdict
<1>1. Init => LoopInv
    BY InitLoops DEF Init
<1>2. LoopInv => LoopVerdict
    BY DEF LoopInv
<1> QED
    BY <1>1, <1>2, NextLoops, CooldownInvariant, PTL DEF Spec

\* Every variable of the pipeline has its type.
THEOREM PipelineTyped == Spec => []TypeOK
<1>1. CooldownInv /\ ChargeInv /\ LoopInv => TypeOK
    BY DEF CooldownInv, ChargeInv, LoopInv, TypeOK, BudgetsTypeOK
<1>2. Init => LoopInv
    BY InitLoops DEF Init
<1> QED
    BY <1>1, <1>2, NextLoops, CooldownInvariant, ChargesInvariant, PTL DEF Spec
=============================================================================

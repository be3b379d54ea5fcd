---------------------------- MODULE PolicyProofs ----------------------------
(***************************************************************************)
(* Proofs about the policies, for any names, submissions and drafts: hours *)
(* and routes, the types, the uniqueness of names in force, that a change  *)
(* which the watch could see and which is not in force is still on its     *)
(* way, that a call keeps file and engine in step, and the rate limits.    *)
(***************************************************************************)
EXTENDS PolicyStore, FiniteSetTheorems, SequenceTheorems, WellFoundedInduction, TLAPS

USE RuleConstants

-----------------------------------------------------------------------------
(* Hours.                                                                    *)

\* A window and the one with start and end exchanged part the day between them, whichever
\* of the two goes over midnight: a policy that allows the one denies what a policy
\* that denies the other denies.
THEOREM WindowsPartTheDay ==
    ASSUME NEW start \in Nat, NEW end \in Nat, start # end, NEW minute \in Nat
    PROVE  Within(start, end, minute) <=> ~Within(end, start, minute)
    BY DEF Within

\* A window from a minute to the same minute is the whole day, as a rule with no
\* time_of_day has it.
THEOREM WholeDay ==
    ASSUME NEW start \in Nat, NEW minute \in Nat
    PROVE  Within(start, start, minute)
    BY DEF Within

-----------------------------------------------------------------------------
(* Routes.                                                                   *)

\* A set of numbers has a least one.
LEMMA Least ==
    ASSUME NEW S \in SUBSET Nat, S # {}
    PROVE  \E i \in S : \A j \in S : i <= j
<1> DEFINE R == {ss \in Nat \X Nat : ss[1] < ss[2]}
<1>1. IsWellFoundedOn(R, Nat)
    BY NatLessThanWellFounded DEF OpToRel
<1>2. \E i \in S : \A j \in S : ~(<<j, i>> \in R)
  <2> HIDE DEF R
  <2> QED
    BY <1>1, WFMin
<1>3. PICK i \in S : \A j \in S : ~(<<j, i>> \in R)
    BY <1>2
<1>4. ASSUME NEW j \in S PROVE i <= j
  <2>1. i \in Nat /\ j \in Nat
    OBVIOUS
  <2>2. <<j, i>> \in Nat \X Nat /\ <<j, i>>[1] = j /\ <<j, i>>[2] = i
    BY <2>1
  <2>3. ~(j < i)
    BY <1>3, <2>2
  <2> QED
    BY <2>1, <2>3
<1> QED
    BY <1>4

LEMMA FirstOfLeast ==
    ASSUME NEW S \in SUBSET Nat, S # {}
    PROVE  FirstOf(S) \in S /\ \A j \in S : FirstOf(S) <= j
    BY Least DEF FirstOf

LEMMA ElementType ==
    ASSUME NEW S, NEW s \in Seq(S), NEW i \in DOMAIN s
    PROVE  s[i] \in S
    OBVIOUS

\* A name that is resolved is a name.
LEMMA ResolvedType ==
    ASSUME NEW t \in RouteTerms, NEW name \in Models
    PROVE  Resolved(t, name) \in Models
<1>1. CASE Aliases(t, name) = {}
    BY <1>1 DEF Resolved
<1>2. CASE Aliases(t, name) # {}
    <2> DEFINE i == CHOOSE i \in Aliases(t, name) : TRUE
    <2>1. i \in DOMAIN t.aliases
        BY <1>2 DEF Aliases
    <2>2. t.aliases \in Seq([alias : Models, model : Models])
        BY DEF RouteTerms
    <2>3. t.aliases[i] \in [alias : Models, model : Models]
        <3> HIDE DEF i
        <3> QED
            BY <2>1, <2>2, ElementType
    <2> QED
        BY <1>2, <2>3 DEF Resolved
<1> QED
    BY <1>1, <1>2

LEMMA RouteToType ==
    ASSUME NEW t \in RouteTerms, NEW r, NEW minute
    PROVE  RouteTo(t, r, minute) \in Models
<1> DEFINE D == Deciding(t, r, minute)
           rule == t.rules[FirstOf(D)]
<1>1. CASE r.agent \in t.optOut \/ D = {} \/ rule.passthrough
    BY <1>1 DEF RouteTo
<1>2. CASE ~(r.agent \in t.optOut \/ D = {} \/ rule.passthrough)
    <2>1. t.rules \in Seq(Rule)
        BY DEF RouteTerms
    <2>2. D \in SUBSET Nat /\ D \subseteq DOMAIN t.rules
        BY <2>1 DEF Deciding
    <2>3. FirstOf(D) \in DOMAIN t.rules
        <3> HIDE DEF D
        <3> QED
            BY <1>2, <2>2, FirstOfLeast
    <2>4. rule \in Rule
        <3> HIDE DEF D
        <3> QED
            BY <2>1, <2>3
    <2>5. rule.to \in Models
        BY <2>4 DEF Rule
    <2>6. Resolved(t, rule.to) \in Models
        BY <2>5, ResolvedType
    <2> QED
        BY <1>2, <2>6 DEF RouteTo
<1> QED
    BY <1>1, <1>2

\* A request that a policy routes elsewhere is of an agent that has not opted out, by a
\* rule that matches and does not go below the tier of max_downgrade_level; and each
\* rule before it does not match, or would have gone below the tier.
THEOREM FirstRuleAboveTier ==
    ASSUME NEW t \in RouteTerms, NEW r \in Context, NEW minute \in Nat,
           RouteTo(t, r, minute) # NoModel
    PROVE  /\ r.agent \notin t.optOut
           /\ \E i \in DOMAIN t.rules :
                 /\ RouteTo(t, r, minute) = Resolved(t, t.rules[i].to)
                 /\ Matches(t.rules[i], r, minute) /\ ~BelowTier(t, t.rules[i].to)
                 /\ \A j \in DOMAIN t.rules : j < i =>
                        /\ ~t.rules[j].passthrough
                        /\ Matches(t.rules[j], r, minute) => BelowTier(t, t.rules[j].to)
<1> DEFINE D == Deciding(t, r, minute)
           i == FirstOf(D)
<1>1. r.agent \notin t.optOut /\ D # {} /\ ~t.rules[i].passthrough
    BY DEF RouteTo
<1>2. t.rules \in Seq(Rule)
    BY DEF RouteTerms
<1>3. D \in SUBSET Nat
    BY <1>2 DEF Deciding
<1>4. i \in D /\ \A j \in D : i <= j
    <2> HIDE DEF D
    <2> QED
        BY <1>1, <1>3, FirstOfLeast
<1>5. /\ i \in DOMAIN t.rules
      /\ Matches(t.rules[i], r, minute) /\ ~BelowTier(t, t.rules[i].to)
    BY <1>1, <1>4 DEF Deciding
<1>6. RouteTo(t, r, minute) = Resolved(t, t.rules[i].to)
    BY <1>1 DEF RouteTo
<1>7. ASSUME NEW j \in DOMAIN t.rules, j < i
      PROVE  /\ ~t.rules[j].passthrough
             /\ Matches(t.rules[j], r, minute) => BelowTier(t, t.rules[j].to)
    <2>1. j \in Nat /\ i \in Nat
        BY <1>2, <1>3, <1>4
    <2>2. j \notin D
        <3> HIDE DEF D, i
        <3> QED
            BY <1>4, <1>7, <2>1
    <2> QED
        BY <2>2 DEF Deciding
<1> QED
    <2> HIDE DEF i, D
    <2> QED
        BY <1>1, <1>5, <1>6, <1>7

-----------------------------------------------------------------------------
(* Rate limits.                                                              *)

\* The evaluations from m on that the limit n let go on.
Through(n, a, m) ==
    {i \in DOMAIN seen : /\ seen[i].agent = a /\ n \in seen[i].under /\ seen[i].at >= m
                         /\ seen[i].verdict \in {"held", "passed"}}

\* A window is in the order of the clock.
Ordered(w) ==
    /\ \A i \in DOMAIN w : w[i] <= now
    /\ \A i, j \in DOMAIN w : i <= j => w[i] <= w[j]

\* The last c entries of a window, if it has as many, are from m on.
Has(w, c, m) == c <= Len(w) /\ (c > 0 => w[Len(w) - c + 1] >= m)

\* A window holds an entry for everything it let go on that is not yet too old to count.
Covered ==
    \A n \in Names, a \in Agents, m \in Nat :
        m + Window > now => Has(windows[n][a], Cardinality(Through(n, a, m)), m)

RateInv ==
    /\ \A i \in DOMAIN seen : seen[i].at <= now
    /\ \A n \in Names, a \in Agents : Ordered(windows[n][a])
    /\ Covered
    /\ RateHeld

LEMMA LimitsType == Limit \in Nat /\ Window \in Nat /\ Window > 0
    BY EngineConstants

LEMMA ThroughType ==
    ASSUME EngineTypeOK, NEW n, NEW a, NEW m
    PROVE  /\ IsFiniteSet(Through(n, a, m)) /\ Cardinality(Through(n, a, m)) \in Nat
           /\ Through(n, a, m) \in SUBSET (1..Len(seen)) /\ Len(seen) \in Nat
<1>1. Len(seen) \in Nat /\ Through(n, a, m) \in SUBSET (1..Len(seen))
    BY DEF EngineTypeOK, Through
<1>2. IsFiniteSet(1..Len(seen))
    BY <1>1, FS_Interval
<1> QED
    BY <1>1, <1>2, FS_Subset, FS_CardinalityType

LEMMA SeenType ==
    ASSUME EngineTypeOK, RateInv
    PROVE  \A i \in DOMAIN seen : seen[i].at \in Nat /\ seen[i].at <= now
<1>1. ASSUME NEW i \in DOMAIN seen
      PROVE  seen[i].at \in Nat
    <2> DEFINE S == [at : Nat, agent : Agents, model : Models,
                     verdict : {"failed", "denied", "held", "passed"}, under : SUBSET Names]
    <2>1. seen[i] \in S
        <3>1. seen \in Seq(S)
            BY DEF EngineTypeOK
        <3> HIDE DEF S
        <3> QED
            BY <3>1, ElementType
    <2> QED
        BY <2>1
<1> QED
    BY <1>1 DEF RateInv

\* The clock puts the entries that are shifted out before those that are not.
LEMMA ShiftedOut ==
    ASSUME now \in Nat, NEW w \in Seq(Nat), Ordered(w), NEW k \in DOMAIN w, w[k] + Window > now
    PROVE  Cardinality({i \in DOMAIN w : w[i] + Window <= now}) <= k - 1
<1> DEFINE expired == {i \in DOMAIN w : w[i] + Window <= now}
<1>1. k \in Nat /\ k > 0 /\ Len(w) \in Nat /\ DOMAIN w = 1..Len(w)
    OBVIOUS
<1>2. \A i \in DOMAIN w : w[i] \in Nat
    OBVIOUS
<1>3. ASSUME NEW i \in expired
      PROVE  i < k
    <2>1. i \in DOMAIN w /\ w[i] \in Nat /\ w[k] \in Nat /\ w[i] + Window <= now
        BY <1>2
    <2>2. k <= i => w[k] <= w[i]
        BY <2>1 DEF Ordered
    <2>3. ~(w[k] <= w[i])
        BY <2>1, LimitsType
    <2> QED
        BY <1>1, <2>1, <2>2, <2>3
<1>4. expired \subseteq 1..(k - 1)
    BY <1>1, <1>3
<1>5. IsFiniteSet(1..(k - 1)) /\ Cardinality(1..(k - 1)) = k - 1
    <2>1. k - 1 \in Nat /\ (1 > k - 1 => k - 1 = 0) /\ (k - 1) - 1 + 1 = k - 1
        BY <1>1
    <2> QED
        BY <2>1, FS_Interval
<1> HIDE DEF expired
<1>6. Cardinality(expired) <= k - 1
    BY <1>4, <1>5, FS_Subset
<1> QED
    BY <1>6 DEF expired

\* What Counted leaves of a window.
LEMMA CountedIs ==
    ASSUME now \in Nat, NEW w \in Seq(Nat)
    PROVE  \E e \in 0..Len(w) :
               /\ e = Cardinality({i \in DOMAIN w : w[i] + Window <= now})
               /\ Counted(w) \in Seq(Nat) /\ Len(Counted(w)) = Len(w) - e + 1
               /\ \A k \in 1..(Len(w) - e) : Counted(w)[k] = w[k + e]
               /\ Counted(w)[Len(w) - e + 1] = now
<1> DEFINE expired == {i \in DOMAIN w : w[i] + Window <= now}
           e == Cardinality(expired)
<1>1. expired \in SUBSET (1..Len(w)) /\ Len(w) \in Nat
    OBVIOUS
<1>2. IsFiniteSet(1..Len(w)) /\ Cardinality(1..Len(w)) = Len(w)
    <2>1. (1 > Len(w) => Len(w) = 0) /\ Len(w) - 1 + 1 = Len(w)
        BY <1>1
    <2> QED
        BY <1>1, <2>1, FS_Interval, SMTT(30)
<1>3. e \in 0..Len(w)
    <2>1. IsFiniteSet(expired) /\ e <= Len(w)
        <3> HIDE DEF expired
        <3> QED
            BY <1>1, <1>2, FS_Subset
    <2> QED
        BY <1>1, <2>1, FS_CardinalityType
<1> DEFINE rest == SubSeq(w, e + 1, Len(w))
<1>4. Counted(w) = Append(rest, now)
    BY DEF Counted
<1> HIDE DEF expired, e
<1>5. rest \in Seq(Nat) /\ Len(rest) = Len(w) - e /\ \A k \in 1..(Len(w) - e) : rest[k] = w[k + e]
    <2>1. e + 1 \in Nat \ {0} /\ \A i \in (e + 1)..Len(w) : w[i] \in Nat
        BY <1>1, <1>3
    <2>2. /\ rest \in Seq(Nat)
          /\ Len(rest) = IF e + 1 <= Len(w) THEN Len(w) - (e + 1) + 1 ELSE 0
          /\ \A k \in 1..(Len(w) - (e + 1) + 1) : rest[k] = w[(e + 1) + k - 1]
        BY <1>1, <2>1, SubSeqProperties
    <2>3. Len(rest) = Len(w) - e
        BY <1>1, <1>3, <2>2
    <2>4. \A k \in 1..(Len(w) - e) : rest[k] = w[k + e]
        BY <1>1, <1>3, <2>2
    <2> QED
        BY <2>2, <2>3, <2>4
<1> HIDE DEF rest
<1>6. /\ Append(rest, now) \in Seq(Nat) /\ Len(Append(rest, now)) = Len(rest) + 1
      /\ \A k \in 1..Len(rest) : Append(rest, now)[k] = rest[k]
      /\ Append(rest, now)[Len(rest) + 1] = now
    BY <1>5, AppendProperties
<1>7. /\ Counted(w) \in Seq(Nat) /\ Len(Counted(w)) = Len(w) - e + 1
      /\ \A k \in 1..(Len(w) - e) : Counted(w)[k] = w[k + e]
      /\ Counted(w)[Len(w) - e + 1] = now
    BY <1>4, <1>5, <1>6
<1> QED
    BY <1>3, <1>7 DEF e, expired

LEMMA CountedOrdered ==
    ASSUME now \in Nat, NEW w \in Seq(Nat), Ordered(w)
    PROVE  Ordered(Counted(w))
<1>1. PICK e \in 0..Len(w) :
          /\ Counted(w) \in Seq(Nat) /\ Len(Counted(w)) = Len(w) - e + 1
          /\ \A k \in 1..(Len(w) - e) : Counted(w)[k] = w[k + e]
          /\ Counted(w)[Len(w) - e + 1] = now
    BY CountedIs
<1>2. Len(w) \in Nat /\ DOMAIN w = 1..Len(w) /\ DOMAIN Counted(w) = 1..(Len(w) - e + 1)
    BY <1>1
<1>3. ASSUME NEW i \in DOMAIN Counted(w)
      PROVE  Counted(w)[i] <= now
    <2>1. CASE i = Len(w) - e + 1
        BY <1>1, <2>1
    <2>2. CASE i \in 1..(Len(w) - e)
        <3>1. i + e \in DOMAIN w
            BY <1>2, <2>2
        <3> QED
            BY <1>1, <2>2, <3>1 DEF Ordered
    <2> QED
        BY <1>2, <2>1, <2>2
<1>4. ASSUME NEW i \in DOMAIN Counted(w), NEW j \in DOMAIN Counted(w), i <= j
      PROVE  Counted(w)[i] <= Counted(w)[j]
    <2>1. CASE j = Len(w) - e + 1
        BY <1>1, <1>3, <2>1
    <2>2. CASE j \in 1..(Len(w) - e)
        <3>1. i \in 1..(Len(w) - e) /\ i + e \in DOMAIN w /\ j + e \in DOMAIN w /\ i + e <= j + e
            BY <1>2, <1>4, <2>2, SMTT(30)
        <3> QED
            BY <1>1, <2>2, <3>1 DEF Ordered
    <2> QED
        BY <1>2, <2>1, <2>2
<1> QED
    BY <1>3, <1>4 DEF Ordered

\* A window that counted one more has room for one more.
LEMMA CountedHas ==
    ASSUME now \in Nat, NEW w \in Seq(Nat), Ordered(w), NEW m \in Nat, m + Window > now,
           NEW c \in Nat, Has(w, c, m), c > 0 => m <= now
    PROVE  /\ Has(Counted(w), c, m)
           /\ m <= now => Has(Counted(w), c + 1, m)
<1>1. PICK e \in 0..Len(w) :
          /\ e = Cardinality({i \in DOMAIN w : w[i] + Window <= now})
          /\ Counted(w) \in Seq(Nat) /\ Len(Counted(w)) = Len(w) - e + 1
          /\ \A k \in 1..(Len(w) - e) : Counted(w)[k] = w[k + e]
          /\ Counted(w)[Len(w) - e + 1] = now
    BY CountedIs
<1>2. Len(w) \in Nat /\ DOMAIN w = 1..Len(w) /\ \A i \in DOMAIN w : w[i] \in Nat
    OBVIOUS
<1>3. CASE c = 0
    BY <1>1, <1>2, <1>3 DEF Has
<1>4. CASE c > 0
    <2> DEFINE k == Len(w) - c + 1
               v == Counted(w)
    <2>1. c \in 1..Len(w) /\ w[k] >= m
        BY <1>2, <1>4 DEF Has
    <2>2. k \in 1..Len(w) /\ k = Len(w) - c + 1 /\ c \in 1..Len(w) /\ w[k] >= m
        BY <1>2, <2>1
    <2> HIDE DEF k, v
    <2>3. k \in Nat /\ e \in Nat /\ Len(w) \in Nat /\ w[k] \in Nat
        <3>1. w[k] \in Nat
            BY <1>2, <2>2
        <3> QED
            BY <1>2, <2>2, <3>1
    <2>4. e <= k - 1
        <3>1. w[k] + Window > now
            BY <2>2, <2>3, LimitsType, SMTT(30)
        <3> QED
            BY <1>1, <1>2, <2>2, <3>1, ShiftedOut
    <2>5. v \in Seq(Nat) /\ Len(v) = Len(w) - e + 1
        BY <1>1 DEF v
    <2> DEFINE l == k - e
    <2>6. /\ l \in 1..(Len(w) - e) /\ l \in Nat /\ l + 1 \in Nat /\ l + e = k
          /\ l \in DOMAIN v /\ l + 1 \in DOMAIN v
          /\ Len(v) - (c + 1) + 1 = l /\ c + 1 <= Len(v)
          /\ Len(v) - c + 1 = l + 1 /\ c <= Len(v)
        <3>1. l \in 1..(Len(w) - e) /\ l \in Nat /\ l + 1 \in Nat /\ l + e = k
            BY <2>2, <2>3, <2>4
        <3>2. DOMAIN v = 1..(Len(w) - e + 1)
            BY <2>5
        <3>3. l \in DOMAIN v /\ l + 1 \in DOMAIN v
            BY <2>3, <3>1, <3>2
        <3>4. /\ Len(v) - (c + 1) + 1 = l /\ c + 1 <= Len(v)
              /\ Len(v) - c + 1 = l + 1 /\ c <= Len(v)
            BY <2>2, <2>3, <2>4, <2>5
        <3> QED
            BY <3>1, <3>3, <3>4
    <2> HIDE DEF l
    <2>7. v[l] = w[k] /\ v[l] \in Nat /\ v[l + 1] \in Nat
        <3>1. v[l] = w[l + e]
            BY <1>1, <2>6 DEF v
        <3> QED
            BY <2>5, <2>6, <3>1, ElementType
    <2>8. v[l] <= v[l + 1]
        <3>1. Ordered(v) /\ l <= l + 1
            BY <2>6, CountedOrdered DEF v
        <3> QED
            BY <2>6, <3>1 DEF Ordered
    <2>9. Has(v, c + 1, m)
        BY <2>2, <2>6, <2>7 DEF Has
    <2>10. Has(v, c, m)
        <3>1. v[l + 1] >= m
            BY <2>2, <2>7, <2>8
        <3> QED
            BY <2>6, <3>1 DEF Has
    <2> QED
        BY <2>9, <2>10 DEF v
<1> QED
    BY <1>3, <1>4

\* A request for which the window is counted.
LEMMA EvaluateRates ==
    ASSUME EngineTypeOK, RateInv, NEW r \in Requests, Evaluate(r), r.agent \in Agents
    PROVE  RateInv'
<1> DEFINE new == [at |-> now, agent |-> r.agent, verdict |-> Verdict(r),
                   model |-> IF Verdict(r) = "passed" THEN Sent(r) ELSE NoModel,
                   under |-> NamesOf(RateLimits \cap Applying(r))]
           Goes(n, a) == new.agent = a /\ n \in new.under /\ new.verdict \in {"held", "passed"}
           last == Len(seen) + 1
<1>1. /\ new.at = now /\ new.agent = r.agent /\ new.verdict = Verdict(r)
      /\ new.under = NamesOf(RateLimits \cap Applying(r))
    OBVIOUS
<1>2. seen' = Append(seen, new) /\ UNCHANGED <<policies, now>>
    BY DEF Evaluate
<1>3. /\ windows \in [Names -> [Agents -> Seq(Nat)]] /\ now \in Nat /\ Len(seen) \in Nat
      /\ last \in Nat
    BY DEF EngineTypeOK
<1>4. /\ DOMAIN seen' = 1..last /\ DOMAIN seen = 1..Len(seen)
      /\ \A i \in DOMAIN seen : seen'[i] = seen[i] /\ i # last
      /\ seen'[last] = new
    <2> HIDE DEF new
    <2> QED
        BY <1>2, <1>3, AppendProperties DEF EngineTypeOK
<1> DEFINE counted == NamesOf(RateLimits \cap Evaluated(r))
<1>5. ASSUME NEW n \in Names, NEW a \in Agents
      PROVE  windows'[n][a] = IF n \in counted /\ a = r.agent THEN Counted(windows[n][a])
                              ELSE windows[n][a]
    <2> HIDE DEF counted
    <2>1. windows' = [nn \in Names |-> IF nn \in counted
                                       THEN [windows[nn] EXCEPT ![r.agent] = Counted(@)]
                                       ELSE windows[nn]]
        BY DEF Evaluate, counted
    <2> QED
        BY <1>3, <2>1
\* What goes on was counted, and found room.
<1>6. ASSUME NEW n \in Names, NEW a \in Agents, Goes(n, a)
      PROVE  n \in counted /\ a = r.agent /\ Len(Counted(windows[n][a])) <= Limit
    <2>1. Throwing(r) = {} /\ \A i \in Evaluated(r) : ~Denies(policies[i], r)
        BY <1>6 DEF Verdict
    <2>2. Evaluated(r) = Applying(r)
        BY <2>1 DEF Evaluated
    <2>3. PICK i \in RateLimits \cap Evaluated(r) : policies[i].name = n
        BY <1>1, <1>6, <2>2 DEF NamesOf
    <2>4. ~TooMany(policies[i], r)
        BY <2>1, <2>3 DEF Denies
    <2>5. ~(Len(Counted(windows[n][a])) > Limit)
        BY <1>6, <2>3, <2>4 DEF TooMany, RateLimits
    <2>6. Len(Counted(windows[n][a])) \in Nat
        <3>1. windows[n][a] \in Seq(Nat)
            BY <1>3
        <3>2. \E e \in 0..Len(windows[n][a]) : Counted(windows[n][a]) \in Seq(Nat)
            BY <1>3, <3>1, CountedIs
        <3> QED
            BY <3>2
    <2>7. n \in counted /\ a = r.agent
        BY <1>6, <2>3 DEF NamesOf
    <2> QED
        BY <2>5, <2>6, <2>7, LimitsType
<1> HIDE DEF new, last, counted
<1>7. ASSUME NEW n \in Names, NEW a \in Agents, NEW m \in Nat
      PROVE  /\ IsFiniteSet(Through(n, a, m)) /\ Cardinality(Through(n, a, m)) \in Nat
             /\ Goes(n, a) /\ m <= now =>
                    /\ Through(n, a, m)' = Through(n, a, m) \cup {last}
                    /\ Cardinality(Through(n, a, m)') = Cardinality(Through(n, a, m)) + 1
             /\ ~(Goes(n, a) /\ m <= now) => Through(n, a, m)' = Through(n, a, m)
    <2>1. IsFiniteSet(Through(n, a, m)) /\ Cardinality(Through(n, a, m)) \in Nat
        BY ThroughType
    <2>2. last \notin Through(n, a, m)
        BY <1>4 DEF Through
    <2>3. CASE Goes(n, a) /\ m <= now
        <3>1. now >= m
            BY <1>3, <2>3
        <3>2. Through(n, a, m)' = Through(n, a, m) \cup {last}
            BY <1>1, <1>3, <1>4, <2>3, <3>1 DEF Through, last
        <3> QED
            BY <2>1, <2>2, <2>3, <3>2, FS_AddElement
    <2>4. CASE ~(Goes(n, a) /\ m <= now)
        <3>1. ~(Goes(n, a) /\ now >= m)
            BY <1>3, <2>4
        <3>2. Through(n, a, m)' = Through(n, a, m)
            BY <1>1, <1>3, <1>4, <3>1 DEF Through, last
        <3> QED
            BY <2>1, <2>4, <3>2
    <2> QED
        BY <2>3, <2>4
<1>8. \A i \in DOMAIN seen' : seen'[i].at <= now'
    BY <1>1, <1>2, <1>3, <1>4 DEF RateInv, last
<1>9. \A n \in Names, a \in Agents : Ordered(windows[n][a])' /\ Ordered(windows[n][a])
    <2> SUFFICES ASSUME NEW n \in Names, NEW a \in Agents
                 PROVE  Ordered(windows[n][a])' /\ Ordered(windows[n][a])
        OBVIOUS
    <2>1. windows[n][a] \in Seq(Nat) /\ Ordered(windows[n][a])
        BY <1>3 DEF RateInv
    <2>2. Ordered(Counted(windows[n][a]))
        BY <1>3, <2>1, CountedOrdered
    <2> QED
        BY <1>2, <1>5, <2>1, <2>2 DEF Ordered
<1>10. ASSUME NEW n \in Names, NEW a \in Agents, NEW m \in Nat, m + Window > now
       PROVE  Has(windows'[n][a], Cardinality(Through(n, a, m)'), m)
    <2> DEFINE w == windows[n][a]
               c == Cardinality(Through(n, a, m))
    <2>1. w \in Seq(Nat) /\ Ordered(w) /\ c \in Nat
        BY <1>3, <1>7, <1>9
    <2>2. Has(w, c, m)
        BY <1>10 DEF RateInv, Covered
    <2>3. c > 0 => m <= now
        <3>1. ASSUME ~(m <= now) PROVE Through(n, a, m) = {}
            BY <1>3, <3>1, SeenType DEF Through
        <3> QED
            BY <3>1, FS_EmptySet
    <2>4. Has(Counted(w), c, m) /\ (m <= now => Has(Counted(w), c + 1, m))
        <3> HIDE DEF w, c
        <3> QED
            BY <1>3, <1>10, <2>1, <2>2, <2>3, CountedHas
    <2>5. CASE Goes(n, a) /\ m <= now
        BY <1>5, <1>6, <1>7, <2>4, <2>5
    <2>6. CASE ~(Goes(n, a) /\ m <= now)
        BY <1>5, <1>7, <2>2, <2>4, <2>6
    <2> QED
        BY <2>5, <2>6
<1>11. Covered'
    <2> SUFFICES ASSUME NEW n \in Names, NEW a \in Agents, NEW m \in Nat, m + Window > now'
                 PROVE  Has(windows'[n][a], Cardinality(Through(n, a, m)'), m)
        BY DEF Covered, Has
    <2> QED
        BY <1>2, <1>10
<1>12. ASSUME NEW n \in Names, NEW a \in Agents, NEW t \in 0..now
       PROVE  Cardinality({i \in InWindow(n, a, t)' : seen'[i].verdict \in {"held", "passed"}}) <= Limit
    <2> DEFINE old == {i \in InWindow(n, a, t) : seen[i].verdict \in {"held", "passed"}}
               through == {i \in InWindow(n, a, t)' : seen'[i].verdict \in {"held", "passed"}}
    <2>1. Cardinality(old) <= Limit
        BY DEF RateInv, RateHeld
    <2>2. CASE ~(t = now /\ Goes(n, a))
        <3>1. through = old
            BY <1>1, <1>3, <1>4, <2>2 DEF InWindow, last
        <3> QED
            BY <2>1, <3>1
    <2>3. CASE t = now /\ Goes(n, a)
        <3>1. PICK m \in Nat : m + Window > now /\ \A at \in Nat : now < at + Window <=> at >= m
            <4>1. CASE now < Window
                <5>1. 0 + Window > now /\ \A at \in Nat : now < at + Window <=> at >= 0
                    BY <1>3, <4>1, LimitsType
                <5> QED
                    BY <5>1
            <4>2. CASE ~(now < Window)
                <5> DEFINE m == now - Window + 1
                <5>1. m \in Nat /\ m + Window > now /\ \A at \in Nat : now < at + Window <=> at >= m
                    BY <1>3, <4>2, LimitsType
                <5> QED
                    BY <5>1
            <4> QED
                BY <4>1, <4>2
        <3>2. \A i \in DOMAIN seen' : seen'[i].at \in Nat /\ seen'[i].at <= now
            <4>1. \A i \in DOMAIN seen : seen'[i].at \in Nat /\ seen'[i].at <= now
                BY <1>4, SeenType
            <4>2. seen'[last].at \in Nat /\ seen'[last].at <= now
                BY <1>1, <1>3, <1>4
            <4> QED
                BY <1>3, <1>4, <4>1, <4>2 DEF last
        <3>3. through = Through(n, a, m)'
            BY <1>3, <2>3, <3>1, <3>2 DEF InWindow, Through
        <3> HIDE DEF through
        <3>4. Has(windows'[n][a], Cardinality(Through(n, a, m)'), m)
            BY <1>10, <3>1
        <3>5. Cardinality(through) <= Len(windows'[n][a])
            BY <3>3, <3>4 DEF Has
        <3>6. Len(windows'[n][a]) <= Limit
            BY <1>5, <1>6, <2>3
        <3>7. Cardinality(through) \in Nat /\ Len(windows'[n][a]) \in Nat
            <4>1. Cardinality(Through(n, a, m)') \in Nat
                BY <1>7, <3>1
            <4>2. windows'[n][a] \in Seq(Nat)
                <5>1. windows[n][a] \in Seq(Nat)
                    BY <1>3
                <5>2. \E e \in 0..Len(windows[n][a]) : Counted(windows[n][a]) \in Seq(Nat)
                    BY <1>3, <5>1, CountedIs
                <5> QED
                    BY <1>5, <5>1, <5>2
            <4> QED
                BY <3>3, <4>1, <4>2
        <3>8. Cardinality(through) <= Limit
            BY <3>5, <3>6, <3>7, LimitsType
        <3> QED
            BY <3>8 DEF through
    <2> QED
        BY <2>2, <2>3
<1>13. RateHeld'
    BY <1>2, <1>12 DEF RateHeld
<1> QED
    BY <1>8, <1>9, <1>11, <1>13 DEF RateInv

\* Time that passes leaves fewer in a window.
LEMMA TickRates ==
    ASSUME EngineTypeOK, RateInv, Tick
    PROVE  RateInv'
<1>1. now \in Nat /\ now' = now + 1 /\ UNCHANGED <<windows, seen>>
    BY DEF EngineTypeOK, Tick
<1>2. \A i \in DOMAIN seen : seen[i].at \in Nat /\ seen[i].at <= now
    BY SeenType
<1>3. \A i \in DOMAIN seen' : seen'[i].at <= now'
    BY <1>1, <1>2
<1>4. ASSUME NEW n \in Names, NEW a \in Agents
      PROVE  Ordered(windows[n][a])'
    <2>1. \A i \in DOMAIN windows[n][a] : windows[n][a][i] \in Nat
        <3>1. windows[n][a] \in Seq(Nat)
            BY DEF EngineTypeOK
        <3> QED
            BY <3>1, ElementType
    <2> QED
        BY <1>1, <2>1 DEF RateInv, Ordered
<1>5. Covered'
    <2> SUFFICES ASSUME NEW n \in Names, NEW a \in Agents, NEW m \in Nat, m + Window > now'
                 PROVE  Has(windows'[n][a], Cardinality(Through(n, a, m)'), m)
        BY DEF Covered, Has
    <2>1. m + Window > now
        BY <1>1, LimitsType
    <2>2. Through(n, a, m)' = Through(n, a, m)
        BY <1>1 DEF Through
    <2> QED
        BY <1>1, <2>1, <2>2 DEF RateInv, Covered
<1>6. RateHeld'
    <2> SUFFICES ASSUME NEW n \in Names, NEW a \in Agents, NEW t \in 0..now'
                 PROVE  Cardinality({i \in InWindow(n, a, t) : seen[i].verdict \in {"held", "passed"}}) <= Limit
        BY <1>1 DEF RateHeld, InWindow
    <2> DEFINE Now(s) == {i \in InWindow(n, a, s) : seen[i].verdict \in {"held", "passed"}}
    <2>1. CASE t \in 0..now
        BY <2>1 DEF RateInv, RateHeld
    <2>2. CASE t = now + 1
        <3>1. Now(t) \subseteq Now(now)
            BY <1>1, <1>2, <2>2, LimitsType DEF InWindow
        <3>2. Cardinality(Now(now)) <= Limit
            BY <1>1 DEF RateInv, RateHeld
        <3>3. IsFiniteSet(Now(now))
            <4>1. Now(now) \in SUBSET (1..Len(seen)) /\ Len(seen) \in Nat
                BY DEF EngineTypeOK, InWindow
            <4>2. IsFiniteSet(1..Len(seen))
                BY <4>1, FS_Interval
            <4> QED
                BY <4>1, <4>2, FS_Subset
        <3>4. Cardinality(Now(t)) <= Cardinality(Now(now))
            BY <3>1, <3>3, FS_Subset
        <3>5. Cardinality(Now(t)) \in Nat /\ Cardinality(Now(now)) \in Nat
            BY <3>1, <3>3, FS_Subset, FS_CardinalityType
        <3> HIDE DEF Now
        <3>6. Cardinality(Now(t)) <= Limit
            BY <3>2, <3>4, <3>5, LimitsType
        <3> QED
            BY <3>6 DEF Now
    <2> QED
        BY <1>1, <2>1, <2>2
<1> QED
    BY <1>3, <1>4, <1>5, <1>6 DEF RateInv

-----------------------------------------------------------------------------
(* A sequence with one element less.                                         *)

LEMMA Removed ==
    ASSUME NEW S, NEW s \in Seq(S), NEW i \in 1..Len(s)
    PROVE  /\ DOMAIN RemoveAt(s, i) = 1..(Len(s) - 1)
           /\ \A k \in 1..(Len(s) - 1) : RemoveAt(s, i)[k] = s[IF k < i THEN k ELSE k + 1]
<1> DEFINE before == SubSeq(s, 1, i - 1)
           after == SubSeq(s, i + 1, Len(s))
           n == Len(s)
<1>1. n \in Nat /\ i \in Nat /\ i >= 1 /\ i <= n /\ \A k \in 1..n : s[k] \in S
    OBVIOUS
<1>2. /\ before \in Seq(S) /\ Len(before) = i - 1
      /\ \A k \in 1..(i - 1) : before[k] = s[k]
    <2>1. \A k \in 1..(i - 1) : s[k] \in S
        BY <1>1
    <2>2. /\ before \in Seq(S)
          /\ Len(before) = IF 1 <= i - 1 THEN (i - 1) - 1 + 1 ELSE 0
          /\ \A k \in 1..((i - 1) - 1 + 1) : before[k] = s[1 + k - 1]
        BY <1>1, <2>1, SubSeqProperties
    <2>3. Len(before) = i - 1
        BY <1>1, <2>2
    <2>4. \A k \in 1..(i - 1) : before[k] = s[k]
        BY <1>1, <2>2
    <2> QED
        BY <2>2, <2>3, <2>4
<1>3. /\ after \in Seq(S) /\ Len(after) = n - i
      /\ \A k \in 1..(n - i) : after[k] = s[i + k]
    <2>1. \A k \in (i + 1)..n : s[k] \in S
        BY <1>1
    <2>2. /\ after \in Seq(S)
          /\ Len(after) = IF i + 1 <= n THEN n - (i + 1) + 1 ELSE 0
          /\ \A k \in 1..(n - (i + 1) + 1) : after[k] = s[(i + 1) + k - 1]
        BY <1>1, <2>1, SubSeqProperties
    <2>3. Len(after) = n - i
        BY <1>1, <2>2
    <2>4. \A k \in 1..(n - i) : after[k] = s[i + k]
        BY <1>1, <2>2
    <2> QED
        BY <2>2, <2>3, <2>4
<1>4. RemoveAt(s, i) = before \o after
    BY DEF RemoveAt
<1> HIDE DEF before, after, n
<1>5. /\ before \o after \in Seq(S) /\ Len(before \o after) = Len(before) + Len(after)
      /\ \A k \in 1..(Len(before) + Len(after)) :
             (before \o after)[k] = IF k <= Len(before) THEN before[k] ELSE after[k - Len(before)]
    BY <1>2, <1>3, ConcatProperties, ZenonT(30)
<1>6. Len(before) + Len(after) = n - 1
    BY <1>1, <1>2, <1>3
<1>7. ASSUME NEW k \in 1..(n - 1)
      PROVE  (before \o after)[k] = s[IF k < i THEN k ELSE k + 1]
    <2>1. CASE k < i
        BY <1>1, <1>2, <1>5, <1>6, <2>1
    <2>2. CASE ~(k < i)
        <3>1. ~(k <= Len(before)) /\ k - Len(before) \in 1..(n - i) /\ i + (k - Len(before)) = k + 1
            BY <1>1, <1>2, <2>2
        <3>2. (before \o after)[k] = after[k - Len(before)]
            BY <1>5, <1>6, <3>1
        <3> QED
            BY <1>3, <2>2, <3>1, <3>2
    <2> QED
        BY <2>1, <2>2
<1>8. DOMAIN (before \o after) = 1..(n - 1)
    BY <1>5, <1>6
<1> QED
    BY <1>4, <1>7, <1>8 DEF n

-----------------------------------------------------------------------------
(* What holds of the policies in force and of the file.                      *)

USE EngineConstants, StoreConstants

\* ReloadOwed already between load and watch.
Owed ==
    phase # "down" /\ Parses(file) /\ file.items # policies =>
        watcher.event \/ watcher.timer \/ unheard

\* The inductive invariant.
Inv == TypeOK /\ OneOfEachName /\ Owed

-----------------------------------------------------------------------------
(* Types of the operators.                                                   *)

LEMMA CountedType ==
    ASSUME NEW w \in Seq(Nat), now \in Nat
    PROVE  Counted(w) \in Seq(Nat)
<1> DEFINE expired == {i \in DOMAIN w : w[i] + Window <= now}
<1>1. expired \in SUBSET (1..Len(w)) /\ Len(w) \in Nat
    OBVIOUS
<1>2. IsFiniteSet(1..Len(w))
    BY <1>1, FS_Interval
<1>3. Cardinality(expired) \in Nat
    BY <1>1, <1>2, FS_Subset, FS_CardinalityType
<1> DEFINE n == Cardinality(expired) + 1
<1>4. SubSeq(w, n, Len(w)) \in Seq(Nat)
    <2>1. n \in Nat \ {0}
        BY <1>3
    <2>2. \A i \in n..Len(w) : w[i] \in Nat
        <3> HIDE DEF n
        <3> QED
            BY <1>1, <2>1
    <2> HIDE DEF n
    <2> QED
        BY <1>1, <2>1, <2>2, SubSeqProperties
<1> QED
    BY <1>4, AppendProperties DEF Counted

LEMMA LoadedType ==
    ASSUME NEW f \in File, policies \in Seq(Policy), OneOfEachName
    PROVE  /\ Loaded(f) \in Seq(Policy)
           /\ \A i, j \in DOMAIN Loaded(f) : Loaded(f)[i].name = Loaded(f)[j].name => i = j
           /\ Parses(f) => Loaded(f) = f.items
<1>1. CASE Parses(f)
    <2>1. f.items \in Seq(Entry)
        BY DEF File
    <2>2. \A i \in DOMAIN f.items : f.items[i] \in Policy
        BY <1>1, <2>1 DEF Parses, Loadable, Policy
    <2>3. f.items \in Seq(Policy)
        BY <2>1, <2>2, SMTT(30)
    <2> QED
        BY <1>1, <2>3 DEF Loaded, Parses, Loadable
<1>2. CASE ~Parses(f)
    BY <1>2 DEF Loaded, OneOfEachName
<1> QED
    BY <1>1, <1>2

LEMMA EnsuredType ==
    ASSUME NEW f \in File, NEW given \in Seq(Policy)
    PROVE  /\ Ensured(f, given) \in File
           /\ f.is # "missing" => Ensured(f, given) = f
           /\ f.is = "missing" => Ensured(f, given).items = given
<1>1. given \in Seq(Entry)
    BY DEF Policy
<1> QED
    BY <1>1 DEF Ensured, Listed, File

LEMMA WatcherType ==
    ASSUME TypeOK, NEW f
    PROVE  /\ Notified \in [on : {"nothing", "file", "old inode"}, event : BOOLEAN, timer : BOOLEAN]
           /\ Orphaned \in [on : {"nothing", "file", "old inode"}, event : BOOLEAN, timer : BOOLEAN]
           /\ NoWatch \in [on : {"nothing", "file", "old inode"}, event : BOOLEAN, timer : BOOLEAN]
    BY DEF TypeOK, Notified, Orphaned, NoWatch

\* A file of which the writing has begun is a file.
LEMMA BegunType ==
    ASSUME NEW items \in Seq(Entry)
    PROVE  Begun(items) \subseteq File
<1>1. Broken \in File
    <2>1. <<>> \in Seq(Entry)
        OBVIOUS
    <2> QED
        BY <2>1 DEF Broken, File
<1>2. ASSUME NEW n \in DOMAIN items, NEW e \in Cut(items[n]) \cup {items[n]}
      PROVE  Listed([SubSeq(items, 1, n) EXCEPT ![n] = e]) \in File
    <2>1. items[n] \in Entry /\ n \in 1..Len(items) /\ Len(items) \in Nat
        OBVIOUS
    <2>2. e \in Entry
        <3>1. CASE e = [items[n] EXCEPT !.terms = Incomplete]
            <4>1. Incomplete \in Terms
                BY DEF Terms
            <4> QED
                BY <2>1, <3>1, <4>1 DEF Entry
        <3>2. CASE e = [items[n] EXCEPT !.scope = Agents \X Providers, !.match = {}]
            BY <2>1, <3>2 DEF Entry
        <3> QED
            BY <1>2, <2>1, <3>1, <3>2 DEF Cut
    <2> DEFINE first == SubSeq(items, 1, n)
    <2>3. first \in Seq(Entry) /\ n \in DOMAIN first
        <3>1. \A i \in 1..n : items[i] \in Entry
            BY <2>1
        <3>2. first \in Seq(Entry) /\ Len(first) = n
            BY <2>1, <3>1, SubSeqProperties
        <3> QED
            BY <2>1, <3>2
    <2> HIDE DEF first
    <2>4. [first EXCEPT ![n] = e] \in Seq(Entry)
        BY <2>2, <2>3, ExceptSeq
    <2> QED
        BY <2>4 DEF first, Listed, File
<1>3. ASSUME NEW f \in Begun(items)
      PROVE  f \in File
    <2>1. CASE f = Broken
        BY <1>1, <2>1
    <2>2. CASE f # Broken
        <3>1. PICK n \in DOMAIN items :
                  f \in {Listed([SubSeq(items, 1, n) EXCEPT ![n] = e]) : e \in Cut(items[n]) \cup {items[n]}}
            BY <2>2 DEF Begun
        <3>2. PICK e \in Cut(items[n]) \cup {items[n]} : f = Listed([SubSeq(items, 1, n) EXCEPT ![n] = e])
            BY <3>1
        <3> QED
            BY <1>2, <3>2
    <2> QED
        BY <2>1, <2>2
<1> QED
    BY <1>3

LEMMA ContentType ==
    /\ Missing \in File /\ Broken \in File
    /\ \A d \in Drafts : Listed(d) \in File
    /\ Content \subseteq File
<1>1. <<>> \in Seq(Entry)
    OBVIOUS
<1>2. Missing \in File /\ Broken \in File
    BY <1>1 DEF Missing, Broken, File
<1>3. ASSUME NEW d \in Drafts PROVE Listed(d) \in File /\ Begun(d) \subseteq File
    BY BegunType DEF Listed, File
<1> QED
    BY <1>2, <1>3 DEF Content

LEMMA CounterType ==
    ASSUME TypeOK
    PROVE  changes \in Nat /\ faults \in Nat /\ now \in Nat
    BY DEF TypeOK, EngineTypeOK

-----------------------------------------------------------------------------
(* The steps.                                                                *)

\* After a load the policies in force are those of the file, if it parses.
LEMMA LoadStep ==
    ASSUME Inv, NEW f \in File, file' = f, policies' = Loaded(f)
    PROVE  /\ policies' \in Seq(Policy)
           /\ OneOfEachName'
           /\ Owed'
<1>1. policies \in Seq(Policy)
    BY DEF Inv, TypeOK, EngineTypeOK
<1> QED
    BY <1>1, LoadedType DEF Inv, OneOfEachName, Owed

\* What a handler does not touch keeps its type.
LEMMA ServedStep ==
    ASSUME TypeOK, Served
    PROVE  /\ changes' \in Nat
           /\ phase = "up" /\ phase' = "up"
           /\ windows' = windows /\ now' = now /\ seen' = seen
<1>1. changes \in Nat
    BY DEF TypeOK
<1>2. changes' = changes + 1
    BY DEF Served
<1>3. phase = "up" /\ phase' = phase
    BY DEF Served
<1>4. windows' = windows /\ now' = now /\ seen' = seen
    BY DEF Served
<1> QED
    BY <1>1, <1>2, <1>3, <1>4

\* A handler that writes items leaves everything in order, ...
LEMMA WrittenStep ==
    ASSUME Inv, NEW items \in Seq(Entry), Written(items), Served
    PROVE  Inv'
<1>1. Listed(items) \in File
    BY DEF Listed, File
<1>2. file' = Listed(items) /\ policies' = Loaded(Listed(items)) /\ unheard' = FALSE
    BY DEF Written, Rewrite
<1>3. watcher' \in [on : {"nothing", "file", "old inode"}, event : BOOLEAN, timer : BOOLEAN]
    BY WatcherType DEF Inv, TypeOK, Written, Rewrite
<1>4. policies' \in Seq(Policy) /\ OneOfEachName' /\ Owed'
    BY <1>1, <1>2, LoadStep
<1>5. EngineTypeOK'
    BY <1>4 DEF Inv, TypeOK, EngineTypeOK, Served
<1>6. changes' \in Nat /\ faults' \in Nat /\ phase' \in {"down", "loaded", "up"}
    BY ServedStep, CounterType DEF Inv, Written
<1>7. TypeOK'
    <2>1. unheard' \in BOOLEAN /\ file' \in File
        BY <1>1, <1>2
    <2> QED
        BY <1>3, <1>5, <1>6, <2>1 DEF TypeOK
<1> QED
    BY <1>4, <1>7 DEF Inv

\* ... and so does one that fails to: what it leaves in the file is an event for the
\* watch, or nothing it can see.
LEMMA WriteFailsStep ==
    ASSUME Inv, NEW items \in Seq(Entry), WriteFails(items), Served
    PROVE  Inv'
<1>1. policies \in Seq(Policy) /\ faults \in Nat /\ policies' = policies
    BY DEF Inv, TypeOK, EngineTypeOK, WriteFails
<1>2. policies \in Seq(Entry)
    BY <1>1 DEF Policy
<1>3. PICK f \in Begun(items) \cup IF file.is = "missing" THEN Begun(policies) ELSE {} : Rewrite(f)
    BY DEF WriteFails
<1>4. file' \in File
    BY <1>2, <1>3, BegunType DEF Rewrite
<1>5. watcher' \in [on : {"nothing", "file", "old inode"}, event : BOOLEAN, timer : BOOLEAN]
    BY <1>3, WatcherType DEF Inv, TypeOK, Rewrite
<1>6. EngineTypeOK'
    BY DEF Inv, TypeOK, EngineTypeOK, Served, WriteFails
<1>7. changes' \in Nat /\ faults' \in Nat /\ phase' \in {"down", "loaded", "up"}
    BY <1>1, ServedStep DEF Inv, WriteFails
<1>8. unheard' \in BOOLEAN
    BY DEF WriteFails
<1>9. TypeOK'
    BY <1>4, <1>5, <1>6, <1>7, <1>8 DEF TypeOK
<1>10. OneOfEachName'
    BY <1>1 DEF Inv, OneOfEachName
<1>11. Owed'
    <2>1. unheard' \/ watcher'.event
        <3>1. CASE Hidden
            BY <3>1 DEF WriteFails
        <3>2. CASE ~Hidden
            BY <1>3, <3>2 DEF Hidden, Rewrite, Notified, Inv, TypeOK
        <3> QED
            BY <3>1, <3>2
    <2> QED
        BY <2>1 DEF Owed
<1> QED
    BY <1>9, <1>10, <1>11 DEF Inv

LEMMA StoreStep ==
    ASSUME Inv, NEW items \in Seq(Entry), Store(items), Served
    PROVE  Inv'
    BY WrittenStep, WriteFailsStep DEF Store

\* A 404 or a 500 leaves the file, written from the policies in force if it was missing.
LEMMA DeclinedStep ==
    ASSUME Inv, Served, file' = Document, UNCHANGED <<policies, watcher, unheard, faults>>
    PROVE  Inv'
<1>1. file \in File /\ policies \in Seq(Policy)
    BY DEF Inv, TypeOK, EngineTypeOK
<1>2. file' \in File
    BY <1>1, EnsuredType DEF Document
<1>3. TypeOK'
    <2>1. EngineTypeOK'
        BY DEF Inv, TypeOK, EngineTypeOK, Served
    <2>2. changes' \in Nat /\ faults' \in Nat /\ phase' \in {"down", "loaded", "up"}
        BY ServedStep, CounterType DEF Inv
    <2>3. unheard' = unheard /\ watcher' = watcher
        OBVIOUS
    <2>4. unheard' \in BOOLEAN
        BY <2>3 DEF Inv, TypeOK
    <2> QED
        BY <1>2, <2>1, <2>2, <2>3, <2>4 DEF Inv, TypeOK
<1>4. OneOfEachName'
    BY DEF Inv, OneOfEachName
<1>5. Owed'
    BY <1>1, EnsuredType DEF Document, Inv, Owed, Served, Parses
<1> QED
    BY <1>3, <1>4, <1>5 DEF Inv

LEMMA NotFoundStep ==
    ASSUME Inv, Served, NEW n, NotFound(n)
    PROVE  Inv'
<1>1. policies \in Seq(Policy)
    BY DEF Inv, TypeOK, EngineTypeOK
<1>2. policies \in Seq(Entry)
    BY <1>1 DEF Policy
<1> QED
    BY <1>2, DeclinedStep, WriteFailsStep DEF NotFound

LEMMA DocumentType ==
    ASSUME Inv
    PROVE  /\ Document \in File /\ Document.items \in Seq(Entry)
           /\ file.is # "missing" => Document = file
<1>1. file \in File /\ policies \in Seq(Policy)
    BY DEF Inv, TypeOK, EngineTypeOK
<1>2. Document \in File /\ (file.is # "missing" => Document = file)
    BY <1>1, EnsuredType DEF Document
<1> QED
    BY <1>2 DEF File

\* The index a handler looks for is one of the document it changes.
LEMMA IndexFound ==
    ASSUME Inv, NEW n \in Names, Found(n) # {}
    PROVE  IndexOf(n) \in Found(n) /\ IndexOf(n) \in DOMAIN Document.items
<1>1. Found(n) \in SUBSET Nat
    BY DocumentType DEF Found
<1>2. IndexOf(n) \in Found(n)
    BY <1>1, FirstOfLeast DEF IndexOf
<1> QED
    BY <1>2 DEF Found

LEMMA RemoveAtType ==
    ASSUME NEW items \in Seq(Entry), NEW i \in DOMAIN items
    PROVE  RemoveAt(items, i) \in Seq(Entry)
<1>1. i \in Nat /\ Len(items) \in Nat
    OBVIOUS
<1>2. \A k \in 1..(i - 1) : items[k] \in Entry
    BY <1>1
<1>3. \A k \in (i + 1)..Len(items) : items[k] \in Entry
    BY <1>1
<1>4. SubSeq(items, 1, i - 1) \in Seq(Entry)
    BY <1>1, <1>2, SubSeqProperties
<1>5. SubSeq(items, i + 1, Len(items)) \in Seq(Entry)
    BY <1>1, <1>3, SubSeqProperties
<1> QED
    BY <1>4, <1>5, ConcatProperties DEF RemoveAt

\* What the calls write are entries.
LEMMA WritingsType ==
    ASSUME Inv
    PROVE  /\ \A n \in Names, on \in BOOLEAN : Found(n) # {} => Toggled(n, on) \in Seq(Entry)
           /\ \A n \in Names, p \in Submissions : Found(n) # {} => Exchanged(n, p) \in Seq(Entry)
           /\ \A n \in Names : Found(n) # {} => Without(n) \in Seq(Entry)
           /\ \A p \in Submissions : With(p) \in Seq(Entry)
           /\ policies \in Seq(Entry)
<1> DEFINE D == Document.items
<1>1. D \in Seq(Entry)
    BY DocumentType
<1>2. ASSUME NEW n \in Names, Found(n) # {}, NEW e \in Entry
      PROVE  [D EXCEPT ![IndexOf(n)] = e] \in Seq(Entry)
    <2>1. IndexOf(n) \in DOMAIN D
        BY <1>2, IndexFound
    <2> HIDE DEF D
    <2> QED
        BY <1>1, <2>1, ExceptSeq
<1>3. ASSUME NEW n \in Names, NEW on \in BOOLEAN, Found(n) # {}
      PROVE  Toggled(n, on) \in Seq(Entry)
    <2> DEFINE e == [D[IndexOf(n)] EXCEPT !.enabled = on]
    <2>1. D[IndexOf(n)] \in Entry
        <3>1. IndexOf(n) \in DOMAIN D
            BY <1>3, IndexFound
        <3> HIDE DEF D
        <3> QED
            BY <1>1, <3>1, ElementType
    <2>2. e \in Entry
        BY <2>1 DEF Entry
    <2> HIDE DEF e
    <2>3. [D EXCEPT ![IndexOf(n)] = e] \in Seq(Entry)
        BY <1>2, <1>3, <2>2
    <2> QED
        BY <2>3 DEF Toggled, e
<1>4. ASSUME NEW n \in Names, NEW p \in Submissions, Found(n) # {}
      PROVE  Exchanged(n, p) \in Seq(Entry)
    BY <1>2, <1>4 DEF Exchanged
<1>5. ASSUME NEW n \in Names, Found(n) # {}
      PROVE  Without(n) \in Seq(Entry)
    BY <1>1, <1>5, IndexFound, RemoveAtType DEF Without
<1>6. ASSUME NEW p \in Submissions
      PROVE  With(p) \in Seq(Entry)
    BY <1>1, AppendProperties DEF With
<1>7. policies \in Seq(Entry)
    <2>1. policies \in Seq(Policy)
        BY DEF Inv, TypeOK, EngineTypeOK
    <2> QED
        BY <2>1 DEF Policy
<1> QED
    BY <1>3, <1>4, <1>5, <1>6, <1>7

-----------------------------------------------------------------------------
(* The actions.                                                              *)

LEMMA PatchStep == ASSUME Inv, NEW n \in Names, NEW on \in BOOLEAN, Patch(n, on) PROVE Inv'
    BY WritingsType, StoreStep, NotFoundStep DEF Patch

LEMMA PutStep == ASSUME Inv, NEW n \in Names, NEW p \in Submissions, Put(n, p) PROVE Inv'
    BY WritingsType, StoreStep, NotFoundStep DEF Put

LEMMA DeleteStep == ASSUME Inv, NEW n \in Names, Delete(n) PROVE Inv'
    BY WritingsType, StoreStep, NotFoundStep DEF Delete

LEMMA PostStep == ASSUME Inv, NEW p \in Submissions, Post(p) PROVE Inv'
<1>1. CASE Store(With(p))
    BY <1>1, WritingsType, StoreStep DEF Post
<1>2. CASE Document.is = "broken" /\ UNCHANGED <<policies, fileVars, faults>>
    <2>1. file' = file /\ UNCHANGED <<policies, watcher, unheard, faults>>
        BY <1>2 DEF fileVars
    <2>2. Document = file
        BY <1>2 DEF Document, Ensured, Listed
    <2> QED
        BY <2>1, <2>2, DeclinedStep DEF Post
<1> QED
    BY <1>1, <1>2 DEF Post

LEMMA EditStep == ASSUME Inv, NEW f \in Content, Edit(f) PROVE Inv'
<1>1. f \in File
    BY ContentType
<1>2. EngineTypeOK' /\ OneOfEachName' /\ policies' = policies /\ phase' = phase
    BY DEF Inv, TypeOK, EngineTypeOK, engineVars, OneOfEachName, Edit
<1>3. unheard' \in BOOLEAN
    BY DEF Edit
<1>4. changes' \in Nat /\ faults' \in Nat
    <2>1. changes \in Nat /\ faults \in Nat
        BY CounterType DEF Inv
    <2> QED
        BY <2>1 DEF Edit
<1>5. TypeOK'
    BY <1>1, <1>2, <1>3, <1>4, WatcherType DEF Inv, TypeOK, Edit, Rewrite
<1>6. Owed'
    <2>1. unheard' \/ watcher'.event
        <3>1. CASE Hidden
            BY <3>1 DEF Edit
        <3>2. CASE ~Hidden
            BY <3>2 DEF Hidden, Edit, Rewrite, Notified, Inv, TypeOK
        <3> QED
            BY <3>1, <3>2
    <2> QED
        BY <2>1 DEF Owed
<1> QED
    BY <1>2, <1>5, <1>6 DEF Inv

LEMMA ReplaceStep == ASSUME Inv, NEW f \in Content \cup {Missing}, Replace(f) PROVE Inv'
<1>1. f \in File
    BY ContentType
<1>2. EngineTypeOK' /\ OneOfEachName' /\ policies' = policies /\ phase' = phase
    BY DEF Inv, TypeOK, EngineTypeOK, engineVars, OneOfEachName, Replace
<1>3. unheard' \in BOOLEAN
    BY DEF Replace
<1>4. changes' \in Nat /\ faults' \in Nat
    <2>1. changes \in Nat /\ faults \in Nat
        BY CounterType DEF Inv
    <2> QED
        BY <2>1 DEF Replace
<1>5. TypeOK'
    BY <1>1, <1>2, <1>3, <1>4, WatcherType DEF Inv, TypeOK, Replace
<1>6. Owed'
    <2>1. unheard' \/ watcher'.event
        <3>1. CASE watcher.on # "file"
            BY <3>1 DEF Replace
        <3>2. CASE watcher.on = "file"
            BY <3>2 DEF Replace, Orphaned, Notified, Inv, TypeOK
        <3> QED
            BY <3>1, <3>2
    <2> QED
        BY <2>1 DEF Owed
<1> QED
    BY <1>2, <1>5, <1>6 DEF Inv

LEMMA StartStep == ASSUME Inv, Start PROVE Inv'
<1>1. Ensured(file, <<>>) \in File
    <2>1. file \in File
        BY DEF Inv, TypeOK
    <2>2. <<>> \in Seq(Policy)
        OBVIOUS
    <2> QED
        BY <2>1, <2>2, EnsuredType
<1>2. policies' \in Seq(Policy) /\ OneOfEachName' /\ Owed'
    BY <1>1, LoadStep DEF Start
<1>3. EngineTypeOK'
    BY <1>2 DEF Inv, TypeOK, EngineTypeOK, Start
<1>4. TypeOK'
    BY <1>1, <1>3 DEF Inv, TypeOK, Start
<1> QED
    BY <1>2, <1>4 DEF Inv

LEMMA ReloadStep == ASSUME Inv, Reload PROVE Inv'
<1>1. file \in File /\ file' = file
    BY DEF Inv, TypeOK, Reload
<1>2. policies' \in Seq(Policy) /\ OneOfEachName' /\ Owed'
    BY <1>1, LoadStep DEF Reload
<1>3. EngineTypeOK'
    BY <1>2 DEF Inv, TypeOK, EngineTypeOK, Reload
<1>4. TypeOK'
    BY <1>1, <1>3 DEF Inv, TypeOK, Reload
<1> QED
    BY <1>2, <1>4 DEF Inv

\* The watch and its callback leave file and policies alone.
LEMMA WatcherStep == ASSUME Inv, Watch \/ Noticed PROVE Inv'
<1>1. EngineTypeOK' /\ OneOfEachName'
    BY DEF Inv, TypeOK, EngineTypeOK, engineVars, OneOfEachName, Watch, Noticed
<1>2. TypeOK'
    <2>1. watcher' \in [on : {"nothing", "file", "old inode"}, event : BOOLEAN, timer : BOOLEAN]
        BY DEF Inv, TypeOK, Watch, Noticed
    <2>2. phase' \in {"down", "loaded", "up"} /\ UNCHANGED <<file, unheard, changes, faults>>
        BY DEF Inv, TypeOK, Watch, Noticed
    <2> QED
        BY <1>1, <2>1, <2>2 DEF Inv, TypeOK
<1>3. Owed'
    BY DEF Inv, TypeOK, Owed, Parses, engineVars, Watch, Noticed
<1> QED
    BY <1>1, <1>2, <1>3 DEF Inv

LEMMA CrashStep == ASSUME Inv, Crash PROVE Inv'
<1>1. file' \in File
    <2>1. CASE file' = file
        BY <2>1 DEF Inv, TypeOK
    <2>2. ASSUME NEW items \in Writings, file' \in Begun(items)
          PROVE  file' \in File
        <3>1. items \in Seq(Entry)
            BY WritingsType DEF Writings
        <3> QED
            BY <2>2, <3>1, BegunType
    <2> QED
        BY <2>1, <2>2 DEF Crash
<1>2. NoWindows \in [Names -> [Agents -> Seq(Nat)]]
    BY DEF NoWindows
<1>3. EngineTypeOK'
    <2>1. now \in Nat
        BY CounterType DEF Inv
    <2>2. now' = now /\ policies' = <<>> /\ windows' = NoWindows /\ seen' = <<>>
        BY DEF Crash
    <2> QED
        BY <1>2, <2>1, <2>2 DEF EngineTypeOK
<1>4. changes' \in Nat /\ faults' \in Nat
    <2>1. changes \in Nat /\ faults \in Nat
        BY CounterType DEF Inv
    <2> QED
        BY <2>1 DEF Crash
<1>5. TypeOK'
    BY <1>1, <1>3, <1>4, WatcherType DEF Inv, TypeOK, Crash
<1>6. OneOfEachName' /\ Owed'
    BY DEF Crash, OneOfEachName, Owed
<1> QED
    BY <1>5, <1>6 DEF Inv

\* What goes upstream is a name of a model.
LEMMA SentType ==
    ASSUME EngineTypeOK, NEW r \in Requests
    PROVE  Sent(r) \in Models
<1> DEFINE R == Routing(r)
           p == policies[FirstOf(R)]
<1>1. CASE R = {} \/ ~r.json
    BY <1>1 DEF Sent, Context
<1>2. CASE ~(R = {} \/ ~r.json)
    <2>1. policies \in Seq(Policy)
        BY DEF EngineTypeOK
    <2>2. R \in SUBSET Nat /\ R \subseteq DOMAIN policies
        BY <2>1 DEF Routing, Applying
    <2>3. FirstOf(R) \in R
        <3> HIDE DEF R
        <3> QED
            BY <1>2, <2>2, FirstOfLeast
    <2>4. p \in Policy /\ p.type = "model_route"
        <3>1. \A k \in DOMAIN policies : policies[k] \in Policy
            BY <2>1
        <3>2. p.type = "model_route"
            BY <2>3 DEF Routing
        <3>3. FirstOf(R) \in DOMAIN policies
            BY <2>2, <2>3
        <3> HIDE DEF R
        <3> QED
            BY <3>1, <3>2, <3>3
    <2>5. p.terms \in RouteTerms
        <3>1. p.terms \in TermsOf("model_route")
            BY <2>4 DEF Policy, Valid
        <3> QED
            BY <3>1 DEF TermsOf
    <2> QED
        BY <1>2, <2>5, RouteToType DEF Sent
<1> QED
    BY <1>1, <1>2

LEMMA RequestStep == ASSUME Inv, NEW r \in Requests, Request(r) PROVE Inv'
<1>1. /\ policies \in Seq(Policy) /\ windows \in [Names -> [Agents -> Seq(Nat)]]
      /\ now \in Nat /\ r.agent \in Agents
    BY DEF Inv, TypeOK, EngineTypeOK, Context
<1>2. windows' \in [Names -> [Agents -> Seq(Nat)]]
    <2>1. \A n \in Names : Counted(windows[n][r.agent]) \in Seq(Nat)
        BY <1>1, CountedType
    <2> QED
        BY <1>1, <2>1 DEF Request, Evaluate
<1>3. \A S \in SUBSET DOMAIN policies : NamesOf(S) \in SUBSET Names
    BY <1>1 DEF NamesOf, Policy, Entry
<1>4. /\ Verdict(r) \in {"failed", "denied", "held", "passed"}
      /\ (IF Verdict(r) = "passed" THEN Sent(r) ELSE NoModel) \in Models
    <2>1. Verdict(r) \in {"failed", "denied", "held", "passed"}
        BY DEF Verdict
    <2>2. Sent(r) \in Models /\ NoModel \in Models
        BY RuleConstants, SentType DEF Inv, TypeOK
    <2> QED
        BY <2>1, <2>2
<1>5. [at |-> now, agent |-> r.agent, verdict |-> Verdict(r),
       model |-> IF Verdict(r) = "passed" THEN Sent(r) ELSE NoModel,
       under |-> NamesOf(RateLimits \cap Applying(r))]
          \in [at : Nat, agent : Agents, model : Models,
               verdict : {"failed", "denied", "held", "passed"}, under : SUBSET Names]
    BY <1>1, <1>3, <1>4 DEF RateLimits
<1>6. EngineTypeOK'
    BY <1>1, <1>2, <1>5, AppendProperties DEF Inv, TypeOK, EngineTypeOK, Request, Evaluate
<1>7. UNCHANGED <<policies, file, watcher, unheard, phase, changes, faults>>
    BY DEF Request, Evaluate, fileVars
<1>8. TypeOK'
    BY <1>6, <1>7 DEF Inv, TypeOK
<1>9. OneOfEachName' /\ Owed'
    BY <1>7 DEF Inv, OneOfEachName, Owed, Parses
<1> QED
    BY <1>8, <1>9 DEF Inv

LEMMA IdleStep == ASSUME Inv, Clock \/ UNCHANGED vars PROVE Inv'
<1>1. EngineTypeOK'
    <2>1. now \in Nat
        BY CounterType DEF Inv
    <2>2. now' \in Nat /\ policies' = policies /\ windows' = windows /\ seen' = seen
        BY <2>1 DEF Clock, Tick, vars
    <2> QED
        BY <2>2 DEF Inv, TypeOK, EngineTypeOK
<1>2. UNCHANGED <<policies, file, watcher, unheard, phase, changes, faults>>
    BY DEF Clock, Tick, fileVars, vars
<1>3. TypeOK'
    BY <1>1, <1>2 DEF Inv, TypeOK
<1>4. OneOfEachName' /\ Owed'
    BY <1>2 DEF Inv, OneOfEachName, Owed, Parses
<1> QED
    BY <1>3, <1>4 DEF Inv

-----------------------------------------------------------------------------
(* The theorems.                                                             *)

LEMMA InitInv == Init => Inv
<1> SUFFICES ASSUME Init PROVE Inv
    OBVIOUS
<1>1. file \in File
    <2>1. CASE file = Missing \/ file = Broken
        BY <2>1, ContentType
    <2>2. CASE \E d \in Drafts : file = Listed(d)
        BY <2>2, ContentType
    <2> QED
        BY <2>1, <2>2 DEF Init
<1>2. EngineTypeOK
    BY DEF Init, EngineInit, EngineTypeOK, NoWindows
<1>3. TypeOK
    BY <1>1, <1>2 DEF Init, TypeOK, NoWatch
<1>4. OneOfEachName /\ Owed
    BY DEF Init, EngineInit, OneOfEachName, Owed
<1> QED
    BY <1>3, <1>4 DEF Inv

LEMMA Inductive == Spec => []Inv
<1>1. Inv /\ [Next]_vars => Inv'
    <2> SUFFICES ASSUME Inv, [Next]_vars PROVE Inv'
        OBVIOUS
    <2>1. CASE Start
        BY <2>1, StartStep
    <2>2. CASE Watch \/ Noticed
        BY <2>2, WatcherStep
    <2>3. CASE Reload
        BY <2>3, ReloadStep
    <2>4. CASE Api
        BY <2>4, PatchStep, PutStep, DeleteStep, PostStep DEF Api
    <2>5. CASE \E f \in Content : Edit(f)
        BY <2>5, EditStep
    <2>6. CASE \E f \in Content \cup {Missing} : Replace(f)
        BY <2>6, ReplaceStep
    <2>7. CASE Crash
        BY <2>7, CrashStep
    <2>8. CASE \E r \in Requests : Request(r)
        BY <2>8, RequestStep
    <2>9. CASE Clock \/ UNCHANGED vars
        BY <2>9, IdleStep
    <2> QED
        BY <2>1, <2>2, <2>3, <2>4, <2>5, <2>6, <2>7, <2>8, <2>9 DEF Next
<1> QED
    BY <1>1, InitInv, PTL DEF Spec

\* The variables of the engine, the file and the watcher stay in their types: no file
\* and no call ever puts an entry in force that the parser rejects.
THEOREM TypeCorrect == Spec => []TypeOK
    BY Inductive, PTL DEF Inv

\* No two policies in force share a name, and with it a window.
THEOREM NamesUnique == Spec => []OneOfEachName
    BY Inductive, PTL DEF Inv

\* A file that parses and is not in force has an event or a reload coming, unless it
\* was changed where the watch could not see it.
THEOREM ChangesOwed == Spec => []ReloadOwed
<1>1. Inv => ReloadOwed
    BY DEF Inv, Owed, ReloadOwed, Stale
<1> QED
    BY <1>1, Inductive, PTL

-----------------------------------------------------------------------------
(* The rate limits, whatever happens to the policies.                        *)

LEMMA NoneYet == now \in Nat /\ seen = <<>> /\ windows = NoWindows => RateInv
<1> SUFFICES ASSUME now \in Nat, seen = <<>>, windows = NoWindows PROVE RateInv
    OBVIOUS
<1>1. DOMAIN seen = {}
    OBVIOUS
<1>2. \A n \in Names, a \in Agents : windows[n][a] = <<>>
    BY DEF NoWindows
<1>3. \A n \in Names, a \in Agents : Ordered(windows[n][a])
    BY <1>2 DEF Ordered
<1>4. Covered
    <2> SUFFICES ASSUME NEW n \in Names, NEW a \in Agents, NEW m \in Nat
                 PROVE  Has(windows[n][a], Cardinality(Through(n, a, m)), m)
        BY DEF Covered
    <2>1. Through(n, a, m) = {}
        BY <1>1 DEF Through
    <2>2. Cardinality(Through(n, a, m)) = 0
        BY <2>1, FS_EmptySet
    <2>3. Len(windows[n][a]) = 0
        BY <1>2
    <2> QED
        BY <2>2, <2>3 DEF Has
<1>5. RateHeld
    <2> SUFFICES ASSUME NEW n \in Names, NEW a \in Agents, NEW t \in 0..now
                 PROVE  Cardinality({i \in InWindow(n, a, t) : seen[i].verdict \in {"held", "passed"}}) <= Limit
        BY DEF RateHeld
    <2> DEFINE through == {i \in InWindow(n, a, t) : seen[i].verdict \in {"held", "passed"}}
    <2>1. through = {}
        BY <1>1 DEF InWindow
    <2> HIDE DEF through
    <2>2. Cardinality(through) = 0
        BY <2>1, FS_EmptySet
    <2>3. Cardinality(through) <= Limit
        BY <2>2, LimitsType
    <2> QED
        BY <2>3 DEF through
<1> QED
    BY <1>1, <1>3, <1>4, <1>5 DEF RateInv

LEMMA InitRates == Init => RateInv
<1> SUFFICES ASSUME Init PROVE RateInv
    OBVIOUS
<1>1. seen = <<>> /\ now = 0 /\ windows = NoWindows
    BY DEF Init, EngineInit
<1> QED
    BY <1>1, NoneYet

LEMMA NextRates == Inv /\ RateInv /\ [Next]_vars => RateInv'
<1> SUFFICES ASSUME Inv, RateInv, [Next]_vars PROVE RateInv'
    OBVIOUS
<1>1. EngineTypeOK
    BY DEF Inv, TypeOK
<1>2. CASE UNCHANGED <<windows, now, seen>>
    BY <1>2 DEF RateInv, Ordered, Covered, Through, RateHeld, InWindow
<1>3. CASE Crash
    <2>1. seen' = <<>> /\ windows' = NoWindows /\ now' = now /\ now \in Nat
        BY <1>1, <1>3 DEF Crash, EngineTypeOK
    <2>2. (now \in Nat /\ seen = <<>> /\ windows = NoWindows => RateInv)'
        BY NoneYet, PTL
    <2> QED
        BY <2>1, <2>2
<1>4. ASSUME NEW r \in Requests, Request(r)
      PROVE  RateInv'
    <2>1. r.agent \in Agents
        BY DEF Context
    <2> QED
        BY <1>1, <1>4, <2>1, EvaluateRates DEF Request
<1>5. CASE Clock
    BY <1>1, <1>5, TickRates DEF Clock
<1>6. CASE Start \/ Watch \/ Noticed \/ Reload
    BY <1>2, <1>6 DEF Start, Watch, Noticed, Reload, engineVars
<1>7. CASE Api
    BY <1>2, <1>7 DEF Api, Patch, Put, Delete, Post, Served
<1>8. CASE (\E f \in Content : Edit(f)) \/ (\E f \in Content \cup {Missing} : Replace(f))
    BY <1>2, <1>8 DEF Edit, Replace, engineVars
<1>9. CASE UNCHANGED vars
    BY <1>2, <1>9 DEF vars
<1> QED
    BY <1>3, <1>4, <1>5, <1>6, <1>7, <1>8, <1>9 DEF Next

\* No window of a rate limit, wherever it begins, lets more requests of an agent go on
\* than the limit, through all that happens to the policies and their file.
THEOREM RatesHeld == Spec => []RateHeld
<1>1. RateInv => RateHeld
    BY DEF RateInv
<1> QED
    BY <1>1, InitRates, NextRates, Inductive, PTL DEF Spec

-----------------------------------------------------------------------------
(* Calls keep file and engine in step.                                       *)

\* What a handler reads of a file in step with the engine are the policies in force.
LEMMA InStep ==
    ASSUME Inv, InSync
    PROVE  Document.is = "list" /\ Document.items = policies /\ Loadable(policies)
<1>1. policies \in Seq(Policy) /\ file \in File
    BY DEF Inv, TypeOK, EngineTypeOK
<1>2. Loadable(policies)
    <2>1. \A i \in DOMAIN policies : policies[i] \in Policy
        BY <1>1
    <2> QED
        BY <2>1 DEF Loadable, Policy, Inv, OneOfEachName
<1>3. Document.is = "list" /\ Document.items = policies
    BY <1>1 DEF InSync, Document, Ensured, Listed, Parses
<1> QED
    BY <1>2, <1>3

\* Policies that are written are in force at once if the parser accepts them, ...
LEMMA WrittenInStep ==
    ASSUME NEW items, Written(items), Loadable(items)
    PROVE  InSync' /\ policies' = items
<1>1. Parses(Listed(items)) /\ Listed(items).items = items
    BY DEF Parses, Listed
<1>2. file' = Listed(items) /\ policies' = Loaded(Listed(items))
    BY DEF Written, Rewrite
<1> QED
    BY <1>1, <1>2 DEF Loaded, InSync

\* ... and if it does not, because one is there twice, those before stay in force.
LEMMA RefusedInStep ==
    ASSUME NEW items, Written(items), ~Loadable(items), \A i \in DOMAIN items : Valid(items[i])
    PROVE  Doubled(file') /\ policies' = policies
<1>1. ~Parses(Listed(items)) /\ Listed(items).items = items
    BY DEF Parses, Listed
<1>2. file' = Listed(items) /\ policies' = Loaded(Listed(items))
    BY DEF Written, Rewrite
<1>3. Doubled(Listed(items))
    BY <1>1 DEF Loadable, Doubled
<1> QED
    BY <1>1, <1>2, <1>3 DEF Loaded

\* What a call does to the policies in force that it does not name, and to file and engine.
Kept == \A i, j \in DOMAIN policies :
           ~Among(policies[i], policies') /\ ~Among(policies[j], policies') => i = j

Explained == InSync' \/ Doubled(file') \/ faults' # faults

LEMMA KeptAll ==
    ASSUME policies' = policies
    PROVE  Kept
    BY DEF Kept, Among

LEMMA WriteFailsInStep ==
    ASSUME Inv, NEW items, WriteFails(items)
    PROVE  Explained /\ Kept
<1>1. faults \in Nat /\ faults' = faults + 1 /\ policies' = policies
    BY DEF Inv, TypeOK, WriteFails
<1>2. faults' # faults
    BY <1>1
<1> QED
    BY <1>1, <1>2, KeptAll DEF Explained

LEMMA NotFoundInStep ==
    ASSUME Inv, InSync, NEW n, NotFound(n)
    PROVE  Explained /\ Kept
<1>1. Document.is = "list" /\ Document.items = policies /\ Loadable(policies)
    BY InStep
<1>2. CASE file' = Document /\ policies' = policies
    BY <1>1, <1>2, KeptAll DEF InSync, Parses, Explained
<1>3. CASE WriteFails(policies)
    BY <1>3, WriteFailsInStep
<1> QED
    BY <1>2, <1>3 DEF NotFound

\* One entry is replaced by one that is valid, whatever its name.
LEMMA ReplacedInStep ==
    ASSUME Inv, InSync, NEW i \in DOMAIN policies, NEW p \in Entry, Valid(p),
           Written([policies EXCEPT ![i] = p])
    PROVE  Explained /\ Kept
<1> DEFINE items == [policies EXCEPT ![i] = p]
<1>1. /\ DOMAIN items = DOMAIN policies /\ items[i] = p
      /\ \A j \in DOMAIN policies : j # i => items[j] = policies[j]
    BY DEF Inv, TypeOK, EngineTypeOK
<1>2. Written(items)
    OBVIOUS
<1> HIDE DEF items
<1>3. \A j \in DOMAIN items : Valid(items[j])
    <2>1. Loadable(policies)
        BY InStep
    <2> QED
        BY <1>1, <2>1 DEF Loadable
<1>4. CASE Loadable(items)
    <2>1. InSync' /\ policies' = items
        BY <1>2, <1>4, WrittenInStep
    <2> QED
        BY <1>1, <2>1 DEF Among, Kept, Explained
<1>5. CASE ~Loadable(items)
    <2>1. Doubled(file') /\ policies' = policies
        BY <1>2, <1>3, <1>5, RefusedInStep
    <2> QED
        BY <2>1, KeptAll DEF Explained
<1> QED
    BY <1>4, <1>5

\* One entry is taken out.
LEMMA RemovedInStep ==
    ASSUME Inv, InSync, NEW i \in DOMAIN policies, Written(RemoveAt(policies, i))
    PROVE  InSync' /\ Kept
<1> DEFINE items == RemoveAt(policies, i)
           n == Len(policies)
<1>1. policies \in Seq(Policy) /\ n \in Nat /\ i \in 1..n /\ DOMAIN policies = 1..n
    <2>1. policies \in Seq(Policy)
        BY DEF Inv, TypeOK, EngineTypeOK
    <2> QED
        BY <2>1
<1>2. /\ DOMAIN items = 1..(n - 1)
      /\ \A k \in 1..(n - 1) : items[k] = policies[IF k < i THEN k ELSE k + 1]
    BY <1>1, Removed
<1> HIDE DEF items, n
<1>3. Loadable(items)
    <2>1. Loadable(policies)
        BY InStep
    <2> DEFINE At(k) == IF k < i THEN k ELSE k + 1
    <2>2. \A k \in 1..(n - 1) : At(k) \in 1..n
        BY <1>1
    <2>3. \A j, k \in 1..(n - 1) : At(j) = At(k) => j = k
        BY <1>1
    <2>4. \A k \in 1..(n - 1) : items[k] = policies[At(k)]
        BY <1>2
    <2> HIDE DEF At
    <2>5. \A k \in 1..(n - 1) : Valid(items[k])
        BY <1>1, <2>1, <2>2, <2>4 DEF Loadable
    <2>6. ASSUME NEW j \in 1..(n - 1), NEW k \in 1..(n - 1), items[j].name = items[k].name
          PROVE  j = k
        <3>1. At(j) = At(k)
            BY <1>1, <2>1, <2>2, <2>4, <2>6 DEF Loadable
        <3> QED
            BY <2>3, <3>1
    <2> QED
        BY <1>2, <2>5, <2>6 DEF Loadable
<1>4. InSync' /\ policies' = items
    BY <1>3, WrittenInStep DEF items
<1>5. ASSUME NEW j \in DOMAIN policies, j # i
      PROVE  Among(policies[j], items)
    <2> DEFINE k == IF j < i THEN j ELSE j - 1
    <2>1. k \in 1..(n - 1) /\ (IF k < i THEN k ELSE k + 1) = j
        BY <1>1, <1>5
    <2>2. items[k] = policies[j]
        <3> HIDE DEF k
        <3> QED
            BY <1>2, <2>1
    <2> QED
        BY <1>2, <2>1, <2>2 DEF Among
<1> QED
    BY <1>4, <1>5 DEF Kept

\* One is added whose name none in force has.
LEMMA AddedInStep ==
    ASSUME Inv, InSync, NEW p \in Entry, Valid(p), ~Taken(p), Written(Append(policies, p))
    PROVE  InSync' /\ Kept
<1> DEFINE items == Append(policies, p)
           n == Len(policies)
<1>1. policies \in Seq(Policy) /\ n \in Nat /\ DOMAIN policies = 1..n
    <2>1. policies \in Seq(Policy)
        BY DEF Inv, TypeOK, EngineTypeOK
    <2> QED
        BY <2>1
<1>2. /\ DOMAIN items = 1..(n + 1) /\ items[n + 1] = p
      /\ \A k \in DOMAIN policies : items[k] = policies[k]
    <2>1. policies \in Seq(Policy \cup {p})
        BY <1>1
    <2>2. /\ items \in Seq(Policy \cup {p}) /\ Len(items) = n + 1 /\ items[n + 1] = p
          /\ \A k \in 1..n : items[k] = policies[k]
        BY <2>1, AppendProperties
    <2> QED
        BY <1>1, <2>2
<1> HIDE DEF items
<1>3. Loadable(items)
    <2>1. Loadable(policies)
        BY InStep
    <2>2. \A k \in DOMAIN items : k \in DOMAIN policies \/ k = n + 1
        BY <1>1, <1>2
    <2> QED
        BY <1>2, <2>1, <2>2 DEF Loadable, Taken
<1>4. InSync' /\ policies' = items
    BY <1>3, WrittenInStep DEF items
<1>5. DOMAIN policies \subseteq DOMAIN items
    BY <1>1, <1>2
<1> QED
    BY <1>2, <1>4, <1>5 DEF Among, Kept

\* Every call, whatever was in the file before it: what is in force then is what the
\* file says, or what was in force before.
LEMMA InForceOrAsBefore ==
    ASSUME Api
    PROVE  InSync' \/ policies' = policies
<1>1. ASSUME NEW items, Written(items)
      PROVE  InSync' \/ policies' = policies
    <2>1. file' = Listed(items) /\ policies' = Loaded(Listed(items))
        BY <1>1 DEF Written, Rewrite
    <2> QED
        BY <2>1 DEF Loaded, InSync
<1>2. (\E items : Written(items)) \/ policies' = policies
    BY DEF Api, Patch, Put, Delete, Post, Store, NotFound, WriteFails
<1> QED
    BY <1>1, <1>2

\* A call from a file in step with the engine.
LEMMA CallInStep ==
    ASSUME Inv, InSync, Api
    PROVE  Explained /\ Kept
<1>1. Document.is = "list" /\ Document.items = policies
    BY InStep
<1>2. policies \in Seq(Policy)
    BY DEF Inv, TypeOK, EngineTypeOK
<1>3. ASSUME NEW p \in Submissions
      PROVE  p \in Entry /\ Valid(p)
    <2>1. p \in Entry /\ Loadable(<<p>>)
        BY StoreConstants
    <2>2. 1 \in DOMAIN <<p>> /\ <<p>>[1] = p
        OBVIOUS
    <2> QED
        BY <2>1, <2>2 DEF Loadable
<1>4. ASSUME NEW n \in Names, Found(n) # {}
      PROVE  IndexOf(n) \in DOMAIN policies
    BY <1>1, <1>4, IndexFound
<1>5. ASSUME NEW items, WriteFails(items)
      PROVE  Explained /\ Kept
    BY <1>5, WriteFailsInStep
<1>6. ASSUME NEW n \in Names, NotFound(n)
      PROVE  Explained /\ Kept
    BY <1>6, NotFoundInStep
<1>7. ASSUME NEW n \in Names, NEW on \in BOOLEAN, Found(n) # {}, Written(Toggled(n, on))
      PROVE  Explained /\ Kept
    <2> DEFINE i == IndexOf(n)
               p == [policies[i] EXCEPT !.enabled = on]
    <2>1. i \in DOMAIN policies /\ Written([policies EXCEPT ![i] = p])
        BY <1>1, <1>4, <1>7 DEF Toggled
    <2> HIDE DEF i
    <2>2. policies[i] \in Policy
        BY <1>2, <2>1, ElementType
    <2>3. p \in Entry /\ p.type = policies[i].type /\ p.terms = policies[i].terms
        BY <2>2 DEF Policy, Entry
    <2>4. Valid(p)
        BY <2>2, <2>3 DEF Policy, Valid
    <2> HIDE DEF p
    <2> QED
        BY <2>1, <2>3, <2>4, ReplacedInStep
<1>8. ASSUME NEW n \in Names, NEW p \in Submissions, Found(n) # {}, Written(Exchanged(n, p))
      PROVE  Explained /\ Kept
    <2>1. IndexOf(n) \in DOMAIN policies /\ Written([policies EXCEPT ![IndexOf(n)] = p])
        BY <1>1, <1>4, <1>8 DEF Exchanged
    <2> QED
        BY <1>3, <2>1, ReplacedInStep
<1>9. ASSUME NEW n \in Names, Found(n) # {}, Written(Without(n))
      PROVE  Explained /\ Kept
    BY <1>1, <1>4, <1>9, RemovedInStep DEF Without, Explained
<1>10. ASSUME NEW p \in Submissions, ~Taken(p), Written(With(p))
       PROVE  Explained /\ Kept
    BY <1>1, <1>3, <1>10, AddedInStep DEF With, Explained
<1>11. CASE \E n \in Names, on \in BOOLEAN : Patch(n, on)
    BY <1>5, <1>6, <1>7, <1>11 DEF Patch, Store
<1>12. CASE \E n \in Names, p \in Submissions : Put(n, p)
    BY <1>5, <1>6, <1>8, <1>12 DEF Put, Store
<1>13. CASE \E n \in Names : Delete(n)
    BY <1>5, <1>6, <1>9, <1>13 DEF Delete, Store
<1>14. CASE \E p \in Submissions : Post(p)
    BY <1>1, <1>5, <1>10, <1>14 DEF Post, Store
<1> QED
    BY <1>11, <1>12, <1>13, <1>14 DEF Api

\* Whatever a call finds in the file, it puts in force what it leaves there or leaves in
\* force what was; and from a file in step with the engine, or missing, the two fall out
\* of step only by a write that fails or a name that is then there twice, and no policy
\* goes but the one that is named.
THEOREM CallsInStep == Spec => SyncKept
<1>1. ASSUME Inv, Api
      PROVE  StaysInSync
    BY <1>1, InForceOrAsBefore, CallInStep DEF StaysInSync, Explained, Kept
<1> QED
    BY <1>1, Inductive, PTL DEF SyncKept

-----------------------------------------------------------------------------
(* More policies.                                                            *)

\* Most restrictive wins: a policy that is added, whatever it says, lets no request pass
\* that did not pass without it.
THEOREM AddedNeverLoosens ==
    ASSUME policies \in Seq(Policy), NEW p \in Policy, policies' = Append(policies, p),
           UNCHANGED <<windows, now>>, NEW r \in Requests, Verdict(r)' = "passed"
    PROVE  Verdict(r) = "passed"
<1>1. /\ DOMAIN policies \subseteq DOMAIN policies'
      /\ \A i \in DOMAIN policies : policies'[i] = policies[i]
    BY AppendProperties
<1>2. Applying(r) \subseteq Applying(r)'
    BY <1>1 DEF Applying, Applies
<1>3. Throwing(r) \subseteq Throwing(r)'
    BY <1>1, <1>2 DEF Throwing, Applying
<1>4. Throwing(r)' = {} /\ Throwing(r) = {}
    BY <1>3 DEF Verdict
<1>5. Evaluated(r) = Applying(r) /\ Evaluated(r)' = Applying(r)'
    BY <1>4 DEF Evaluated
<1>6. Evaluated(r) \subseteq Evaluated(r)'
    BY <1>2, <1>5
<1>7. ASSUME NEW i \in Evaluated(r)
      PROVE  ~Denies(policies[i], r) /\ ~Holds(policies[i], r)
    <2>1. i \in Evaluated(r)' /\ policies'[i] = policies[i]
        BY <1>1, <1>6 DEF Evaluated, Applying
    <2>2. ~Denies(policies[i], r)' /\ ~Holds(policies[i], r)'
        BY <2>1 DEF Verdict
    <2>3. Denies(policies[i], r)' <=> Denies(policies[i], r)
        BY <2>1 DEF Denies, Blocks, Filters, OverBudget, OutOfHours, TooMany, Counted
    <2>4. Holds(policies[i], r)' <=> Holds(policies[i], r)
        BY <2>1 DEF Holds
    <2> QED
        BY <2>2, <2>3, <2>4
<1> QED
    BY <1>4, <1>7 DEF Verdict
=============================================================================

------------------------------ MODULE LogProofs ------------------------------
(***************************************************************************)
(* Proofs about the action log: whatever its flushes, rotations, purges    *)
(* and faults, it forgets nothing without a reason, keeps nothing that was *)
(* purged but in the files a purge failed on, holds its entries in order, and shows a reader none twice.      *)
(***************************************************************************)
EXTENDS ActionLog, Counting

-----------------------------------------------------------------------------
(* Sequences put together from sequences, and orders as sets of pairs.       *)

Sorted(s, R) == \A i, j \in DOMAIN s : i < j => <<s[i], s[j]>> \in R

All(s, t, R) == \A x \in ToSet(s), y \in ToSet(t) : <<x, y>> \in R

LEMMA ConcatSorted ==
    ASSUME NEW S, NEW s \in Seq(S), NEW t \in Seq(S)
    PROVE  /\ s \o t \in Seq(S)
           /\ ToSet(s \o t) = ToSet(s) \cup ToSet(t)
           /\ \A R : Sorted(s, R) /\ Sorted(t, R) /\ All(s, t, R) => Sorted(s \o t, R)
<1> DEFINE u == s \o t
           m == Len(s)
           n == Len(t)
<1>1. m \in Nat /\ n \in Nat /\ DOMAIN s = 1..m /\ DOMAIN t = 1..n
    OBVIOUS
<1>2. /\ u \in Seq(S) /\ Len(u) = m + n
      /\ \A i \in 1..(m + n) : u[i] = IF i <= m THEN s[i] ELSE t[i - m]
    BY ConcatProperties
<1>3. DOMAIN u = 1..(m + n)
    BY <1>2
<1> HIDE DEF u, m, n
<1>4. \A i \in 1..(m + n) : (i <= m => i \in DOMAIN s) /\ (i > m => i - m \in DOMAIN t)
    BY <1>1
<1>5. ToSet(u) = ToSet(s) \cup ToSet(t)
    <2>1. \A i \in DOMAIN u : \/ i \in DOMAIN s /\ u[i] = s[i]
                              \/ i - m \in DOMAIN t /\ u[i] = t[i - m]
        BY <1>1, <1>2, <1>3, <1>4
    <2>2. \A i \in DOMAIN s : i \in DOMAIN u /\ u[i] = s[i]
        BY <1>1, <1>2, <1>3
    <2>3. \A i \in DOMAIN t : i + m \in DOMAIN u /\ u[i + m] = t[i]
        BY <1>1, <1>2, <1>3
    <2> QED
        BY <2>1, <2>2, <2>3 DEF ToSet
<1>6. ASSUME NEW R, Sorted(s, R), Sorted(t, R), All(s, t, R)
      PROVE  Sorted(u, R)
    <2> SUFFICES ASSUME NEW i \in DOMAIN u, NEW j \in DOMAIN u, i < j
                 PROVE  <<u[i], u[j]>> \in R
        BY DEF Sorted
    <2>1. i \in 1..(m + n) /\ j \in 1..(m + n)
        BY <1>3
    <2>2. CASE j <= m
        <3>1. i \in DOMAIN s /\ j \in DOMAIN s /\ u[i] = s[i] /\ u[j] = s[j]
            BY <1>1, <1>2, <2>1, <2>2
        <3> QED
            BY <1>6, <3>1 DEF Sorted
    <2>3. CASE i <= m /\ j > m
        <3>1. i \in DOMAIN s /\ j - m \in DOMAIN t /\ u[i] = s[i] /\ u[j] = t[j - m]
            BY <1>1, <1>2, <2>1, <2>3
        <3>2. u[i] \in ToSet(s) /\ u[j] \in ToSet(t)
            BY <3>1 DEF ToSet
        <3> QED
            BY <1>6, <3>2 DEF All
    <2>4. CASE i > m
        <3>1. /\ i - m \in DOMAIN t /\ j - m \in DOMAIN t /\ i - m < j - m
              /\ u[i] = t[i - m] /\ u[j] = t[j - m]
            BY <1>1, <1>2, <2>1, <2>4
        <3> QED
            BY <1>6, <3>1 DEF Sorted
    <2> QED
        BY <1>1, <2>1, <2>2, <2>3, <2>4
<1> QED
    BY <1>2, <1>5, <1>6 DEF u

\* The recursive function in FlattenSeq, up to n.
Flat(ss, n, f) == f = [i \in 1..n |-> IF i = 1 THEN ss[i] ELSE f[i - 1] \o ss[i]]

LEMMA FlatExists ==
    ASSUME NEW ss
    PROVE  \A n \in Nat : \E f : Flat(ss, n, f)
<1> DEFINE B == {n \in Nat : ~\E f : Flat(ss, n, f)}
<1>1. SUFFICES ASSUME B # {} PROVE FALSE
    OBVIOUS
<1>2. PICK n \in B : \A m \in B : n <= m
    <2> HIDE DEF B
    <2>1. B \in SUBSET Nat
        BY DEF B
    <2> QED
        BY <1>1, <2>1, Least
<1>3. n \in Nat /\ ~\E f : Flat(ss, n, f)
    OBVIOUS
<1>4. n # 0
    <2>1. Flat(ss, 0, [i \in 1..0 |-> ss[i]])
        BY DEF Flat
    <2> QED
        BY <1>3, <2>1
<1>5. n - 1 \in Nat /\ n - 1 \notin B
    BY <1>2, <1>3, <1>4
<1>6. PICK g : Flat(ss, n - 1, g)
    BY <1>5
<1> DEFINE f == [i \in 1..n |-> IF i = 1 THEN ss[i] ELSE g[i - 1] \o ss[i]]
<1>7. \A i \in 1..(n - 1) : f[i] = g[i]
    <2>1. \A i \in 1..(n - 1) : i \in 1..n
        BY <1>3
    <2>2. \A i \in 1..(n - 1) : g[i] = IF i = 1 THEN ss[i] ELSE g[i - 1] \o ss[i]
        BY <1>6 DEF Flat
    <2> QED
        BY <2>1, <2>2
<1>8. \A i \in 1..n : i # 1 => f[i - 1] = g[i - 1]
    <2>1. \A i \in 1..n : i # 1 => i - 1 \in 1..(n - 1)
        BY <1>3
    <2> HIDE DEF f
    <2> QED
        BY <1>7, <2>1
<1>9. Flat(ss, n, f)
    <2>1. f = [i \in 1..n |-> IF i = 1 THEN ss[i] ELSE f[i - 1] \o ss[i]]
        BY <1>8
    <2> HIDE DEF f
    <2> QED
        BY <2>1 DEF Flat
<1> QED
    BY <1>3, <1>9

\* The sequences of ss one after the other: what is in them, and in which order.
LEMMA Flattened ==
    ASSUME NEW S, NEW ss \in Seq(Seq(S))
    PROVE  /\ FlattenSeq(ss) \in Seq(S)
           /\ ToSet(FlattenSeq(ss)) = UNION {ToSet(ss[i]) : i \in DOMAIN ss}
           /\ \A R : /\ \A i \in DOMAIN ss : Sorted(ss[i], R)
                     /\ \A i, j \in DOMAIN ss : i < j => All(ss[i], ss[j], R)
                     => Sorted(FlattenSeq(ss), R)
<1> DEFINE N == Len(ss)
           f == CHOOSE f : Flat(ss, N, f)
<1>1. N \in Nat /\ DOMAIN ss = 1..N /\ \A i \in 1..N : ss[i] \in Seq(S)
    OBVIOUS
<1>2. CASE N = 0
    <2>1. FlattenSeq(ss) = ss /\ ss = <<>>
        BY <1>2 DEF FlattenSeq
    <2> QED
        BY <2>1 DEF ToSet, Sorted
<1>3. CASE N # 0
    <2>1. FlattenSeq(ss) = f[N]
        BY <1>3 DEF FlattenSeq, Flat
    <2>2. Flat(ss, N, f)
        BY <1>1, FlatExists
    <2> HIDE DEF N, f
    <2>3. \A i \in 1..N : f[i] = IF i = 1 THEN ss[i] ELSE f[i - 1] \o ss[i]
        BY <2>2 DEF Flat
    <2> DEFINE Fits(n) ==
                 /\ f[n] \in Seq(S)
                 /\ ToSet(f[n]) = UNION {ToSet(ss[i]) : i \in 1..n}
                 /\ \A R : /\ \A i \in 1..n : Sorted(ss[i], R)
                           /\ \A i, j \in 1..n : i < j => All(ss[i], ss[j], R)
                           => Sorted(f[n], R)
               B == {n \in 1..N : ~Fits(n)}
    <2>4. B = {}
        <3>1. SUFFICES ASSUME B # {} PROVE FALSE
            OBVIOUS
        <3>2. PICK n \in B : \A m \in B : n <= m
            <4> HIDE DEF Fits
            <4>1. B \in SUBSET Nat
                OBVIOUS
            <4> HIDE DEF B
            <4> QED
                BY <3>1, <4>1, Least
        <3>3. n \in 1..N /\ ~Fits(n)
            OBVIOUS
        <3>4. CASE n = 1
            <4>1. f[1] = ss[1] /\ ss[1] \in Seq(S)
                BY <1>1, <2>3, <3>3, <3>4
            <4>2. 1..1 = {1}
                OBVIOUS
            <4>3. UNION {ToSet(ss[i]) : i \in 1..1} = ToSet(ss[1])
                BY <4>2
            <4> QED
                BY <3>3, <3>4, <4>1, <4>2, <4>3
        <3>5. CASE n # 1
            <4>1. n - 1 \in 1..N /\ n - 1 \notin B /\ n \in Nat /\ n - 1 \in Nat
                <5> HIDE DEF Fits, B
                <5>1. n \in Nat /\ n - 1 \in 1..N /\ ~(n <= n - 1)
                    BY <1>1, <3>3, <3>5
                <5> QED
                    BY <3>2, <5>1
            <4>2. Fits(n - 1)
                BY <4>1
            <4>3. f[n] = f[n - 1] \o ss[n] /\ ss[n] \in Seq(S)
                BY <1>1, <2>3, <3>3, <3>5
            <4>4. 1..n = (1..(n - 1)) \cup {n}
                BY <4>1, <3>3
            <4>5. UNION {ToSet(ss[i]) : i \in 1..n} =
                      (UNION {ToSet(ss[i]) : i \in 1..(n - 1)}) \cup ToSet(ss[n])
                BY <4>4
            <4>6. /\ f[n] \in Seq(S)
                  /\ ToSet(f[n]) = ToSet(f[n - 1]) \cup ToSet(ss[n])
                  /\ \A R : Sorted(f[n - 1], R) /\ Sorted(ss[n], R) /\ All(f[n - 1], ss[n], R)
                               => Sorted(f[n], R)
                BY <4>2, <4>3, ConcatSorted
            <4>7. ASSUME NEW R, \A i \in 1..n : Sorted(ss[i], R),
                         \A i, j \in 1..n : i < j => All(ss[i], ss[j], R)
                  PROVE  Sorted(f[n], R)
                <5>1. Sorted(f[n - 1], R)
                    BY <4>2, <4>4, <4>7
                <5>2. \A i \in 1..(n - 1) : All(ss[i], ss[n], R)
                    <6>1. \A i \in 1..(n - 1) : i \in 1..n /\ n \in 1..n /\ i < n
                        BY <4>1, <3>3
                    <6> QED
                        BY <4>7, <6>1
                <5>3. All(f[n - 1], ss[n], R)
                    BY <4>2, <5>2 DEF All
                <5>4. Sorted(ss[n], R)
                    BY <4>4, <4>7
                <5> QED
                    BY <4>6, <5>1, <5>3, <5>4
            <4> QED
                BY <3>3, <4>2, <4>5, <4>6, <4>7
        <3> QED
            BY <3>4, <3>5
    <2>5. Fits(N)
        <3>1. N \in 1..N
            BY <1>1, <1>3
        <3> QED
            BY <2>4, <3>1
    <2> QED
        BY <1>1, <2>1, <2>5
<1> QED
    BY <1>2, <1>3

\* What a filter leaves stays in its order, and moves only to the front.
LEMMA FilterSorted ==
    ASSUME NEW S, NEW s \in Seq(S), NEW K \in SUBSET DOMAIN s
    PROVE  /\ Filtered(s, K) \in Seq(S)
           /\ ToSet(Filtered(s, K)) = {s[i] : i \in K}
           /\ \A R : Sorted(s, R) => Sorted(Filtered(s, K), R)
           /\ \A j \in DOMAIN Filtered(s, K) :
                 \E i \in DOMAIN s : j <= i /\ Filtered(s, K)[j] = s[i]
<1> DEFINE u == Filtered(s, K)
           c == Cardinality(K)
<1>1. Len(s) \in Nat /\ DOMAIN s = 1..Len(s)
    OBVIOUS
<1>2. u \in Seq(S) /\ DOMAIN u = 1..c /\ \A j \in 1..c : u[j] = s[Nth(K, j)]
    BY FilteredIs
<1>3. /\ c \in Nat
      /\ \A j \in 1..c : Nth(K, j) \in K
      /\ \A i \in K : Rank(K, i) \in 1..c /\ Nth(K, Rank(K, i)) = i
      /\ \A i, j \in 1..c : i < j => Nth(K, i) < Nth(K, j)
    BY <1>1, NthType
<1>4. \A j \in 1..c : j <= Nth(K, j)
    <2> SUFFICES ASSUME NEW j \in 1..c PROVE j <= Nth(K, j)
        OBVIOUS
    <2> DEFINE i == Nth(K, j)
               A == {x \in K : x <= i}
    <2>1. i \in K /\ i \in Nat
        BY <1>1, <1>3
    <2>2. Rank(K, i) = j
        <3>1. IsFiniteSet(K) /\ K \in SUBSET Nat
            BY <1>1, NthType, SMTT(30)
        <3> QED
            BY <3>1, NthIs
    <2>3. A \subseteq 1..i
        BY <1>1, <2>1
    <2> HIDE DEF i
    <2>4. IsFiniteSet(1..i) /\ Cardinality(1..i) = i
        <3>1. Cardinality(1..i) = IF 1 > i THEN 0 ELSE i - 1 + 1
            BY <2>1, FS_Interval
        <3>2. (IF 1 > i THEN 0 ELSE i - 1 + 1) = i
            BY <2>1
        <3> QED
            BY <2>1, <3>1, <3>2, FS_Interval
    <2>5. Cardinality(A) <= i
        <3> HIDE DEF A
        <3> QED
            BY <2>3, <2>4, FS_Subset
    <2> QED
        BY <2>2, <2>5 DEF Rank, i
<1> HIDE DEF c, u
<1>5. ToSet(u) = {s[i] : i \in K}
    <2>1. \A j \in 1..c : u[j] = s[Nth(K, j)] /\ Nth(K, j) \in K
        BY <1>2, <1>3
    <2>2. \A i \in K : Rank(K, i) \in 1..c /\ u[Rank(K, i)] = s[i]
        BY <1>2, <1>3
    <2> QED
        BY <1>2, <2>1, <2>2 DEF ToSet
<1>6. ASSUME NEW R, Sorted(s, R), NEW i \in 1..c, NEW j \in 1..c, i < j
      PROVE  <<u[i], u[j]>> \in R
    <2>1. Nth(K, i) \in DOMAIN s /\ Nth(K, j) \in DOMAIN s /\ Nth(K, i) < Nth(K, j)
        BY <1>3, <1>6
    <2>2. <<s[Nth(K, i)], s[Nth(K, j)]>> \in R
        BY <1>6, <2>1 DEF Sorted
    <2> QED
        BY <1>2, <2>2
<1>7. \A R : Sorted(s, R) => Sorted(u, R)
    BY <1>2, <1>6 DEF Sorted
<1>8. \A j \in 1..c : Nth(K, j) \in DOMAIN s /\ j <= Nth(K, j) /\ u[j] = s[Nth(K, j)]
    BY <1>2, <1>3, <1>4
<1> QED
    BY <1>2, <1>5, <1>7, <1>8 DEF u

-----------------------------------------------------------------------------
(* Constants and days.                                                       *)

LEMMA LogBounds ==
    /\ Full \subseteq 1..Limit
    /\ Limit \in Nat /\ MaxLines \in Nat /\ Interval \in Nat /\ Retain \in Nat /\ PayloadRetain \in Nat
    /\ DayLength \in Nat \ {0} /\ PageSize \in Nat \ {0}
    /\ MaxTime \in Nat /\ Horizon \in Nat /\ MaxFaults \in Nat /\ MaxPurges \in Nat
    BY LogConstants

LEMMA Div ==
    \A D \in Nat \ {0} : \A t, u \in Nat :
        /\ t \div D \in Nat
        /\ t <= u => t \div D <= u \div D
<1> SUFFICES ASSUME NEW D \in Nat \ {0}, NEW t \in Nat, NEW u \in Nat
             PROVE  /\ t \div D \in Nat
                    /\ t <= u => t \div D <= u \div D
    OBVIOUS
<1>1. PICK q \in Int, a \in 0..(D - 1) : t = D * q + a /\ t \div D = q
    <2>1. t \div D \in Int /\ t % D \in 0..(D - 1)
        OBVIOUS
    <2>2. t = D * (t \div D) + (t % D)
        OBVIOUS
    <2> WITNESS t \div D \in Int, t % D \in 0..(D - 1)
    <2> QED
        BY <2>2
<1>2. PICK r \in Int, b \in 0..(D - 1) : u = D * r + b /\ u \div D = r
    <2>1. u \div D \in Int /\ u % D \in 0..(D - 1)
        OBVIOUS
    <2>2. u = D * (u \div D) + (u % D)
        OBVIOUS
    <2> WITNESS u \div D \in Int, u % D \in 0..(D - 1)
    <2> QED
        BY <2>2
<1>3. \A x, y \in Int : x < y => D * x + D <= D * y
    <2> SUFFICES ASSUME NEW x \in Int, NEW y \in Int, x < y PROVE D * x + D <= D * y
        OBVIOUS
    <2>1. D * (y - x - 1) >= 0
        <3>1. \A z \in Nat : D * z >= 0
            OBVIOUS
        <3>2. y - x - 1 \in Nat
            OBVIOUS
        <3> QED
            BY <3>1, <3>2
    <2>2. D * (y - x - 1) = D * y - D * x - D
        OBVIOUS
    <2>3. D * y \in Int /\ D * x \in Int
        OBVIOUS
    <2> QED
        BY <2>1, <2>2, <2>3
<1>4. D * q \in Int /\ D * r \in Int /\ a \in Nat /\ b \in Nat /\ a < D /\ b < D
    OBVIOUS
<1>5. q \in Nat
    <2>1. q < 0 => D * q + D <= D * 0
        BY <1>3
    <2>2. D * 0 = 0
        OBVIOUS
    <2> QED
        BY <1>1, <1>4, <2>1, <2>2
<1>6. t <= u => q <= r
    <2>1. r < q => D * r + D <= D * q
        BY <1>3
    <2> QED
        BY <1>1, <1>2, <1>4, <2>1
<1> QED
    BY <1>1, <1>2, <1>5, <1>6

LEMMA DayType ==
    /\ \A t \in Times : t \in Nat /\ DayOf(t) \in Days /\ DayOf(t) \in Nat
    /\ \A t, u \in Times : t <= u => DayOf(t) <= DayOf(u)
    /\ DayOf(Horizon) \in Nat
    /\ \A d \in Days : d \in Nat
<1>1. \A t \in Times : t \in Nat /\ t <= Horizon
    BY LogBounds DEF Times
<1>2. \A t \in Nat : DayOf(t) \in Nat
    BY LogBounds, Div, Zenon DEF DayOf
<1>3. \A t, u \in Nat : t <= u => DayOf(t) <= DayOf(u)
    BY LogBounds, Div, Zenon DEF DayOf
<1> QED
    BY <1>1, <1>2, <1>3, LogBounds DEF Days

-----------------------------------------------------------------------------
(* The state of a logger l, with the entries es at the time t.               *)

\* The lines of a file are entries no younger than its last write, and only what
\* is a file has lines.
FileSound(f, es, t) ==
    /\ f \in File /\ f.mtime <= t
    /\ \A k \in ToSet(f.lines) : k \in DOMAIN es /\ es[k].at <= f.mtime
    /\ f.is # "file" => f.lines = <<>>

Sound(l, es, t) ==
    /\ l \in Logger /\ l.name <= DayOf(t)
    /\ ToSet(l.buffer) \subseteq DOMAIN es
    /\ \A d \in Days : /\ FileSound(l.plain[d], es, t) /\ l.plain[d].is # "torn"
                       /\ d > l.name => l.plain[d].is = "missing"
    /\ \A x \in Times : /\ FileSound(l.rotated[x], es, t)
                        /\ x > t => l.rotated[x].is = "missing"

EntriesSound(es, t) ==
    /\ t \in Times /\ es \in Seq(Entry)
    /\ \A k \in DOMAIN es : es[k].at <= t

\* Every file comes before those with later names, the archives before the active
\* one, and the buffer last.
Less == {p \in Nat \X Nat : p[1] < p[2]}

Ascending(l) ==
    /\ Sorted(l.buffer, Less)
    /\ \A d \in Days : Sorted(l.plain[d].lines, Less) /\ All(l.plain[d].lines, l.buffer, Less)
    /\ \A d, e \in Days : d < e => All(l.plain[d].lines, l.plain[e].lines, Less)

ArchivesAscending(l) ==
    /\ \A x \in Times : /\ Sorted(l.rotated[x].lines, Less)
                        /\ All(l.rotated[x].lines, l.plain[l.name].lines, Less)
                        /\ All(l.rotated[x].lines, l.buffer, Less)
    /\ \A x, y \in Times : x < y => All(l.rotated[x].lines, l.rotated[y].lines, Less)

\* What the reader r has been shown is not still to come on a later page: neither
\* behind its cursor nor in memory.
Ahead(c, d, j) ==
    \/ c.at = "start"
    \/ c.at = "line" /\ (d < c.file \/ (d = c.file /\ j >= c.line))

Unread(l, r) ==
    /\ ToSet(r.shown) \cap ToSet(l.buffer) = {}
    /\ \A d \in Days : \A j \in DOMAIN l.plain[d].lines :
          Ahead(r.cursor, d, j) => l.plain[d].lines[j] \notin ToSet(r.shown)

HeldBy(l) == ToSet(l.buffer) \cup OnDisk(l)

\* From l to m nothing is dropped without being noted, and nothing comes back.
Accounts(l, m) ==
    /\ HeldBy(l) \subseteq HeldBy(m) \cup m.lost
    /\ l.lost \subseteq m.lost
    /\ HeldBy(m) \subseteq HeldBy(l)
    /\ m.spared = l.spared

LEMMA HeldIs ==
    ASSUME NEW l, NEW k
    PROVE  k \in HeldBy(l) <=> \/ k \in ToSet(l.buffer)
                               \/ \E d \in Days : k \in ToSet(l.plain[d].lines)
                               \/ \E t \in Times : k \in ToSet(l.rotated[t].lines)
<1>1. k \in OnDisk(l) <=> \/ \E d \in Days : k \in ToSet(l.plain[d].lines)
                          \/ \E t \in Times : k \in ToSet(l.rotated[t].lines)
    BY DEF OnDisk
<1> QED
    BY <1>1 DEF HeldBy

LEMMA NoLines == ToSet(<<>>) = {} /\ \A R : Sorted(<<>>, R)
    BY DEF ToSet, Sorted

LEMMA WrittenIs ==
    ASSUME NEW es, NEW lines \in Seq(Nat), now \in Times
    PROVE  /\ Written(lines) \in File /\ Written(lines).lines = lines
           /\ Written(lines).is = "file" /\ Written(lines).mtime = now
           /\ Missing \in File /\ Missing.lines = <<>> /\ Missing.is = "missing" /\ Missing.mtime = 0
           /\ Torn \in File /\ Torn.lines = <<>> /\ Torn.is = "torn" /\ Torn.mtime = now
           /\ FileSound(Missing, es, now) /\ FileSound(Torn, es, now)
<1>1. 0 \in Times /\ now \in Nat
    BY LogBounds DEF Times
<1> QED
    BY <1>1, NoLines DEF Written, Missing, Torn, File, FileSound

\* The lines of what is sound may be written again, and fewer of them.
LEMMA Rewritten ==
    ASSUME NEW es, EntriesSound(es, now), NEW lines \in Seq(Nat),
           ToSet(lines) \subseteq DOMAIN es
    PROVE  FileSound(Written(lines), es, now)
<1>1. now \in Times /\ now \in Nat
    BY DEF EntriesSound, Times
<1> QED
    BY <1>1, WrittenIs DEF EntriesSound, FileSound

-----------------------------------------------------------------------------
(* A flush.                                                                  *)

LEMMA AppendedIs ==
    ASSUME NEW l \in Logger, now \in Times, NEW m \in Appended(l)
    PROVE  /\ m \in Logger
           /\ m.name = l.name /\ m.rotated = l.rotated /\ m.doubled = l.doubled /\ m.buffer = <<>>
           /\ m.spared = l.spared
           /\ \/ /\ m.lost = l.lost
                 /\ m.plain = [l.plain EXCEPT ![l.name] = Written(l.plain[l.name].lines \o l.buffer)]
              \/ m.lost = l.lost \cup ToSet(l.buffer) /\ m.plain = l.plain
<1> DEFINE w == Written(l.plain[l.name].lines \o l.buffer)
<1>1. l.name \in Days /\ l.buffer \in Seq(Nat) /\ l.plain \in [Days -> File]
      /\ l.lost \in SUBSET Nat /\ l.faults \in Nat
    BY DEF Logger
<1>2. l.plain[l.name].lines \in Seq(Nat)
    BY <1>1 DEF File
<1>3. w \in File
    BY <1>1, <1>2, ConcatSorted, WrittenIs
<1> HIDE DEF w
<1>4. ToSet(l.buffer) \subseteq Nat
    BY <1>1 DEF ToSet
<1> DEFINE p == [l.plain EXCEPT ![l.name] = w]
           gone == l.lost \cup ToSet(l.buffer)
<1>5. CASE m = [l EXCEPT !.plain[l.name] = w, !.buffer = <<>>]
    <2>1. p \in [Days -> File]
        BY <1>1, <1>3
    <2>2. m = [l EXCEPT !.plain = p, !.buffer = <<>>]
        BY <1>5 DEF Logger
    <2>3. <<>> \in Seq(Nat)
        OBVIOUS
    <2> HIDE DEF p
    <2>4. m \in Logger /\ m.plain = p /\ m.lost = l.lost
          /\ m.name = l.name /\ m.rotated = l.rotated /\ m.doubled = l.doubled /\ m.buffer = <<>>
          /\ m.spared = l.spared
        BY <2>1, <2>2, <2>3 DEF Logger
    <2> QED
        BY <2>4 DEF p, w
<1>6. CASE m = Faulted([l EXCEPT !.buffer = <<>>, !.lost = @ \cup ToSet(l.buffer)])
    <2>1. gone \in SUBSET Nat /\ <<>> \in Seq(Nat) /\ l.faults + 1 \in Nat
        BY <1>1, <1>4
    <2>2. m = [l EXCEPT !.buffer = <<>>, !.lost = gone, !.faults = l.faults + 1]
        BY <1>6 DEF Logger, Faulted
    <2> HIDE DEF gone
    <2>3. m \in Logger /\ m.plain = l.plain /\ m.lost = gone
          /\ m.name = l.name /\ m.rotated = l.rotated /\ m.doubled = l.doubled /\ m.buffer = <<>>
          /\ m.spared = l.spared
        BY <2>1, <2>2 DEF Logger
    <2> QED
        BY <2>3 DEF gone
<1>7. m = [l EXCEPT !.plain[l.name] = w, !.buffer = <<>>]
      \/ m = Faulted([l EXCEPT !.buffer = <<>>, !.lost = @ \cup ToSet(l.buffer)])
    BY DEF Appended, w
<1> QED
    BY <1>5, <1>6, <1>7

LEMMA RotatedIs ==
    ASSUME NEW l \in Logger, now \in Times, NEW m \in Rotated(l), m # Faulted(l)
    PROVE  /\ m \in Logger /\ m.buffer = l.buffer /\ m.spared = l.spared
           /\ m.lost = l.lost \cup ToSet(l.rotated[now].lines)
           /\ \/ /\ m.rotated = [l.rotated EXCEPT ![now] = Written(l.plain[l.name].lines)]
                 /\ m.plain = [l.plain EXCEPT ![l.name] = Missing]
                 /\ m.name = DayOf(now) /\ m.doubled = l.doubled
              \/ /\ m.rotated = [l.rotated EXCEPT ![now] = Written(l.plain[l.name].lines)]
                 /\ m.plain = l.plain /\ m.name = l.name /\ m.doubled = TRUE
              \/ /\ m.rotated = [l.rotated EXCEPT ![now] = Torn]
                 /\ m.plain = l.plain /\ m.name = l.name /\ m.doubled = l.doubled
<1> DEFINE w == Written(l.plain[l.name].lines)
           whole == Archive(l, w)
<1>1. /\ l.name \in Days /\ l.buffer \in Seq(Nat) /\ l.plain \in [Days -> File]
      /\ l.rotated \in [Times -> File]
      /\ l.lost \in SUBSET Nat /\ l.faults \in Nat
    BY DEF Logger
<1>2. l.plain[l.name].lines \in Seq(Nat) /\ l.rotated[now].lines \in Seq(Nat)
    BY <1>1 DEF File
<1>3. w \in File /\ Missing \in File /\ Torn \in File
    BY <1>2, WrittenIs
<1>4. ToSet(l.rotated[now].lines) \subseteq Nat
    BY <1>2 DEF ToSet
<1>5. DayOf(now) \in Days
    BY DayType
<1> HIDE DEF w
<1>6. /\ whole \in Logger /\ Archive(l, Torn) \in Logger
      /\ whole.rotated = [l.rotated EXCEPT ![now] = w]
      /\ Archive(l, Torn).rotated = [l.rotated EXCEPT ![now] = Torn]
      /\ \A a \in {whole, Archive(l, Torn)} :
            /\ a.lost = l.lost \cup ToSet(l.rotated[now].lines)
            /\ a.buffer = l.buffer /\ a.plain = l.plain /\ a.name = l.name /\ a.doubled = l.doubled
            /\ a.spared = l.spared
    BY <1>1, <1>3, <1>4 DEF Logger, Archive
<1> HIDE DEF whole
<1>7. CASE m = [whole EXCEPT !.plain[l.name] = Missing, !.name = FreshName(now)]
    BY <1>1, <1>3, <1>5, <1>6, <1>7 DEF Logger, FreshName, w
<1>8. CASE m = Faulted([whole EXCEPT !.doubled = TRUE])
    <2>1. whole.faults + 1 \in Nat
        BY <1>6 DEF Logger
    <2>2. m = [whole EXCEPT !.doubled = TRUE, !.faults = whole.faults + 1]
        BY <1>6, <1>8 DEF Logger, Faulted
    <2> QED
        BY <1>6, <2>1, <2>2 DEF Logger, w
<1>9. CASE m = Faulted(Archive(l, Torn))
    <2> DEFINE a == Archive(l, Torn)
    <2>1. a \in Logger /\ a.faults + 1 \in Nat
        BY <1>6 DEF Logger
    <2>2. m = [a EXCEPT !.faults = a.faults + 1]
        BY <1>9 DEF Faulted
    <2>3. /\ a.lost = l.lost \cup ToSet(l.rotated[now].lines)
          /\ a.buffer = l.buffer /\ a.plain = l.plain /\ a.name = l.name /\ a.doubled = l.doubled
          /\ a.rotated = [l.rotated EXCEPT ![now] = Torn] /\ a.spared = l.spared
        BY <1>6
    <2> HIDE DEF a
    <2>4. m \in Logger /\ m.lost = a.lost /\ m.buffer = a.buffer /\ m.plain = a.plain
          /\ m.name = a.name /\ m.doubled = a.doubled /\ m.rotated = a.rotated
          /\ m.spared = a.spared
        BY <2>1, <2>2 DEF Logger
    <2> QED
        BY <2>3, <2>4
<1>10. \/ m = [whole EXCEPT !.plain[l.name] = Missing, !.name = FreshName(now)]
       \/ m = Faulted([whole EXCEPT !.doubled = TRUE])
       \/ m = Faulted(Archive(l, Torn))
    BY DEF Rotated, whole, w
<1> QED
    BY <1>7, <1>8, <1>9, <1>10

\* The order the archives are in does not matter once an original was left behind.
InItsOrder(l) == Ascending(l) /\ (~l.doubled => ArchivesAscending(l))

LEMMA SoundParts ==
    ASSUME NEW es, NEW t \in Times, NEW l, Sound(l, es, t)
    PROVE  /\ l \in Logger /\ l.name \in Days /\ l.name \in Nat /\ l.buffer \in Seq(Nat)
           /\ l.plain \in [Days -> File] /\ l.rotated \in [Times -> File]
           /\ \A d \in Days : l.plain[d].lines \in Seq(Nat)
           /\ \A x \in Times : l.rotated[x].lines \in Seq(Nat)
           /\ l.lost \in SUBSET Nat
    BY DayType DEF Sound, Logger, File

LEMMA AppendedKeeps ==
    ASSUME NEW es, EntriesSound(es, now), NEW l, Sound(l, es, now), NEW m \in Appended(l)
    PROVE  /\ Sound(m, es, now) /\ Accounts(l, m) /\ m.buffer = <<>>
           /\ InItsOrder(l) => InItsOrder(m)
           /\ \A r : Unread(l, r) => Unread(m, r)
<1>1. now \in Times
    BY DEF EntriesSound
<1>2. /\ l \in Logger /\ l.name \in Days /\ l.name \in Nat /\ l.buffer \in Seq(Nat)
      /\ l.plain \in [Days -> File] /\ l.rotated \in [Times -> File]
      /\ \A d \in Days : l.plain[d].lines \in Seq(Nat)
      /\ \A x \in Times : l.rotated[x].lines \in Seq(Nat)
      /\ l.lost \in SUBSET Nat
    BY <1>1, SoundParts
<1> DEFINE a == l.plain[l.name].lines
           c == a \o l.buffer
<1>3. /\ m \in Logger
      /\ m.name = l.name /\ m.rotated = l.rotated /\ m.doubled = l.doubled /\ m.buffer = <<>>
      /\ m.spared = l.spared
      /\ \/ m.lost = l.lost /\ m.plain = [l.plain EXCEPT ![l.name] = Written(c)]
         \/ m.lost = l.lost \cup ToSet(l.buffer) /\ m.plain = l.plain
    BY <1>1, <1>2, AppendedIs
<1>4. a \in Seq(Nat)
    BY <1>2
<1>5. /\ c \in Seq(Nat) /\ ToSet(c) = ToSet(a) \cup ToSet(l.buffer)
      /\ \A R : Sorted(a, R) /\ Sorted(l.buffer, R) /\ All(a, l.buffer, R) => Sorted(c, R)
    BY <1>2, <1>4, ConcatSorted
<1>6. ToSet(a) \subseteq DOMAIN es /\ ToSet(l.buffer) \subseteq DOMAIN es
    BY <1>2 DEF Sound, FileSound
<1> HIDE DEF a, c
<1>7. CASE m.lost = l.lost /\ m.plain = [l.plain EXCEPT ![l.name] = Written(c)]
    <2>1. \A d \in Days : m.plain[d] = IF d = l.name THEN Written(c) ELSE l.plain[d]
        BY <1>2, <1>7
    <2>2. FileSound(Written(c), es, now) /\ Written(c).lines = c /\ Written(c).is = "file"
        BY <1>1, <1>5, <1>6, Rewritten, WrittenIs
    <2>3. \A d \in Days : m.plain[d].lines = IF d = l.name THEN c ELSE l.plain[d].lines
        BY <2>1, <2>2
    <2>4. Sound(m, es, now)
        <3>1. ToSet(m.buffer) \subseteq DOMAIN es
            BY <1>3, NoLines
        <3>2. \A d \in Days : /\ FileSound(m.plain[d], es, now) /\ m.plain[d].is # "torn"
                              /\ d > l.name => m.plain[d].is = "missing"
            BY <1>2, <2>1, <2>2, DayType DEF Sound
        <3> QED
            BY <1>3, <3>1, <3>2 DEF Sound
    <2>5. Accounts(l, m)
        <3>1. \A k : k \in HeldBy(l) <=> k \in HeldBy(m)
            <4> SUFFICES ASSUME NEW k PROVE k \in HeldBy(l) <=> k \in HeldBy(m)
                OBVIOUS
            <4>1. (k \in ToSet(l.buffer) \/ \E d \in Days : k \in ToSet(l.plain[d].lines))
                  <=> \E d \in Days : k \in ToSet(m.plain[d].lines)
                BY <1>2, <1>5, <2>3 DEF a
            <4>2. ToSet(m.buffer) = {}
                BY <1>3, NoLines
            <4> QED
                BY <1>3, <4>1, <4>2, HeldIs
        <3> QED
            BY <1>3, <1>7, <3>1 DEF Accounts
    <2>6. Ascending(l) => Ascending(m)
        <3> SUFFICES ASSUME Ascending(l) PROVE Ascending(m)
            OBVIOUS
        <3>1. Sorted(m.buffer, Less) /\ \A d \in Days : All(m.plain[d].lines, m.buffer, Less)
            BY <1>3, NoLines DEF All
        <3>2. \A d \in Days : Sorted(m.plain[d].lines, Less)
            BY <1>2, <1>5, <2>3 DEF Ascending, a
        <3>3. \A d \in Days : d > l.name => ToSet(l.plain[d].lines) = {}
            <4>1. \A d \in Days : d > l.name => l.plain[d].lines = <<>>
                BY DEF Sound, FileSound
            <4> QED
                BY <4>1, NoLines
        <3>4. ASSUME NEW d \in Days, NEW e \in Days, d < e
              PROVE  All(m.plain[d].lines, m.plain[e].lines, Less)
            <4>1. All(l.plain[d].lines, l.plain[e].lines, Less) /\ All(l.plain[d].lines, l.buffer, Less)
                BY <3>4 DEF Ascending
            <4>2. CASE d = l.name
                <5>1. e > l.name /\ e # l.name
                    BY <3>4, <4>2, DayType
                <5>2. ToSet(m.plain[e].lines) = {}
                    BY <2>3, <3>3, <5>1
                <5> QED
                    BY <5>2 DEF All
            <4>3. CASE d # l.name /\ e = l.name
                BY <1>5, <2>3, <4>1, <4>3 DEF All, a
            <4>4. CASE d # l.name /\ e # l.name
                BY <2>3, <4>1, <4>4
            <4> QED
                BY <4>2, <4>3, <4>4
        <3> QED
            BY <3>1, <3>2, <3>4 DEF Ascending
    <2>7. ArchivesAscending(l) => ArchivesAscending(m)
        <3>1. m.plain[l.name].lines = c /\ l.plain[l.name].lines = a
            BY <1>2, <2>3 DEF a
        <3>2. \A s : All(s, a, Less) /\ All(s, l.buffer, Less) => All(s, c, Less)
            BY <1>5 DEF All
        <3>3. \A s : All(s, m.buffer, Less)
            BY <1>3, NoLines DEF All
        <3> QED
            BY <1>3, <3>1, <3>2, <3>3 DEF ArchivesAscending
    <2>8. ASSUME NEW r, Unread(l, r) PROVE Unread(m, r)
        <3>1. ToSet(r.shown) \cap ToSet(m.buffer) = {}
            BY <1>3, NoLines
        <3>2. ASSUME NEW d \in Days, NEW j \in DOMAIN m.plain[d].lines, Ahead(r.cursor, d, j)
              PROVE  m.plain[d].lines[j] \notin ToSet(r.shown)
            <4>1. CASE d # l.name
                BY <2>3, <2>8, <3>2, <4>1 DEF Unread
            <4>2. CASE d = l.name
                <5>1. j \in DOMAIN c /\ m.plain[d].lines[j] = c[j] /\ l.plain[d].lines = a
                    BY <1>2, <2>3, <4>2 DEF a
                <5>2. \/ j \in DOMAIN a /\ c[j] = a[j]
                      \/ c[j] \in ToSet(l.buffer)
                    <6>1. /\ Len(a) \in Nat /\ Len(l.buffer) \in Nat
                          /\ DOMAIN a = 1..Len(a) /\ DOMAIN l.buffer = 1..Len(l.buffer)
                        BY <1>2, <1>4
                    <6>2. /\ Len(c) = Len(a) + Len(l.buffer)
                          /\ \A i \in 1..Len(a) + Len(l.buffer) :
                                c[i] = IF i <= Len(a) THEN a[i] ELSE l.buffer[i - Len(a)]
                        BY <1>2, <1>4, ConcatProperties DEF c
                    <6>3. j \in 1..Len(a) + Len(l.buffer)
                        BY <1>5, <5>1, <6>2
                    <6>4. j <= Len(a) \/ j - Len(a) \in DOMAIN l.buffer
                        BY <6>1, <6>3
                    <6>5. j <= Len(a) => j \in DOMAIN a
                        BY <6>1, <6>3
                    <6> QED
                        BY <6>1, <6>2, <6>3, <6>4, <6>5 DEF ToSet
                <5> QED
                    BY <1>2, <2>8, <3>2, <5>1, <5>2 DEF Unread
            <4> QED
                BY <4>1, <4>2
        <3> QED
            BY <3>1, <3>2 DEF Unread
    <2> QED
        BY <1>3, <2>4, <2>5, <2>6, <2>7, <2>8 DEF InItsOrder
<1>8. CASE m.lost = l.lost \cup ToSet(l.buffer) /\ m.plain = l.plain
    <2>1. ToSet(m.buffer) = {} /\ Sorted(m.buffer, Less)
        BY <1>3, NoLines
    <2>2. Sound(m, es, now)
        BY <1>3, <1>8, <2>1 DEF Sound
    <2>3. Accounts(l, m)
        <3>1. \A k : k \in HeldBy(m) => k \in HeldBy(l)
            BY <1>3, <1>8, <2>1, HeldIs
        <3>2. \A k : k \in HeldBy(l) => k \in HeldBy(m) \cup m.lost
            BY <1>3, <1>8, <2>1, HeldIs
        <3> QED
            BY <1>3, <1>8, <3>1, <3>2 DEF Accounts
    <2>4. InItsOrder(l) => InItsOrder(m)
        BY <1>3, <1>8, <2>1 DEF InItsOrder, Ascending, ArchivesAscending, All
    <2>5. \A r : Unread(l, r) => Unread(m, r)
        BY <1>8, <2>1 DEF Unread
    <2> QED
        BY <1>3, <2>2, <2>3, <2>4, <2>5
<1> QED
    BY <1>3, <1>7, <1>8

\* A fault that changes nothing.
LEMMA FaultedKeeps ==
    ASSUME NEW es, NEW t, NEW l, Sound(l, es, t)
    PROVE  /\ Sound(Faulted(l), es, t)
           /\ Faulted(l).name = l.name /\ Faulted(l).buffer = l.buffer
           /\ Faulted(l).plain = l.plain /\ Faulted(l).rotated = l.rotated
           /\ Faulted(l).doubled = l.doubled /\ Faulted(l).lost = l.lost
           /\ Faulted(l).spared = l.spared
<1> DEFINE m == Faulted(l)
<1>1. l \in Logger /\ l.faults + 1 \in Nat
    BY DEF Sound, Logger
<1>2. m = [l EXCEPT !.faults = l.faults + 1]
    BY DEF Faulted
<1> HIDE DEF m
<1>3. /\ m \in Logger /\ m.name = l.name /\ m.buffer = l.buffer /\ m.doubled = l.doubled
      /\ m.plain = l.plain /\ m.rotated = l.rotated /\ m.lost = l.lost /\ m.spared = l.spared
    BY <1>1, <1>2 DEF Logger
<1>4. Sound(m, es, t)
    BY <1>3 DEF Sound
<1> QED
    BY <1>3, <1>4 DEF m

LEMMA ArchivedKeeps ==
    ASSUME NEW es, EntriesSound(es, now), NEW l, Sound(l, es, now),
           NEW m \in Rotated(l), m # Faulted(l)
    PROVE  /\ Sound(m, es, now) /\ Accounts(l, m)
           /\ InItsOrder(l) => InItsOrder(m)
           /\ \A r : Unread(l, r) => Unread(m, r)
<1>1. now \in Times /\ now \in Nat
    BY DEF EntriesSound, Times
<1>2. /\ l \in Logger /\ l.name \in Days /\ l.name \in Nat /\ l.buffer \in Seq(Nat)
      /\ l.plain \in [Days -> File] /\ l.rotated \in [Times -> File]
      /\ \A d \in Days : l.plain[d].lines \in Seq(Nat)
      /\ \A x \in Times : l.rotated[x].lines \in Seq(Nat)
      /\ l.lost \in SUBSET Nat
    BY <1>1, SoundParts
<1> DEFINE a == l.plain[l.name].lines
           gone == ToSet(l.rotated[now].lines)
           Copied == m.rotated = [l.rotated EXCEPT ![now] = Written(a)]
           Moved == m.plain = [l.plain EXCEPT ![l.name] = Missing] /\ m.name = DayOf(now)
                    /\ m.doubled = l.doubled
           Stays == m.plain = l.plain /\ m.name = l.name
<1>3. /\ m \in Logger /\ m.buffer = l.buffer /\ m.lost = l.lost \cup gone
      /\ m.spared = l.spared
      /\ \/ Copied /\ Moved
         \/ Copied /\ Stays /\ m.doubled = TRUE
         \/ m.rotated = [l.rotated EXCEPT ![now] = Torn] /\ Stays /\ m.doubled = l.doubled
    BY <1>1, <1>2, RotatedIs
<1>4. a \in Seq(Nat) /\ ToSet(a) \subseteq DOMAIN es
    BY <1>2 DEF Sound, FileSound
<1>5. /\ FileSound(Written(a), es, now) /\ Written(a).lines = a
      /\ FileSound(Torn, es, now) /\ Torn.lines = <<>>
      /\ FileSound(Missing, es, now) /\ Missing.lines = <<>> /\ Missing.is = "missing"
    BY <1>1, <1>4, Rewritten, WrittenIs
<1>6. DayOf(now) \in Days /\ l.name <= DayOf(now) /\ DayOf(now) \in Nat
    BY <1>1, DayType DEF Sound
<1>7. ToSet(<<>>) = {} /\ Sorted(<<>>, Less)
    BY NoLines
<1> HIDE DEF a, gone, Copied, Moved, Stays
\* What the archives of m are.
<1>8. \E s \in Seq(Nat) :
          /\ \A x \in Times : m.rotated[x].lines = IF x = now THEN s ELSE l.rotated[x].lines
          /\ \A x \in Times : FileSound(m.rotated[x], es, now)
          /\ \A x \in Times : x > now => m.rotated[x].is = "missing"
          /\ (Copied /\ s = a) \/ (~Copied /\ s = <<>>)
    <2>1. /\ \A x \in Times : FileSound(l.rotated[x], es, now)
          /\ \A x \in Times : x > now => l.rotated[x].is = "missing"
        BY DEF Sound
    <2>2. CASE Copied
        <3>1. \A x \in Times : m.rotated[x] = IF x = now THEN Written(a) ELSE l.rotated[x]
            BY <1>2, <2>2 DEF Copied
        <3>2. \A x \in Times : x > now => x # now
            BY <1>1 DEF Times
        <3> QED
            BY <1>4, <1>5, <2>1, <2>2, <3>1, <3>2
    <2>3. CASE ~Copied
        <3>1. m.rotated = [l.rotated EXCEPT ![now] = Torn]
            BY <1>3, <2>3
        <3>2. \A x \in Times : m.rotated[x] = IF x = now THEN Torn ELSE l.rotated[x]
            BY <1>2, <3>1
        <3>3. \A x \in Times : x > now => x # now
            BY <1>1 DEF Times
        <3>4. <<>> \in Seq(Nat)
            OBVIOUS
        <3> QED
            BY <1>5, <2>1, <2>3, <3>2, <3>3, <3>4
    <2> QED
        BY <2>2, <2>3
<1>9. PICK s \in Seq(Nat) :
          /\ \A x \in Times : m.rotated[x].lines = IF x = now THEN s ELSE l.rotated[x].lines
          /\ \A x \in Times : FileSound(m.rotated[x], es, now)
          /\ \A x \in Times : x > now => m.rotated[x].is = "missing"
          /\ (Copied /\ s = a) \/ (~Copied /\ s = <<>>)
    BY <1>8
\* What the plain files of m are.
<1>10. \/ Copied /\ Moved
       \/ Stays /\ (m.doubled = TRUE \/ (~Copied /\ m.doubled = l.doubled))
    <2>1. m.rotated = [l.rotated EXCEPT ![now] = Torn] => ~Copied
        <3>1. Written(a) # Torn
            <4>1. Written(a).is = "file" /\ Torn.is = "torn"
                BY <1>1, <1>4, WrittenIs
            <4> QED
                BY <4>1
        <3>2. [l.rotated EXCEPT ![now] = Torn][now] = Torn
              /\ [l.rotated EXCEPT ![now] = Written(a)][now] = Written(a)
            BY <1>1, <1>2
        <3> QED
            BY <3>1, <3>2 DEF Copied
    <2> QED
        BY <1>3, <2>1
<1>11. Moved => \A d \in Days : m.plain[d] = IF d = l.name THEN Missing ELSE l.plain[d]
    BY <1>2 DEF Moved
<1>12. \A d \in Days : \/ m.plain[d].lines = l.plain[d].lines
                       \/ m.plain[d].lines = <<>>
    BY <1>5, <1>10, <1>11 DEF Stays
<1>13. Sound(m, es, now)
    <2>1. m.name <= DayOf(now)
        BY <1>6, <1>10 DEF Moved, Stays
    <2>2. ToSet(m.buffer) \subseteq DOMAIN es
        BY <1>3 DEF Sound
    <2>3. ASSUME NEW d \in Days
          PROVE  /\ FileSound(m.plain[d], es, now) /\ m.plain[d].is # "torn"
                 /\ d > m.name => m.plain[d].is = "missing"
        <3>1. /\ FileSound(l.plain[d], es, now) /\ l.plain[d].is # "torn"
              /\ d > l.name => l.plain[d].is = "missing"
            BY DEF Sound
        <3>2. CASE Stays
            BY <3>1, <3>2 DEF Stays
        <3>3. CASE Moved
            <4>1. d > m.name => d > l.name
                BY <1>2, <1>6, <3>3, DayType DEF Moved
            <4> QED
                BY <1>5, <1>11, <3>1, <3>3, <4>1
        <3> QED
            BY <1>10, <3>2, <3>3
    <2> QED
        BY <1>3, <1>9, <2>1, <2>2, <2>3 DEF Sound
<1>14. Accounts(l, m)
    <2>1. \A x \in Times : \/ m.rotated[x].lines = l.rotated[x].lines
                          \/ x = now
        BY <1>9
    <2>2. m.rotated[now].lines = s
        BY <1>1, <1>9
    <2>3. ASSUME NEW k, k \in HeldBy(l) PROVE k \in HeldBy(m) \cup m.lost
        <3>1. CASE k \in ToSet(l.buffer)
            BY <1>3, <3>1, HeldIs
        <3>2. ASSUME NEW d \in Days, k \in ToSet(l.plain[d].lines)
              PROVE  k \in HeldBy(m) \cup m.lost
            <4>1. CASE m.plain[d].lines = l.plain[d].lines
                BY <3>2, <4>1, HeldIs
            <4>2. CASE m.plain[d].lines # l.plain[d].lines
                <5>1. Copied /\ Moved /\ d = l.name
                    BY <1>10, <1>11, <4>2 DEF Stays
                <5>2. k \in ToSet(m.rotated[now].lines)
                    BY <1>9, <2>2, <3>2, <5>1 DEF a
                <5> QED
                    BY <1>1, <5>2, HeldIs
            <4> QED
                BY <4>1, <4>2
        <3>3. ASSUME NEW x \in Times, k \in ToSet(l.rotated[x].lines)
              PROVE  k \in HeldBy(m) \cup m.lost
            <4>1. CASE x = now
                BY <1>3, <3>3, <4>1 DEF gone
            <4>2. CASE x # now
                BY <1>9, <3>3, <4>2, HeldIs
            <4> QED
                BY <4>1, <4>2
        <3> QED
            BY <2>3, <3>1, <3>2, <3>3, HeldIs
    <2>4. ASSUME NEW k, k \in HeldBy(m) PROVE k \in HeldBy(l)
        <3>1. CASE k \in ToSet(m.buffer)
            BY <1>3, <3>1, HeldIs
        <3>2. ASSUME NEW d \in Days, k \in ToSet(m.plain[d].lines) PROVE k \in HeldBy(l)
            BY <1>7, <1>12, <3>2, HeldIs
        <3>3. ASSUME NEW x \in Times, k \in ToSet(m.rotated[x].lines) PROVE k \in HeldBy(l)
            <4>1. k \in ToSet(l.rotated[x].lines) \/ k \in ToSet(s)
                BY <1>9, <3>3
            <4>2. k \in ToSet(s) => k \in ToSet(l.plain[l.name].lines)
                BY <1>7, <1>9 DEF a
            <4> QED
                BY <1>2, <4>1, <4>2, HeldIs
        <3> QED
            BY <2>4, <3>1, <3>2, <3>3, HeldIs
    <2> QED
        BY <1>3, <2>3, <2>4 DEF Accounts
<1>15. ASSUME Ascending(l) PROVE Ascending(m)
    <2>1. Sorted(m.buffer, Less)
        BY <1>3, <1>15 DEF Ascending
    <2>2. \A d \in Days : Sorted(m.plain[d].lines, Less) /\ All(m.plain[d].lines, m.buffer, Less)
        BY <1>3, <1>7, <1>12, <1>15 DEF Ascending, All
    <2>3. \A d, e \in Days : d < e => All(m.plain[d].lines, m.plain[e].lines, Less)
        <3> SUFFICES ASSUME NEW d \in Days, NEW e \in Days, d < e
                     PROVE  All(m.plain[d].lines, m.plain[e].lines, Less)
            OBVIOUS
        <3>1. All(l.plain[d].lines, l.plain[e].lines, Less)
            BY <1>15 DEF Ascending
        <3> QED
            BY <1>7, <1>12, <3>1 DEF All
    <2> QED
        BY <2>1, <2>2, <2>3 DEF Ascending
<1>16. ASSUME Ascending(l), ArchivesAscending(l), ~m.doubled PROVE ArchivesAscending(m)
    <2>1. /\ Sorted(s, Less) /\ All(s, m.buffer, Less)
          /\ \A x \in Times : All(l.rotated[x].lines, s, Less)
        BY <1>2, <1>3, <1>7, <1>9, <1>16 DEF Ascending, ArchivesAscending, All, a
    <2>2. \A x \in Times : /\ Sorted(m.rotated[x].lines, Less)
                           /\ All(m.rotated[x].lines, m.buffer, Less)
        BY <1>3, <1>9, <1>16, <2>1 DEF ArchivesAscending
    <2>3. \A x, y \in Times : x < y => All(m.rotated[x].lines, m.rotated[y].lines, Less)
        <3> SUFFICES ASSUME NEW x \in Times, NEW y \in Times, x < y
                     PROVE  All(m.rotated[x].lines, m.rotated[y].lines, Less)
            OBVIOUS
        <3>1. All(l.rotated[x].lines, l.rotated[y].lines, Less)
            BY <1>16 DEF ArchivesAscending
        <3>2. CASE x = now
            <4>1. y > now
                BY <3>2
            <4>2. m.rotated[y].lines = <<>>
                BY <1>9, <4>1 DEF FileSound
            <4> QED
                BY <1>7, <4>2 DEF All
        <3>3. CASE x # now
            BY <1>9, <2>1, <3>1, <3>3
        <3> QED
            BY <3>2, <3>3
    <2>4. \A x \in Times : All(m.rotated[x].lines, m.plain[m.name].lines, Less)
        <3>1. CASE ~(Copied /\ Moved)
            <4>1. Stays /\ ~Copied
                BY <1>10, <1>16, <3>1
            <4>2. s = <<>> /\ m.plain[m.name].lines = l.plain[l.name].lines
                BY <1>9, <4>1 DEF Stays
            <4> QED
                BY <1>7, <1>9, <1>16, <4>2 DEF ArchivesAscending, All
        <3>2. CASE Copied /\ Moved
            <4>1. s = a /\ m.name = DayOf(now)
                BY <1>9, <3>2 DEF Moved
            <4>2. m.plain[m.name].lines = <<>>
                <5>1. CASE m.name = l.name
                    BY <1>2, <1>5, <1>11, <3>2, <5>1
                <5>2. CASE m.name # l.name
                    <6>1. m.name \in Days /\ m.name > l.name
                        BY <1>2, <1>6, <4>1, <5>2
                    <6>2. m.plain[m.name] = l.plain[m.name] /\ l.plain[m.name].is = "missing"
                        BY <1>11, <3>2, <5>2, <6>1 DEF Sound
                    <6> QED
                        BY <6>1, <6>2 DEF Sound, FileSound
                <5> QED
                    BY <5>1, <5>2
            <4> QED
                BY <1>7, <4>2 DEF All
        <3> QED
            BY <3>1, <3>2
    <2> QED
        BY <2>2, <2>3, <2>4 DEF ArchivesAscending
<1>17. InItsOrder(l) => InItsOrder(m)
    <2>1. ~m.doubled => ~l.doubled
        BY <1>3 DEF Moved
    <2> QED
        BY <1>15, <1>16, <2>1 DEF InItsOrder
<1>18. ASSUME NEW r, Unread(l, r) PROVE Unread(m, r)
    <2>1. ToSet(r.shown) \cap ToSet(m.buffer) = {}
        BY <1>3, <1>18 DEF Unread
    <2>2. \A d \in Days : \A j \in DOMAIN m.plain[d].lines :
             Ahead(r.cursor, d, j) => m.plain[d].lines[j] \notin ToSet(r.shown)
        BY <1>12, <1>18 DEF Unread
    <2> QED
        BY <2>1, <2>2 DEF Unread
<1> QED
    BY <1>13, <1>14, <1>17, <1>18

LEMMA RotatedKeeps ==
    ASSUME NEW es, EntriesSound(es, now), NEW l, Sound(l, es, now), NEW m \in Rotated(l)
    PROVE  /\ Sound(m, es, now) /\ Accounts(l, m)
           /\ InItsOrder(l) => InItsOrder(m)
           /\ \A r : Unread(l, r) => Unread(m, r)
<1>1. CASE m # Faulted(l)
    BY <1>1, ArchivedKeeps
<1>2. CASE m = Faulted(l)
    <2>1. /\ Sound(m, es, now)
          /\ m.name = l.name /\ m.buffer = l.buffer /\ m.plain = l.plain
          /\ m.rotated = l.rotated /\ m.doubled = l.doubled /\ m.lost = l.lost
          /\ m.spared = l.spared
        BY <1>2, FaultedKeeps
    <2>2. HeldBy(m) = HeldBy(l)
        BY <2>1 DEF HeldBy, OnDisk
    <2> QED
        BY <2>1, <2>2 DEF Accounts, InItsOrder, Ascending, ArchivesAscending, Unread
<1> QED
    BY <1>1, <1>2

\* A flush that empties the buffer, from a rotation or not.
LEMMA FlushedKeeps ==
    ASSUME NEW es, EntriesSound(es, now), NEW l, Sound(l, es, now), NEW m \in Flushed(l)
    PROVE  /\ Sound(m, es, now) /\ Accounts(l, m) /\ m.buffer = <<>>
           /\ InItsOrder(l) => InItsOrder(m)
           /\ \A r : Unread(l, r) => Unread(m, r)
<1>1. CASE l.buffer = <<>>
    <2>1. m = l
        BY <1>1 DEF Flushed
    <2> QED
        BY <1>1, <2>1 DEF Accounts
<1>2. CASE l.buffer # <<>>
    <2>1. PICK x : (x = l \/ x \in Rotated(l)) /\ m \in Appended(x)
        BY <1>2 DEF Flushed
    <2>2. /\ Sound(x, es, now) /\ Accounts(l, x)
          /\ InItsOrder(l) => InItsOrder(x)
          /\ \A r : Unread(l, r) => Unread(x, r)
        <3>1. CASE x = l
            BY <3>1 DEF Accounts
        <3>2. CASE x \in Rotated(l)
            BY <3>2, RotatedKeeps
        <3> QED
            BY <2>1, <3>1, <3>2
    <2>3. /\ Sound(m, es, now) /\ Accounts(x, m) /\ m.buffer = <<>>
          /\ InItsOrder(x) => InItsOrder(m)
          /\ \A r : Unread(x, r) => Unread(m, r)
        BY <2>1, <2>2, AppendedKeeps
    <2>4. Accounts(l, m)
        BY <2>2, <2>3 DEF Accounts
    <2> QED
        BY <2>2, <2>3, <2>4
<1> QED
    BY <1>1, <1>2

-----------------------------------------------------------------------------
(* A purge.                                                                  *)

LEMMA KeptIs ==
    ASSUME NEW lines \in Seq(Nat), NEW before
    PROVE  /\ Kept(lines, before) \in Seq(Nat)
           /\ ToSet(Kept(lines, before)) = {k \in ToSet(lines) : ~Older(k, before)}
           /\ \A R : Sorted(lines, R) => Sorted(Kept(lines, before), R)
           /\ \A j \in DOMAIN Kept(lines, before) :
                 \E i \in DOMAIN lines : j <= i /\ Kept(lines, before)[j] = lines[i]
<1> DEFINE K == {i \in DOMAIN lines : ~Older(lines[i], before)}
<1>1. K \in SUBSET DOMAIN lines
    OBVIOUS
<1>2. {lines[i] : i \in K} = {k \in ToSet(lines) : ~Older(k, before)}
    BY DEF ToSet
<1>3. Kept(lines, before) = Filtered(lines, K)
    BY DEF Kept
<1> HIDE DEF K
<1> QED
    BY <1>1, <1>2, <1>3, FilterSorted

\* What a purge leaves of the lines a of a file: those that are not older, or nothing at
\* all, or all of them, and which of the last two is noted in m.
Leaves(a, b, m, before) ==
    \/ b = Kept(a, before)
    \/ b = <<>> /\ ToSet(a) \subseteq m.lost
    \/ b = a /\ \A k \in ToSet(a) : Older(k, before) => k \in m.spared

Shrinks(l, m, before) ==
    /\ m.name = l.name /\ m.buffer = l.buffer /\ m.doubled = l.doubled /\ l.lost \subseteq m.lost
    /\ \A k \in l.spared : k \in m.spared \/ Older(k, before)
    /\ \A d \in Days : Leaves(l.plain[d].lines, m.plain[d].lines, m, before)
    /\ \A x \in Times : Leaves(l.rotated[x].lines, m.rotated[x].lines, m, before)

LEMMA PurgedIs ==
    ASSUME EntriesSound(entries, now), NEW l, Sound(l, entries, now), NEW before,
           NEW broken \in SUBSET Readable(l), NEW spared \in SUBSET Readable(l)
    PROVE  /\ Sound(Purged(l, before, broken, spared), entries, now)
           /\ Shrinks(l, Purged(l, before, broken, spared), before)
<1> DEFINE m == Purged(l, before, broken, spared)
           plain == [d \in Days |->
                        IF l.plain[d].is = "missing" \/ <<"plain", d>> \in spared THEN l.plain[d]
                        ELSE Written(IF <<"plain", d>> \in broken THEN <<>>
                                     ELSE Kept(l.plain[d].lines, before))]
           rotated == [t \in Times |->
                         IF l.rotated[t].is # "file" \/ <<"rotated", t>> \in spared
                         THEN l.rotated[t]
                         ELSE IF <<"rotated", t>> \in broken THEN Torn
                         ELSE IF Kept(l.rotated[t].lines, before) = <<>> THEN Missing
                         ELSE Written(Kept(l.rotated[t].lines, before))]
           gone == UNION {EntriesIn(l, f) : f \in broken}
           stay == {k \in l.spared : ~Older(k, before)}
                   \cup {k \in UNION {EntriesIn(l, f) : f \in spared} : Older(k, before)}
<1>1. now \in Times /\ now \in Nat
    BY DEF EntriesSound, Times
<1>2. /\ l \in Logger /\ l.name \in Days /\ l.name \in Nat /\ l.buffer \in Seq(Nat)
      /\ l.plain \in [Days -> File] /\ l.rotated \in [Times -> File]
      /\ \A d \in Days : l.plain[d].lines \in Seq(Nat)
      /\ \A x \in Times : l.rotated[x].lines \in Seq(Nat)
      /\ l.lost \in SUBSET Nat
    BY <1>1, SoundParts
<1>3. /\ \A d \in Days : FileSound(l.plain[d], entries, now)
      /\ \A x \in Times : FileSound(l.rotated[x], entries, now)
    BY DEF Sound
<1>2a. l.spared \in SUBSET Nat
    BY <1>2 DEF Logger
<1>4. m = [l EXCEPT !.plain = plain, !.rotated = rotated, !.lost = l.lost \cup gone,
                    !.spared = stay]
    BY <1>2 DEF Purged, Logger
<1>5. \A lines \in Seq(Nat) :
         ToSet(lines) \subseteq DOMAIN entries =>
            /\ FileSound(Written(Kept(lines, before)), entries, now)
            /\ Written(Kept(lines, before)).lines = Kept(lines, before)
            /\ Written(Kept(lines, before)).is = "file"
    <2> SUFFICES ASSUME NEW lines \in Seq(Nat), ToSet(lines) \subseteq DOMAIN entries
                 PROVE  /\ FileSound(Written(Kept(lines, before)), entries, now)
                        /\ Written(Kept(lines, before)).lines = Kept(lines, before)
                        /\ Written(Kept(lines, before)).is = "file"
        OBVIOUS
    <2>1. Kept(lines, before) \in Seq(Nat) /\ ToSet(Kept(lines, before)) \subseteq DOMAIN entries
        BY KeptIs
    <2> QED
        BY <1>1, <2>1, Rewritten, WrittenIs
<1>6. /\ FileSound(Written(<<>>), entries, now) /\ Written(<<>>).lines = <<>>
      /\ Written(<<>>).is = "file"
      /\ FileSound(Missing, entries, now) /\ Missing.lines = <<>> /\ Missing.is = "missing"
      /\ FileSound(Torn, entries, now) /\ Torn.lines = <<>> /\ Torn.is = "torn"
    <2>1. <<>> \in Seq(Nat) /\ ToSet(<<>>) \subseteq DOMAIN entries
        BY NoLines
    <2> QED
        BY <1>1, <2>1, Rewritten, WrittenIs
<1>7. /\ gone \in SUBSET Nat /\ stay \in SUBSET Nat
      /\ \A d \in Days : <<"plain", d>> \in broken => ToSet(l.plain[d].lines) \subseteq gone
      /\ \A x \in Times : <<"rotated", x>> \in broken => ToSet(l.rotated[x].lines) \subseteq gone
      /\ \A d \in Days : <<"plain", d>> \in spared =>
            \A k \in ToSet(l.plain[d].lines) : Older(k, before) => k \in stay
      /\ \A x \in Times : <<"rotated", x>> \in spared =>
            \A k \in ToSet(l.rotated[x].lines) : Older(k, before) => k \in stay
    <2>1. \A d \in Days : EntriesIn(l, <<"plain", d>>) = ToSet(l.plain[d].lines)
        BY DEF EntriesIn
    <2>2. \A x \in Times : EntriesIn(l, <<"rotated", x>>) = ToSet(l.rotated[x].lines)
        BY DEF EntriesIn
    <2>3. \A s \in Seq(Nat) : ToSet(s) \in SUBSET Nat
        BY DEF ToSet
    <2>4. \A f \in Readable(l) : EntriesIn(l, f) \in SUBSET Nat
        BY <1>2, <2>1, <2>2, <2>3 DEF Readable
    <2>5. gone \in SUBSET Nat /\ stay \in SUBSET Nat
        BY <1>2, <1>2a, <2>4
    <2>6. \A f \in broken : EntriesIn(l, f) \subseteq gone
        OBVIOUS
    <2>7. \A f \in spared : \A k \in EntriesIn(l, f) : Older(k, before) => k \in stay
        OBVIOUS
    <2> HIDE DEF gone, stay
    <2> QED
        BY <2>1, <2>2, <2>5, <2>6, <2>7
<1>8. ASSUME NEW d \in Days
      PROVE  /\ FileSound(plain[d], entries, now) /\ plain[d] \in File
             /\ plain[d].is = "file" \/ plain[d].is = l.plain[d].is
             /\ l.plain[d].is = "missing" => plain[d].is = "missing"
             /\ \/ plain[d].lines = Kept(l.plain[d].lines, before)
                \/ plain[d].lines = <<>> /\ ToSet(l.plain[d].lines) \subseteq gone
                \/ /\ plain[d].lines = l.plain[d].lines
                   /\ \A k \in ToSet(l.plain[d].lines) : Older(k, before) => k \in stay
    <2>1. ToSet(l.plain[d].lines) \subseteq DOMAIN entries
        BY <1>3 DEF FileSound
    <2>2. CASE l.plain[d].is = "missing"
        <3>1. plain[d] = l.plain[d]
            BY <2>2
        <3> HIDE DEF plain, gone, stay
        <3>2. l.plain[d].lines = <<>>
            BY <1>3, <2>2 DEF FileSound
        <3> QED
            BY <1>3, <2>2, <3>1, <3>2, NoLines DEF FileSound
    <2>3. CASE l.plain[d].is # "missing" /\ <<"plain", d>> \in spared
        <3>1. plain[d] = l.plain[d]
            BY <2>3
        <3> HIDE DEF plain, gone, stay
        <3> QED
            BY <1>3, <1>7, <2>3, <3>1 DEF FileSound
    <2>4. CASE l.plain[d].is # "missing" /\ <<"plain", d>> \notin spared /\ <<"plain", d>> \in broken
        <3>1. plain[d] = Written(<<>>)
            BY <2>4
        <3> HIDE DEF plain, gone, stay
        <3>2. ToSet(l.plain[d].lines) \subseteq gone
            BY <1>7, <2>4
        <3> QED
            BY <1>6, <2>4, <3>1, <3>2 DEF FileSound
    <2>5. CASE l.plain[d].is # "missing" /\ <<"plain", d>> \notin spared /\ <<"plain", d>> \notin broken
        <3>1. plain[d] = Written(Kept(l.plain[d].lines, before))
            BY <2>5
        <3> HIDE DEF plain, gone, stay
        <3> QED
            BY <1>2, <1>5, <2>1, <2>5, <3>1 DEF FileSound
    <2> QED
        BY <2>2, <2>3, <2>4, <2>5
<1>9. ASSUME NEW x \in Times
      PROVE  /\ FileSound(rotated[x], entries, now) /\ rotated[x] \in File
             /\ l.rotated[x].is = "missing" => rotated[x].is = "missing"
             /\ \/ rotated[x].lines = Kept(l.rotated[x].lines, before)
                \/ rotated[x].lines = <<>> /\ ToSet(l.rotated[x].lines) \subseteq gone
                \/ /\ rotated[x].lines = l.rotated[x].lines
                   /\ \A k \in ToSet(l.rotated[x].lines) : Older(k, before) => k \in stay
    <2>1. ToSet(l.rotated[x].lines) \subseteq DOMAIN entries
        BY <1>3 DEF FileSound
    <2>2. CASE l.rotated[x].is # "file"
        <3>1. rotated[x] = l.rotated[x] /\ l.rotated[x].lines = <<>>
            BY <1>3, <2>2 DEF FileSound
        <3> HIDE DEF rotated, gone, stay
        <3> QED
            BY <1>3, <2>2, <3>1, NoLines DEF FileSound
    <2>3. CASE l.rotated[x].is = "file" /\ <<"rotated", x>> \in spared
        <3>1. rotated[x] = l.rotated[x]
            BY <2>3
        <3> HIDE DEF rotated, gone, stay
        <3> QED
            BY <1>3, <1>7, <2>3, <3>1 DEF FileSound
    <2>4. CASE l.rotated[x].is = "file" /\ <<"rotated", x>> \notin spared /\ <<"rotated", x>> \in broken
        <3>1. rotated[x] = Torn
            BY <2>4
        <3> HIDE DEF rotated, gone, stay
        <3>2. ToSet(l.rotated[x].lines) \subseteq gone
            BY <1>7, <2>4
        <3> QED
            BY <1>6, <2>4, <3>1, <3>2 DEF FileSound
    <2>5. CASE l.rotated[x].is = "file" /\ <<"rotated", x>> \notin spared /\ <<"rotated", x>> \notin broken
        <3>1. CASE Kept(l.rotated[x].lines, before) = <<>>
            <4>1. rotated[x] = Missing
                BY <2>5, <3>1
            <4> HIDE DEF rotated, gone, stay
            <4> QED
                BY <1>6, <2>5, <3>1, <4>1 DEF FileSound
        <3>2. CASE Kept(l.rotated[x].lines, before) # <<>>
            <4>1. rotated[x] = Written(Kept(l.rotated[x].lines, before))
                BY <2>5, <3>2
            <4> HIDE DEF rotated, gone, stay
            <4> QED
                BY <1>2, <1>5, <2>1, <2>5, <4>1 DEF FileSound
        <3> QED
            BY <3>1, <3>2
    <2> QED
        BY <2>2, <2>3, <2>4, <2>5
<1>10. plain \in [Days -> File] /\ rotated \in [Times -> File]
    BY <1>8, <1>9
<1>11. \A k \in l.spared : k \in stay \/ Older(k, before)
    OBVIOUS
<1> HIDE DEF plain, rotated, gone, stay, m
<1>12. /\ m \in Logger /\ m.name = l.name /\ m.buffer = l.buffer /\ m.doubled = l.doubled
       /\ m.plain = plain /\ m.rotated = rotated /\ m.lost = l.lost \cup gone /\ m.spared = stay
    BY <1>2, <1>4, <1>7, <1>10 DEF Logger
<1>13. Sound(m, entries, now)
    <2>1. \A d \in Days : /\ FileSound(m.plain[d], entries, now) /\ m.plain[d].is # "torn"
                          /\ d > m.name => m.plain[d].is = "missing"
        BY <1>8, <1>12 DEF Sound
    <2>2. \A x \in Times : /\ FileSound(m.rotated[x], entries, now)
                           /\ x > now => m.rotated[x].is = "missing"
        BY <1>9, <1>12 DEF Sound
    <2> QED
        BY <1>12, <2>1, <2>2 DEF Sound
<1>14. Shrinks(l, m, before)
    <2>1. \A d \in Days : Leaves(l.plain[d].lines, m.plain[d].lines, m, before)
        BY <1>8, <1>12 DEF Leaves
    <2>2. \A x \in Times : Leaves(l.rotated[x].lines, m.rotated[x].lines, m, before)
        BY <1>9, <1>12 DEF Leaves
    <2> QED
        BY <1>11, <1>12, <2>1, <2>2 DEF Shrinks
<1> QED
    BY <1>13, <1>14 DEF m

LEMMA PurgeKeeps ==
    ASSUME EntriesSound(entries, now), NEW l, Sound(l, entries, now), l.buffer = <<>>,
           NEW before, NEW m \in PurgeOutcomes(l, before)
    PROVE  /\ Sound(m, entries, now) /\ l.lost \subseteq m.lost /\ m.buffer = <<>>
           /\ \A k \in HeldBy(l) : k \in HeldBy(m) \/ k \in m.lost \/ Older(k, before)
           /\ \A k \in HeldBy(m) : k \in HeldBy(l) /\ (k \in m.spared \/ ~Older(k, before))
           /\ \A k \in l.spared : k \in m.spared \/ Older(k, before)
           /\ InItsOrder(l) => InItsOrder(m)
           /\ \A r : r.cursor \in Cursor /\ Unread(l, r) => Unread(m, r)
<1>1. Sound(m, entries, now) /\ Shrinks(l, m, before)
    <2>1. CASE m = Purged(l, before, {}, {})
        BY <2>1, PurgedIs
    <2>2. ASSUME NEW broken \in SUBSET Readable(l), NEW spared \in SUBSET Readable(l),
                 m = Faulted(Purged(l, before, broken, spared))
          PROVE  Sound(m, entries, now) /\ Shrinks(l, m, before)
        <3> DEFINE p == Purged(l, before, broken, spared)
        <3>1. Sound(p, entries, now) /\ Shrinks(l, p, before)
            BY PurgedIs
        <3>2. m = Faulted(p)
            BY <2>2
        <3> HIDE DEF p
        <3>3. /\ Sound(m, entries, now) /\ m.name = p.name /\ m.buffer = p.buffer
              /\ m.doubled = p.doubled /\ m.plain = p.plain /\ m.rotated = p.rotated
              /\ m.lost = p.lost /\ m.spared = p.spared
            BY <3>1, <3>2, FaultedKeeps
        <3> QED
            BY <3>1, <3>3 DEF Shrinks, Leaves
    <2>3. \/ m = Purged(l, before, {}, {})
          \/ \E b \in (SUBSET Readable(l)) \X (SUBSET Readable(l)) :
                m = Faulted(Purged(l, before, b[1], b[2]))
        BY DEF PurgeOutcomes
    <2> QED
        BY <2>1, <2>2, <2>3
<1>2. now \in Times
    BY DEF EntriesSound
<1>3. /\ \A d \in Days : l.plain[d].lines \in Seq(Nat)
      /\ \A x \in Times : l.rotated[x].lines \in Seq(Nat)
      /\ l.name \in Days
    BY <1>2, SoundParts
<1>4. ToSet(<<>>) = {} /\ Sorted(<<>>, Less) /\ m.buffer = <<>> /\ DOMAIN <<>> = {}
    BY <1>1, NoLines DEF Shrinks
\* Every file of m has some of the lines of that of l.
<1>5. ASSUME NEW a \in Seq(Nat), NEW b, Leaves(a, b, m, before)
      PROVE  /\ ToSet(b) \subseteq ToSet(a)
             /\ \A k \in ToSet(b) : k \in m.spared \/ ~Older(k, before)
             /\ \A k \in ToSet(a) : k \in ToSet(b) \/ k \in m.lost \/ Older(k, before)
             /\ \A R : Sorted(a, R) => Sorted(b, R)
             /\ \A j \in DOMAIN b : \E i \in DOMAIN a : j <= i /\ b[j] = a[i]
    <2>1. CASE b = <<>> /\ ToSet(a) \subseteq m.lost
        BY <2>1, NoLines
    <2>2. CASE b = Kept(a, before)
        BY <2>2, KeptIs
    <2>3. CASE b = a /\ \A k \in ToSet(a) : Older(k, before) => k \in m.spared
        <3>1. \A j \in DOMAIN a : j <= j
            OBVIOUS
        <3> QED
            BY <2>3, <3>1
    <2> QED
        BY <1>5, <2>1, <2>2, <2>3 DEF Leaves
<1>6. /\ \A d \in Days : Leaves(l.plain[d].lines, m.plain[d].lines, m, before)
      /\ \A x \in Times : Leaves(l.rotated[x].lines, m.rotated[x].lines, m, before)
    BY <1>1 DEF Shrinks
<1>7. \A d \in Days : /\ ToSet(m.plain[d].lines) \subseteq ToSet(l.plain[d].lines)
                      /\ \A k \in ToSet(m.plain[d].lines) : k \in m.spared \/ ~Older(k, before)
                      /\ Sorted(l.plain[d].lines, Less) => Sorted(m.plain[d].lines, Less)
    BY <1>3, <1>5, <1>6
<1>8. \A x \in Times : /\ ToSet(m.rotated[x].lines) \subseteq ToSet(l.rotated[x].lines)
                       /\ \A k \in ToSet(m.rotated[x].lines) : k \in m.spared \/ ~Older(k, before)
                       /\ Sorted(l.rotated[x].lines, Less) => Sorted(m.rotated[x].lines, Less)
    BY <1>3, <1>5, <1>6
<1>9. \A k \in HeldBy(m) : k \in HeldBy(l) /\ (k \in m.spared \/ ~Older(k, before))
    BY <1>4, <1>7, <1>8, HeldIs
<1>10. ASSUME NEW k \in HeldBy(l), ~Older(k, before) PROVE k \in HeldBy(m) \/ k \in m.lost
    <2>1. \/ \E d \in Days : k \in ToSet(l.plain[d].lines)
          \/ \E x \in Times : k \in ToSet(l.rotated[x].lines)
        BY <1>4, <1>10, HeldIs
    <2>2. ASSUME NEW d \in Days, k \in ToSet(l.plain[d].lines)
          PROVE  k \in HeldBy(m) \/ k \in m.lost
        <3>1. k \in ToSet(m.plain[d].lines) \/ k \in m.lost
            BY <1>3, <1>5, <1>6, <1>10, <2>2
        <3> QED
            BY <3>1, HeldIs
    <2>3. ASSUME NEW x \in Times, k \in ToSet(l.rotated[x].lines)
          PROVE  k \in HeldBy(m) \/ k \in m.lost
        <3>1. k \in ToSet(m.rotated[x].lines) \/ k \in m.lost
            BY <1>3, <1>5, <1>6, <1>10, <2>3
        <3> QED
            BY <3>1, HeldIs
    <2> QED
        BY <2>1, <2>2, <2>3
<1>11. ASSUME InItsOrder(l) PROVE InItsOrder(m)
    <2>1. m.name = l.name /\ m.doubled = l.doubled
        BY <1>1 DEF Shrinks
    <2>2. Ascending(m)
        <3>1. \A d \in Days : Sorted(m.plain[d].lines, Less) /\ All(m.plain[d].lines, m.buffer, Less)
            BY <1>4, <1>7, <1>11 DEF InItsOrder, Ascending, All
        <3>2. \A d, e \in Days : d < e => All(m.plain[d].lines, m.plain[e].lines, Less)
            BY <1>7, <1>11 DEF InItsOrder, Ascending, All
        <3> QED
            BY <1>4, <3>1, <3>2 DEF Ascending
    <2>3. ASSUME ArchivesAscending(l) PROVE ArchivesAscending(m)
        <3>1. \A x \in Times : /\ Sorted(m.rotated[x].lines, Less)
                               /\ All(m.rotated[x].lines, m.plain[m.name].lines, Less)
                               /\ All(m.rotated[x].lines, m.buffer, Less)
            BY <1>3, <1>4, <1>7, <1>8, <2>1, <2>3 DEF ArchivesAscending, All
        <3>2. \A x, y \in Times : x < y => All(m.rotated[x].lines, m.rotated[y].lines, Less)
            BY <1>8, <2>3 DEF ArchivesAscending, All
        <3> QED
            BY <3>1, <3>2 DEF ArchivesAscending
    <2> QED
        BY <1>11, <2>1, <2>2, <2>3 DEF InItsOrder
<1>12. ASSUME NEW r, r.cursor \in Cursor, Unread(l, r) PROVE Unread(m, r)
    <2>1. ASSUME NEW d \in Days, NEW j \in DOMAIN m.plain[d].lines, Ahead(r.cursor, d, j)
          PROVE  m.plain[d].lines[j] \notin ToSet(r.shown)
        <3>1. PICK i \in DOMAIN l.plain[d].lines : j <= i /\ m.plain[d].lines[j] = l.plain[d].lines[i]
            BY <1>3, <1>5, <1>6
        <3>2. Ahead(r.cursor, d, i)
            <4>1. m.plain[d].lines \in Seq(Nat) /\ l.plain[d].lines \in Seq(Nat)
                BY <1>1, <1>2, <1>3, SoundParts
            <4>2. r.cursor.line \in Nat
                BY <1>12 DEF Cursor
            <4>3. i \in Nat
                BY <3>1, <4>1
            <4>4. j \in Nat
                BY <4>1
            <4> QED
                BY <2>1, <3>1, <4>2, <4>3, <4>4 DEF Ahead
        <3> QED
            BY <1>12, <3>1, <3>2 DEF Unread
    <2> QED
        BY <1>4, <2>1 DEF Unread
<1> QED
    BY <1>1, <1>4, <1>9, <1>10, <1>11, <1>12 DEF Shrinks

-----------------------------------------------------------------------------
(* The lines a reader turns over.                                            *)

Place == [at : {"line"}, file : Days, line : Nat]

\* On an earlier page or higher up on the same one.
Before == {q \in Place \X Place : \/ q[1].file > q[2].file
                                  \/ q[1].file = q[2].file /\ q[1].line < q[2].line}

Line(d, j) == [at |-> "line", file |-> d, line |-> j]

LinesOf(d) == [j \in 1..Len(log.plain[d].lines) |-> Line(d, j)]

LEMMA LinesOfIs ==
    ASSUME NEW d \in Days, log.plain[d].lines \in Seq(Nat)
    PROVE  /\ LinesOf(d) \in Seq(Place) /\ Sorted(LinesOf(d), Before)
           /\ ToSet(LinesOf(d)) = {p \in Place : p.file = d /\ p.line \in DOMAIN log.plain[d].lines}
<1> DEFINE n == Len(log.plain[d].lines)
           s == LinesOf(d)
<1>1. n \in Nat /\ DOMAIN log.plain[d].lines = 1..n
    OBVIOUS
<1> HIDE DEF n
<1>2. \A j \in 1..n : Line(d, j) \in Place /\ Line(d, j).file = d /\ Line(d, j).line = j
    BY <1>1 DEF Line, Place
<1>3. s = [j \in 1..n |-> Line(d, j)]
    BY DEF LinesOf, n
<1> HIDE DEF s
<1>4. s \in [1..n -> Place] /\ DOMAIN s = 1..n /\ \A j \in 1..n : s[j] = Line(d, j)
    BY <1>2, <1>3
<1>5. s \in Seq(Place)
    BY <1>1, <1>4
<1>6. Sorted(s, Before)
    <2> SUFFICES ASSUME NEW i \in 1..n, NEW j \in 1..n, i < j
                 PROVE  <<s[i], s[j]>> \in Before
        BY <1>4 DEF Sorted
    <2> QED
        BY <1>2, <1>4 DEF Before
<1>7. ToSet(s) = {p \in Place : p.file = d /\ p.line \in 1..n}
    <2>1. \A p \in Place : p.file = d /\ p.line \in 1..n => p = Line(d, p.line)
        BY DEF Place, Line
    <2> QED
        BY <1>2, <1>4, <2>1 DEF ToSet
<1> QED
    BY <1>1, <1>5, <1>6, <1>7 DEF s

LEMMA LinesAre ==
    ASSUME \A d \in Days : log.plain[d].lines \in Seq(Nat)
    PROVE  /\ Lines \in Seq(Place) /\ Sorted(Lines, Before)
           /\ ToSet(Lines) = {p \in Place : p.line \in DOMAIN log.plain[p.file].lines}
<1> DEFINE last == DayOf(Horizon)
           N == Cardinality(Days)
           ss == [i \in 1..N |-> LinesOf(last + 1 - i)]
<1>1. last \in Nat /\ Days = 0..last
    BY DayType DEF Days
<1> HIDE DEF last
<1>2. N = last + 1
    <2>1. Cardinality(0..last) = IF 0 > last THEN 0 ELSE last - 0 + 1
        BY <1>1, FS_Interval
    <2>2. (IF 0 > last THEN 0 ELSE last - 0 + 1) = last + 1
        BY <1>1
    <2> QED
        BY <1>1, <2>1, <2>2
<1> HIDE DEF N
<1>3. N \in Nat /\ \A i \in 1..N : last + 1 - i \in Days
    BY <1>1, <1>2
<1>4. \A i \in 1..N : /\ ss[i] = LinesOf(last + 1 - i)
                      /\ ss[i] \in Seq(Place) /\ Sorted(ss[i], Before)
                      /\ ToSet(ss[i]) = {p \in Place : /\ p.file = last + 1 - i
                                                       /\ p.line \in DOMAIN log.plain[p.file].lines}
    <2> SUFFICES ASSUME NEW i \in 1..N
                 PROVE  /\ ss[i] = LinesOf(last + 1 - i)
                        /\ ss[i] \in Seq(Place) /\ Sorted(ss[i], Before)
                        /\ ToSet(ss[i]) = {p \in Place : /\ p.file = last + 1 - i
                                                         /\ p.line \in DOMAIN log.plain[p.file].lines}
        OBVIOUS
    <2> DEFINE d == last + 1 - i
    <2>1. d \in Days /\ ss[i] = LinesOf(d)
        BY <1>3
    <2> HIDE DEF d, ss
    <2>2. /\ LinesOf(d) \in Seq(Place) /\ Sorted(LinesOf(d), Before)
          /\ ToSet(LinesOf(d)) = {p \in Place : p.file = d /\ p.line \in DOMAIN log.plain[d].lines}
        BY <2>1, LinesOfIs
    <2>3. {p \in Place : p.file = d /\ p.line \in DOMAIN log.plain[d].lines} =
          {p \in Place : p.file = d /\ p.line \in DOMAIN log.plain[p.file].lines}
        OBVIOUS
    <2> QED
        BY <2>1, <2>2, <2>3 DEF d
<1>5. Lines = FlattenSeq(ss)
    BY DEF Lines, LinesOf, Line, N, last
<1>6. DOMAIN ss = 1..N
    OBVIOUS
<1> HIDE DEF ss
<1>7. ss \in Seq(Seq(Place))
    <2>1. ss \in [1..N -> Seq(Place)]
        BY <1>4, <1>6, <1>5 DEF ss
    <2> QED
        BY <1>3, <2>1
<1>8. \A i, j \in 1..N : i < j => All(ss[i], ss[j], Before)
    <2> SUFFICES ASSUME NEW i \in 1..N, NEW j \in 1..N, i < j,
                        NEW p \in ToSet(ss[i]), NEW q \in ToSet(ss[j])
                 PROVE  <<p, q>> \in Before
        BY DEF All
    <2>1. p \in Place /\ q \in Place /\ p.file = last + 1 - i /\ q.file = last + 1 - j
        BY <1>4
    <2>2. p.file > q.file
        BY <1>1, <1>3, <2>1
    <2> QED
        BY <2>1, <2>2 DEF Before
<1>9. /\ Lines \in Seq(Place) /\ Sorted(Lines, Before)
      /\ ToSet(Lines) = UNION {ToSet(ss[i]) : i \in 1..N}
    BY <1>4, <1>5, <1>6, <1>7, <1>8, Flattened
<1>10. \A p \in Place : \E i \in 1..N : p.file = last + 1 - i
    <2> SUFFICES ASSUME NEW p \in Place PROVE \E i \in 1..N : p.file = last + 1 - i
        OBVIOUS
    <2>1. p.file \in 0..last
        BY <1>1 DEF Place
    <2>2. last + 1 - p.file \in 1..N /\ p.file = last + 1 - (last + 1 - p.file)
        BY <1>1, <1>2, <2>1
    <2> QED
        BY <2>2
<1>11. UNION {ToSet(ss[i]) : i \in 1..N} = {p \in Place : p.line \in DOMAIN log.plain[p.file].lines}
    BY <1>4, <1>10
<1> QED
    BY <1>9, <1>11

\* What is left to turn over are lines not before the cursor, in their order.
LEMMA RemainingIs ==
    ASSUME \A d \in Days : log.plain[d].lines \in Seq(Nat),
           reader.cursor \in Cursor, reader.cursor.at # "end"
    PROVE  /\ Remaining \in Seq(Place) /\ Sorted(Remaining, Before)
           /\ \A p \in ToSet(Remaining) : /\ p \in Place
                                          /\ p.line \in DOMAIN log.plain[p.file].lines
                                          /\ Ahead(reader.cursor, p.file, p.line)
<1> DEFINE I == {i \in 1..Len(Lines) : Lines[i] = reader.cursor}
           from == IF reader.cursor.at = "start" THEN 1
                   ELSE IF I # {} THEN Min(I) ELSE 0
<1>1. Remaining = IF from = 0 THEN <<>> ELSE SubSeq(Lines, from, Len(Lines))
    BY DEF Remaining, SelectInSeq
<1>2. /\ Lines \in Seq(Place) /\ Sorted(Lines, Before)
      /\ ToSet(Lines) = {p \in Place : p.line \in DOMAIN log.plain[p.file].lines}
    BY LinesAre
<1>3. Len(Lines) \in Nat /\ DOMAIN Lines = 1..Len(Lines)
    BY <1>2
<1>4. I # {} => Min(I) \in I
    <2> SUFFICES ASSUME I # {} PROVE Min(I) \in I
        OBVIOUS
    <2>1. I \in SUBSET Nat
        BY <1>3
    <2> HIDE DEF I
    <2>2. \E x \in I : \A y \in I : x <= y
        BY <2>1, Least
    <2> QED
        BY <2>2 DEF Min
<1>5. /\ from \in Nat
      /\ from # 0 /\ reader.cursor.at # "start" => /\ from \in 1..Len(Lines)
                                                   /\ Lines[from] = reader.cursor
      /\ reader.cursor.at = "start" => from = 1
    BY <1>3, <1>4
<1> HIDE DEF from, I
<1>6. CASE from = 0
    <2>1. Remaining = <<>> /\ <<>> \in Seq(Place)
        BY <1>1, <1>6
    <2> QED
        BY <2>1, NoLines
<1>7. CASE from # 0
    <2> DEFINE n == Len(Lines)
               s == SubSeq(Lines, from, n)
    <2>1. \A i \in from..n : i \in DOMAIN Lines /\ Lines[i] \in Place /\ Lines[i] \in ToSet(Lines)
        BY <1>2, <1>3, <1>5, <1>7 DEF ToSet
    <2>2. /\ s \in Seq(Place) /\ Len(s) = (IF from <= n THEN n - from + 1 ELSE 0)
          /\ \A i \in 1..n - from + 1 : s[i] = Lines[from + i - 1]
        <3>1. from \in Int /\ n \in Int
            BY <1>3, <1>5
        <3>2. \A i \in from..n : Lines[i] \in Place
            BY <2>1
        <3> HIDE DEF n
        <3> QED
            BY <3>1, <3>2, SubSeqProperties
    <2>3. DOMAIN s = 1..Len(s)
        BY <2>2
    <2> HIDE DEF s, n
    <2>4. \A i \in DOMAIN s : /\ s[i] = Lines[from + i - 1]
                              /\ from + i - 1 \in from..n /\ from + i - 1 \in DOMAIN Lines
        BY <1>3, <1>5, <1>7, <2>2, <2>3 DEF n
    <2>5. Sorted(s, Before)
        <3> SUFFICES ASSUME NEW i \in DOMAIN s, NEW j \in DOMAIN s, i < j
                     PROVE  <<s[i], s[j]>> \in Before
            BY DEF Sorted
        <3>1. from + i - 1 < from + j - 1
            BY <1>5, <2>2, <2>3
        <3> QED
            BY <1>2, <2>4, <3>1 DEF Sorted
    <2>6. ASSUME NEW i \in DOMAIN s
          PROVE  /\ s[i] \in Place /\ s[i].line \in DOMAIN log.plain[s[i].file].lines
                 /\ Ahead(reader.cursor, s[i].file, s[i].line)
        <3>1. s[i] \in ToSet(Lines)
            BY <2>1, <2>4
        <3>2. s[i] \in Place /\ s[i].line \in DOMAIN log.plain[s[i].file].lines
            BY <1>2, <3>1
        <3>3. CASE reader.cursor.at = "start"
            BY <3>2, <3>3 DEF Ahead
        <3>4. CASE reader.cursor.at # "start"
            <4>1. from \in DOMAIN Lines /\ Lines[from] = reader.cursor
                BY <1>3, <1>5, <1>7, <3>4
            <4>2. reader.cursor.at = "line" /\ reader.cursor.file \in Days /\ reader.cursor.line \in Nat
                BY <3>4 DEF Cursor
            <4>3. from = from + i - 1 \/ from < from + i - 1
                BY <1>3, <1>5, <2>2, <2>3
            <4>4. s[i] = reader.cursor \/ <<reader.cursor, s[i]>> \in Before
                BY <1>2, <2>4, <4>1, <4>3 DEF Sorted
            <4>5. s[i].file \in Nat /\ reader.cursor.file \in Nat /\ s[i].line \in Nat
                BY <3>2, <4>2, DayType DEF Place
            <4>6. \A p, q : <<p, q>> \in Before => p.file > q.file \/ (p.file = q.file /\ p.line < q.line)
                BY DEF Before
            <4>7. \/ s[i] = reader.cursor
                  \/ s[i].file < reader.cursor.file
                  \/ s[i].file = reader.cursor.file /\ reader.cursor.line < s[i].line
                BY <4>4, <4>5, <4>6
            <4> QED
                BY <3>2, <4>2, <4>5, <4>7 DEF Ahead
        <3> QED
            BY <3>2, <3>3, <3>4
    <2>7. Remaining = s
        BY <1>1, <1>7 DEF s, n
    <2> QED
        BY <2>2, <2>5, <2>6, <2>7 DEF ToSet
<1> QED
    BY <1>6, <1>7

\* No two places hold the same entry.
LEMMA PlacesDiffer ==
    ASSUME \A d \in Days : log.plain[d].lines \in Seq(Nat), Ascending(log),
           NEW p \in Place, p.line \in DOMAIN log.plain[p.file].lines,
           NEW q \in Place, q.line \in DOMAIN log.plain[q.file].lines,
           <<p, q>> \in Before
    PROVE  log.plain[p.file].lines[p.line] # log.plain[q.file].lines[q.line]
<1> DEFINE x == log.plain[p.file].lines[p.line]
           y == log.plain[q.file].lines[q.line]
<1>1. /\ p.file \in Days /\ q.file \in Days /\ p.file \in Nat /\ q.file \in Nat
      /\ p.file > q.file \/ (p.file = q.file /\ p.line < q.line)
    BY DayType DEF Place, Before
<1>2. x \in Nat /\ y \in Nat
    <2>1. log.plain[p.file].lines \in Seq(Nat) /\ log.plain[q.file].lines \in Seq(Nat)
        BY <1>1
    <2>2. \A s \in Seq(Nat) : \A i \in DOMAIN s : s[i] \in Nat
        OBVIOUS
    <2> QED
        BY <2>1, <2>2
<1>3. x \in ToSet(log.plain[p.file].lines) /\ y \in ToSet(log.plain[q.file].lines)
    BY DEF ToSet
<1>4. <<x, y>> \in Less \/ <<y, x>> \in Less
    <2>1. CASE p.file > q.file
        <3>1. All(log.plain[q.file].lines, log.plain[p.file].lines, Less)
            BY <1>1, <2>1 DEF Ascending
        <3> HIDE DEF x, y
        <3> QED
            BY <1>3, <3>1 DEF All
    <2>2. CASE p.file = q.file /\ p.line < q.line
        <3>1. Sorted(log.plain[p.file].lines, Less)
            BY <1>1 DEF Ascending
        <3> QED
            BY <2>2, <3>1 DEF Sorted
    <2> QED
        BY <1>1, <2>1, <2>2
<1> HIDE DEF x, y
<1>5. x # y
    BY <1>2, <1>4 DEF Less
<1> QED
    BY <1>5 DEF x, y

\* As far as a page reaches: the first places of what remains.
Shown(n) == [i \in 1..n |-> log.plain[Remaining[i].file].lines[Remaining[i].line]]

Differ == {p \in Nat \X Nat : p[1] # p[2]}

LEMMA PageIs ==
    ASSUME \A d \in Days : log.plain[d].lines \in Seq(Nat),
           reader.cursor \in Cursor, reader.cursor.at # "end", Page
    PROVE  \E n \in Nat :
              /\ n <= Len(Remaining)
              /\ reader'.shown = reader.shown \o Shown(n)
              /\ \/ reader'.cursor = [at |-> "end", file |-> 0, line |-> 0]
                 \/ n < Len(Remaining) /\ reader'.cursor = Remaining[n + 1]
<1> DEFINE R == Remaining
           n == Min({PageSize, Len(R)})
           page == SubSeq(R, 1, n)
<1>1. R \in Seq(Place)
    BY RemainingIs
<1> HIDE DEF R
<1>2. Len(R) \in Nat /\ PageSize \in Nat /\ \A i \in 1..Len(R) : R[i] \in Place
    BY <1>1, LogBounds
<1>3. n \in Nat /\ n <= Len(R) /\ n <= PageSize /\ (n = PageSize \/ n = Len(R))
    <2>1. \E x \in {PageSize, Len(R)} : \A y \in {PageSize, Len(R)} : x <= y
        BY <1>2
    <2>2. n \in {PageSize, Len(R)} /\ \A y \in {PageSize, Len(R)} : n <= y
        BY <2>1 DEF Min
    <2> HIDE DEF n
    <2> QED
        BY <1>2, <2>2
<1> HIDE DEF n
<1>4. DOMAIN page = 1..n /\ \A i \in 1..n : page[i] = R[i]
    <2>1. 1 \in Int /\ n \in Int /\ \A i \in 1..n : R[i] \in Place
        BY <1>2, <1>3
    <2>2. /\ page \in Seq(Place)
          /\ Len(page) = (IF 1 <= n THEN n - 1 + 1 ELSE 0)
          /\ \A i \in 1 .. n - 1 + 1 : page[i] = R[1 + i - 1]
        BY <2>1, SubSeqProperties
    <2> HIDE DEF page
    <2>3. Len(page) = n /\ n - 1 + 1 = n
        BY <1>3, <2>2
    <2> QED
        BY <1>3, <2>2, <2>3
<1>5. reader'.shown = reader.shown \o
          [i \in DOMAIN page |-> log.plain[page[i].file].lines[page[i].line]]
    BY DEF Page, R, n
<1>6. reader'.cursor = PageAfter(R)
    BY DEF Page, R
<1> HIDE DEF page
<1>7. [i \in DOMAIN page |-> log.plain[page[i].file].lines[page[i].line]] = Shown(n)
    BY <1>4 DEF Shown, R
<1>8. \/ reader'.cursor = [at |-> "end", file |-> 0, line |-> 0]
      \/ n < Len(R) /\ reader'.cursor = R[n + 1]
    <2>1. CASE Len(R) > PageSize
        BY <1>2, <1>3, <1>6, <2>1 DEF PageAfter
    <2>2. CASE ~(Len(R) > PageSize)
        BY <1>6, <2>2 DEF PageAfter
    <2> QED
        BY <2>1, <2>2
<1> QED
    BY <1>3, <1>5, <1>7, <1>8 DEF R

LEMMA PageKeeps ==
    ASSUME Sound(log, entries, now), now \in Times, Ascending(log), Unread(log, reader),
           reader.cursor \in Cursor, reader.shown \in Seq(Nat), Sorted(reader.shown, Differ),
           ToSet(reader.shown) \subseteq DOMAIN entries, Page
    PROVE  /\ reader'.cursor \in Cursor /\ reader'.shown \in Seq(Nat)
           /\ Sorted(reader'.shown, Differ) /\ ToSet(reader'.shown) \subseteq DOMAIN entries
           /\ Unread(log, reader')
<1> DEFINE R == Remaining
           E(p) == log.plain[p.file].lines[p.line]
<1>1. /\ \A d \in Days : log.plain[d].lines \in Seq(Nat)
      /\ log.buffer \in Seq(Nat)
    BY SoundParts
<1>2. reader.cursor.at # "end"
    BY DEF Page
<1>3. /\ R \in Seq(Place) /\ Sorted(R, Before)
      /\ \A p \in ToSet(R) : /\ p \in Place /\ p.line \in DOMAIN log.plain[p.file].lines
                             /\ Ahead(reader.cursor, p.file, p.line)
    BY <1>1, <1>2, RemainingIs
<1>4. PICK n \in Nat :
          /\ n <= Len(R)
          /\ reader'.shown = reader.shown \o Shown(n)
          /\ \/ reader'.cursor = [at |-> "end", file |-> 0, line |-> 0]
             \/ n < Len(R) /\ reader'.cursor = R[n + 1]
    BY <1>1, <1>2, PageIs
<1>5. /\ Shown(n) = [i \in 1..n |-> E(R[i])]
    BY DEF Shown
<1> HIDE DEF R
<1>6. Len(R) \in Nat /\ DOMAIN R = 1..Len(R)
    BY <1>3
<1>7. \A i \in 1..Len(R) : /\ R[i] \in Place /\ R[i].file \in Days
                           /\ R[i].line \in DOMAIN log.plain[R[i].file].lines
                           /\ Ahead(reader.cursor, R[i].file, R[i].line)
                           /\ E(R[i]) \in ToSet(log.plain[R[i].file].lines)
                           /\ E(R[i]) \in Nat
    <2> SUFFICES ASSUME NEW i \in 1..Len(R)
                 PROVE  /\ R[i] \in Place /\ R[i].file \in Days
                        /\ R[i].line \in DOMAIN log.plain[R[i].file].lines
                        /\ Ahead(reader.cursor, R[i].file, R[i].line)
                        /\ E(R[i]) \in ToSet(log.plain[R[i].file].lines)
                        /\ E(R[i]) \in Nat
        OBVIOUS
    <2>1. R[i] \in ToSet(R)
        BY <1>6 DEF ToSet
    <2>2. /\ R[i] \in Place /\ R[i].line \in DOMAIN log.plain[R[i].file].lines
          /\ Ahead(reader.cursor, R[i].file, R[i].line)
        BY <1>3, <2>1
    <2>3. R[i].file \in Days
        BY <2>2 DEF Place
    <2>4. log.plain[R[i].file].lines \in Seq(Nat)
        BY <1>1, <2>3
    <2>5. \A s \in Seq(Nat) : \A j \in DOMAIN s : s[j] \in Nat /\ s[j] \in ToSet(s)
        BY DEF ToSet
    <2> QED
        BY <2>2, <2>3, <2>4, <2>5
<1>8. 1..n \subseteq 1..Len(R)
    BY <1>4, <1>6
<1>9. \A i, j \in 1..Len(R) : i < j => E(R[i]) # E(R[j])
    <2> SUFFICES ASSUME NEW i \in 1..Len(R), NEW j \in 1..Len(R), i < j
                 PROVE  E(R[i]) # E(R[j])
        OBVIOUS
    <2>1. <<R[i], R[j]>> \in Before
        BY <1>3, <1>6 DEF Sorted
    <2> QED
        BY <1>1, <1>7, <2>1, PlacesDiffer
<1> DEFINE v == Shown(n)
<1>10. /\ v \in Seq(Nat) /\ DOMAIN v = 1..n /\ \A i \in 1..n : v[i] = E(R[i])
    <2>1. v \in [1..n -> Nat]
        BY <1>5, <1>7, <1>8
    <2>2. DOMAIN v = 1..n /\ \A i \in 1..n : v[i] = E(R[i])
        BY <1>5
    <2> HIDE DEF v, E
    <2> QED
        BY <1>4, <2>1, <2>2
<1> HIDE DEF v
<1>11. Sorted(v, Differ)
    <2> SUFFICES ASSUME NEW i \in 1..n, NEW j \in 1..n, i < j
                 PROVE  <<v[i], v[j]>> \in Differ
        BY <1>10 DEF Sorted
    <2>1. v[i] # v[j] /\ v[i] \in Nat /\ v[j] \in Nat
        <3>1. i \in 1..Len(R) /\ j \in 1..Len(R)
            BY <1>8
        <3>2. E(R[i]) # E(R[j]) /\ E(R[i]) \in Nat /\ E(R[j]) \in Nat
            BY <1>7, <1>9, <3>1
        <3> HIDE DEF E
        <3> QED
            BY <1>10, <3>2
    <2> QED
        BY <2>1 DEF Differ
<1>12. \A x \in ToSet(v) : \E i \in 1..n : x = E(R[i])
    BY <1>10, ZenonT(30) DEF ToSet
<1>13. All(reader.shown, v, Differ)
    <2> SUFFICES ASSUME NEW x \in ToSet(reader.shown), NEW y \in ToSet(v)
                 PROVE  <<x, y>> \in Differ
        BY DEF All
    <2>1. PICK i \in 1..n : y = E(R[i])
        BY <1>12
    <2>2. y \notin ToSet(reader.shown) /\ y \in Nat
        BY <1>7, <1>8, <2>1 DEF Unread
    <2>3. x \in Nat
        BY DEF ToSet
    <2> QED
        BY <2>2, <2>3 DEF Differ
<1>14. /\ reader'.shown \in Seq(Nat) /\ Sorted(reader'.shown, Differ)
       /\ ToSet(reader'.shown) = ToSet(reader.shown) \cup ToSet(v)
    BY <1>4, <1>10, <1>11, <1>13, ConcatSorted DEF v
<1>15. \A x \in ToSet(v) : x \in DOMAIN entries /\ x \notin ToSet(log.buffer)
    <2> SUFFICES ASSUME NEW x \in ToSet(v) PROVE x \in DOMAIN entries /\ x \notin ToSet(log.buffer)
        OBVIOUS
    <2>1. PICK i \in 1..n : x = E(R[i])
        BY <1>12
    <2>2. R[i].file \in Days /\ x \in ToSet(log.plain[R[i].file].lines) /\ x \in Nat
        BY <1>7, <1>8, <2>1
    <2>3. x \in DOMAIN entries
        BY <2>2 DEF Sound, FileSound
    <2>4. All(log.plain[R[i].file].lines, log.buffer, Less)
        BY <2>2 DEF Ascending
    <2>5. x \in ToSet(log.buffer) => <<x, x>> \in Less
        BY <2>2, <2>4 DEF All
    <2> QED
        BY <2>2, <2>3, <2>5 DEF Less
<1>16. reader'.cursor \in Cursor
    <2>1. [at |-> "end", file |-> 0, line |-> 0] \in Cursor
        <3>1. 0 \in Days
            BY DayType DEF Days
        <3> QED
            BY <3>1 DEF Cursor
    <2>2. n < Len(R) => R[n + 1] \in Cursor
        <3>1. n < Len(R) => R[n + 1] \in Place
            BY <1>4, <1>6, <1>7
        <3>2. Place \subseteq Cursor
            BY DEF Place, Cursor
        <3> QED
            BY <3>1, <3>2
    <2> QED
        BY <1>4, <2>1, <2>2
<1>17. ASSUME NEW d \in Days, NEW j \in DOMAIN log.plain[d].lines, Ahead(reader'.cursor, d, j)
       PROVE  log.plain[d].lines[j] \notin ToSet(reader'.shown)
    <2> DEFINE c == R[n + 1]
               p == Line(d, j)
    <2>1. n < Len(R) /\ reader'.cursor = c
        BY <1>4, <1>17 DEF Ahead
    <2>2. n + 1 \in 1..Len(R)
        BY <1>4, <1>6, <2>1
    <2>3. c \in Place /\ Ahead(reader.cursor, c.file, c.line)
        BY <1>7, <2>2
    <2>4. p \in Place /\ p.file = d /\ p.line = j /\ p.line \in DOMAIN log.plain[p.file].lines
        BY <1>1 DEF Line, Place
    <2> HIDE DEF c, p
    <2>5. /\ c.at = "line" /\ c.file \in Nat /\ c.line \in Nat
          /\ d \in Nat /\ j \in Nat
        BY <2>3, <2>4, DayType DEF Place
    <2>6. d < c.file \/ (d = c.file /\ j >= c.line)
        BY <1>17, <2>1, <2>5 DEF Ahead
    <2>7. Ahead(reader.cursor, d, j)
        <3>1. reader.cursor.file \in Nat /\ reader.cursor.line \in Nat
            BY DayType DEF Cursor
        <3> QED
            BY <2>3, <2>5, <2>6, <3>1 DEF Ahead
    <2>8. log.plain[d].lines[j] \notin ToSet(reader.shown)
        BY <2>7 DEF Unread
    <2>9. \A i \in 1..n : E(R[i]) # log.plain[d].lines[j]
        <3> SUFFICES ASSUME NEW i \in 1..n PROVE E(R[i]) # log.plain[d].lines[j]
            OBVIOUS
        <3>1. <<R[i], c>> \in Before
            <4>1. i \in DOMAIN R /\ n + 1 \in DOMAIN R /\ i < n + 1
                BY <1>4, <1>6, <1>8, <2>2
            <4> QED
                BY <1>3, <4>1 DEF Sorted, c
        <3>2. R[i] \in Place /\ R[i].line \in DOMAIN log.plain[R[i].file].lines
            BY <1>7, <1>8
        <3>3. /\ R[i].file \in Nat /\ R[i].line \in Nat
              /\ R[i].file > c.file \/ (R[i].file = c.file /\ R[i].line < c.line)
            BY <3>1, <3>2, DayType DEF Before, Place
        <3>4. R[i].file > p.file \/ (R[i].file = p.file /\ R[i].line < p.line)
            BY <2>4, <2>5, <2>6, <3>3
        <3>5. <<R[i], p>> \in Before
            BY <2>4, <3>2, <3>4 DEF Before
        <3>6. E(R[i]) # log.plain[p.file].lines[p.line]
            BY <1>1, <2>4, <3>2, <3>5, PlacesDiffer
        <3> QED
            BY <2>4, <3>6
    <2> HIDE DEF E
    <2> QED
        BY <1>12, <1>14, <2>8, <2>9
<1>18. ToSet(reader'.shown) \cap ToSet(log.buffer) = {}
    BY <1>14, <1>15 DEF Unread
<1>19. Unread(log, reader')
    BY <1>17, <1>18 DEF Unread
<1> QED
    BY <1>14, <1>15, <1>16, <1>19

-----------------------------------------------------------------------------
(* The invariant.                                                            *)

\* What a log l with the entries es may leave out at the time t, and what it may not
\* have when everything before `to` was purged and no file failed.
Remembers(l, es, t, to) ==
    \A k \in DOMAIN es : \/ k \in HeldBy(l) \/ k \in l.lost
                         \/ es[k].at < to \/ t - es[k].at > Retain

Purged0(l, es, to) == \A k \in HeldBy(l) : es[k].at >= to \/ k \in l.spared

\* The reader has been shown entries, none twice, and none that is still to come.
Reads(r, l, es) ==
    /\ r.cursor \in Cursor /\ r.shown \in Seq(Nat)
    /\ ToSet(r.shown) \subseteq DOMAIN es /\ Sorted(r.shown, Differ)
    /\ Unread(l, r)

\* All that is kept of the log l, its entries es, the time t, the reader r and the
\* date `to` of a purge.
Fine(l, es, t, r, to) ==
    /\ EntriesSound(es, t) /\ Sound(l, es, t) /\ InItsOrder(l)
    /\ to \in 0..t
    /\ Remembers(l, es, t, to) /\ Purged0(l, es, to)
    /\ Reads(r, l, es)

LogInv == Fine(log, entries, now, reader, purged.to)

\* Time passes, entries are added, payload files come and go.
Follows(es, fs) == \A k \in DOMAIN es : k \in DOMAIN fs /\ fs[k].at = es[k].at

LEMMA SoundLater ==
    ASSUME NEW l, NEW es, NEW fs, NEW t \in Times, NEW u \in Times, t <= u,
           Sound(l, es, t), Follows(es, fs)
    PROVE  Sound(l, fs, u)
<1>1. t \in Nat /\ u \in Nat /\ DayOf(t) <= DayOf(u) /\ DayOf(t) \in Nat /\ DayOf(u) \in Nat
    BY DayType
<1>2. ASSUME NEW f, FileSound(f, es, t) PROVE FileSound(f, fs, u)
    <2>1. f.mtime \in Nat
        BY <1>2, DayType DEF FileSound, File
    <2> QED
        BY <1>1, <1>2, <2>1 DEF FileSound, Follows
<1>3. l.name \in Nat
    BY DayType DEF Sound, Logger
<1>4. \A x \in Times : x > u => x > t
    BY <1>1, DayType
<1>5. l \in Logger /\ l.name <= DayOf(u) /\ ToSet(l.buffer) \subseteq DOMAIN fs
    BY <1>1, <1>3 DEF Sound, Follows
<1>6. \A d \in Days : /\ FileSound(l.plain[d], fs, u) /\ l.plain[d].is # "torn"
                      /\ d > l.name => l.plain[d].is = "missing"
    BY <1>2 DEF Sound
<1>7. \A x \in Times : /\ FileSound(l.rotated[x], fs, u)
                       /\ x > u => l.rotated[x].is = "missing"
    BY <1>2, <1>4 DEF Sound
<1> QED
    BY <1>5, <1>6, <1>7 DEF Sound

\* The entries of a sound log.
LEMMA HeldLogged ==
    ASSUME NEW l, NEW es, NEW t, Sound(l, es, t)
    PROVE  HeldBy(l) \subseteq DOMAIN es
<1> SUFFICES ASSUME NEW k \in HeldBy(l) PROVE k \in DOMAIN es
    OBVIOUS
<1> QED
    BY HeldIs DEF Sound, FileSound

LEMMA EntryAt ==
    ASSUME NEW es, NEW t, EntriesSound(es, t)
    PROVE  \A k \in DOMAIN es : es[k] \in Entry /\ es[k].at \in Times /\ es[k].at \in Nat /\ es[k].at <= t
<1> SUFFICES ASSUME NEW k \in DOMAIN es
             PROVE  es[k] \in Entry /\ es[k].at \in Times /\ es[k].at \in Nat /\ es[k].at <= t
    OBVIOUS
<1>1. es \in Seq(Entry) /\ es[k].at <= t
    BY DEF EntriesSound
<1>2. es[k] \in Entry
    BY <1>1
<1> QED
    BY <1>1, <1>2, DayType DEF Entry

\* Only the payload of an entry changes.
LEMMA FineRenewed ==
    ASSUME NEW l, NEW es, NEW t, NEW r, NEW to, Fine(l, es, t, r, to),
           NEW fs \in [DOMAIN es -> Entry], Follows(es, fs)
    PROVE  Fine(l, fs, t, r, to)
<1>1. t \in Times /\ es \in Seq(Entry) /\ DOMAIN fs = DOMAIN es
    BY DEF Fine, EntriesSound
<1>2. EntriesSound(fs, t)
    <2>1. DOMAIN es = 1..Len(es) /\ Len(es) \in Nat
        BY <1>1
    <2>2. fs \in Seq(Entry)
        BY <2>1
    <2> QED
        BY <1>1, <2>2 DEF Fine, EntriesSound, Follows
<1>3. Sound(l, fs, t)
    <2>1. t <= t
        BY <1>1, DayType
    <2> QED
        BY <1>1, <2>1, SoundLater DEF Fine
<1>4. Remembers(l, fs, t, to)
    BY <1>1 DEF Fine, Remembers, Follows
<1>5. Purged0(l, fs, to)
    BY <1>1, HeldLogged DEF Fine, Purged0, Follows
<1>6. Reads(r, l, fs)
    BY <1>1 DEF Fine, Reads
<1> QED
    BY <1>2, <1>3, <1>4, <1>5, <1>6 DEF Fine

\* Only the files change, and nothing is dropped without being noted.
LEMMA FineMoved ==
    ASSUME NEW l, NEW es, NEW t, NEW r, NEW to, Fine(l, es, t, r, to),
           NEW m, Sound(m, es, t), Accounts(l, m), InItsOrder(m), Unread(m, r)
    PROVE  Fine(m, es, t, r, to)
<1>1. Remembers(m, es, t, to)
    BY DEF Fine, Remembers, Accounts
<1>2. Purged0(m, es, to)
    BY DEF Fine, Purged0, Accounts
<1> QED
    BY <1>1, <1>2 DEF Fine, Reads

LEMMA InitFine == Init => LogInv
<1> SUFFICES ASSUME Init PROVE LogInv
    OBVIOUS
<1>1. /\ now = 0 /\ entries = <<>> /\ purged.to = 0
      /\ reader.cursor = [at |-> "start", file |-> 0, line |-> 0] /\ reader.shown = <<>>
      /\ log.name = 0 /\ log.buffer = <<>> /\ log.lost = {}
      /\ \A d \in Days : log.plain[d] = Missing
      /\ \A x \in Times : log.rotated[x] = Missing
    BY DEF Init
<1>2. 0 \in Times /\ 0 \in Days /\ 0 \in Nat /\ 0 <= DayOf(0)
    <2>1. 0 \in Times
        BY LogBounds DEF Times
    <2>2. DayOf(0) \in Nat
        BY <2>1, DayType
    <2> QED
        BY <2>1, <2>2, DayType DEF Days
<1>3. now \in Times
    BY <1>1, <1>2
<1>4. Missing \in File /\ Missing.lines = <<>> /\ Missing.is = "missing" /\ Missing.mtime = 0
    BY <1>2 DEF Missing, File
<1>5. log \in Logger
    <2>1. [d \in Days |-> Missing] \in [Days -> File] /\ [x \in Times |-> Missing] \in [Times -> File]
        BY <1>4
    <2>2. log = [name |-> 0, buffer |-> <<>>,
                 plain |-> [d \in Days |-> Missing], rotated |-> [x \in Times |-> Missing],
                 lost |-> {}, doubled |-> FALSE, spared |-> {}, faults |-> 0]
        BY DEF Init
    <2> HIDE DEF Missing
    <2> QED
        BY <1>2, <2>1, <2>2 DEF Logger
<1>6. EntriesSound(entries, now)
    BY <1>1, <1>3 DEF EntriesSound
<1>7. FileSound(Missing, entries, now)
    BY <1>1, <1>4, NoLines DEF FileSound
<1>8. Sound(log, entries, now)
    BY <1>1, <1>2, <1>4, <1>5, <1>7, NoLines DEF Sound
<1>9. InItsOrder(log)
    BY <1>1, <1>4, <1>2, NoLines DEF InItsOrder, Ascending, ArchivesAscending, All
<1>10. Remembers(log, entries, now, purged.to)
    BY <1>1 DEF Remembers
<1>11. Purged0(log, entries, purged.to)
    <2>1. HeldBy(log) = {}
        BY <1>8, <1>1, HeldLogged
    <2> QED
        BY <2>1 DEF Purged0
<1>12. Reads(reader, log, entries)
    BY <1>1, <1>2, <1>4, NoLines DEF Reads, Unread, Cursor
<1> QED
    BY <1>1, <1>2, <1>6, <1>8, <1>9, <1>10, <1>11, <1>12 DEF LogInv, Fine

LEMMA TickFine ==
    ASSUME LogInv, Tick
    PROVE  LogInv'
<1>1. /\ entries' = entries /\ log' = log /\ reader' = reader /\ purged' = purged
      /\ now' = now + 1 /\ now < Horizon
    BY DEF Tick
<1>2. Fine(log, entries, now, reader, purged.to)
    BY DEF LogInv
<1>3. now \in Times /\ now + 1 \in Times /\ now \in Nat /\ now <= now + 1
    BY <1>1, <1>2, LogBounds DEF Fine, EntriesSound, Times
<1>4. EntriesSound(entries, now + 1)
    <2>1. \A k \in DOMAIN entries : entries[k].at \in Nat
        BY <1>2, EntryAt DEF Fine
    <2> QED
        BY <1>2, <1>3, <2>1 DEF Fine, EntriesSound
<1>5. Sound(log, entries, now + 1)
    <2>1. Follows(entries, entries)
        BY DEF Follows
    <2> QED
        BY <1>2, <1>3, <2>1, SoundLater DEF Fine
<1>6. Remembers(log, entries, now + 1, purged.to)
    <2>1. \A k \in DOMAIN entries : entries[k].at \in Nat
        BY <1>2, EntryAt DEF Fine
    <2>2. \A k \in DOMAIN entries : now - entries[k].at > Retain => (now + 1) - entries[k].at > Retain
        BY <1>3, <2>1, LogBounds
    <2>3. Remembers(log, entries, now, purged.to)
        BY <1>2 DEF Fine
    <2> SUFFICES ASSUME NEW k \in DOMAIN entries
                 PROVE  \/ k \in HeldBy(log) \/ k \in log.lost
                        \/ entries[k].at < purged.to \/ (now + 1) - entries[k].at > Retain
        BY DEF Remembers
    <2>4. \/ k \in HeldBy(log) \/ k \in log.lost
          \/ entries[k].at < purged.to \/ now - entries[k].at > Retain
        BY <2>3 DEF Remembers
    <2> QED
        BY <2>2, <2>4
<1>7. purged.to \in 0..now + 1
    BY <1>2, <1>3 DEF Fine
<1>8. Fine(log, entries, now + 1, reader, purged.to)
    BY <1>2, <1>4, <1>5, <1>6, <1>7 DEF Fine
<1> QED
    BY <1>1, <1>8 DEF LogInv

LEMMA PayloadFine ==
    ASSUME LogInv, NEW k \in DOMAIN entries, PayloadSettles(k)
    PROVE  LogInv'
<1>1. now' = now /\ log' = log /\ reader' = reader /\ purged' = purged
    BY DEF PayloadSettles
<1>2. Fine(log, entries, now, reader, purged.to)
    BY DEF LogInv
<1>3. entries \in Seq(Entry) /\ now \in Times
    BY <1>2 DEF Fine, EntriesSound
<1>4. entries \in [DOMAIN entries -> Entry]
    <2>1. \A s \in Seq(Entry) : s \in [DOMAIN s -> Entry]
        OBVIOUS
    <2> QED
        BY <1>3, <2>1
<1> DEFINE e == entries[k]
<1>5. PICK f \in Entry : entries' = [entries EXCEPT ![k] = f] /\ f.at = e.at
    <2>1. e \in Entry
        BY <1>4
    <2>2. [e EXCEPT !.payload = "stored", !.since = now] \in Entry
          /\ [e EXCEPT !.payload = "stored", !.since = now].at = e.at
        BY <1>3, <2>1 DEF Entry
    <2>3. [e EXCEPT !.payload = "gone"] \in Entry /\ [e EXCEPT !.payload = "gone"].at = e.at
        BY <2>1 DEF Entry
    <2>4. \/ entries' = [entries EXCEPT ![k] = [e EXCEPT !.payload = "stored", !.since = now]]
          \/ entries' = [entries EXCEPT ![k] = [e EXCEPT !.payload = "gone"]]
        BY DEF PayloadSettles
    <2> HIDE DEF e
    <2> QED
        BY <2>2, <2>3, <2>4
<1>6. entries' \in [DOMAIN entries -> Entry] /\ Follows(entries, entries')
    BY <1>4, <1>5 DEF Follows
<1>7. Fine(log, entries', now, reader, purged.to)
    BY <1>2, <1>6, FineRenewed
<1> QED
    BY <1>1, <1>7 DEF LogInv

\* The entries after some of their payload files went.
LEMMA Dropped ==
    ASSUME entries \in Seq(Entry), NEW G, NEW fs,
           fs = [k \in DOMAIN entries |->
                    IF k \in G THEN [entries[k] EXCEPT !.payload = "gone"] ELSE entries[k]]
    PROVE  fs \in [DOMAIN entries -> Entry] /\ Follows(entries, fs)
<1> SUFFICES ASSUME NEW k \in DOMAIN entries
             PROVE  fs[k] \in Entry /\ fs[k].at = entries[k].at
    BY DEF Follows
<1>1. entries[k] \in Entry
    OBVIOUS
<1>2. fs[k] = [entries[k] EXCEPT !.payload = "gone"] \/ fs[k] = entries[k]
    OBVIOUS
<1> QED
    BY <1>1, <1>2 DEF Entry

LEMMA FlushFine ==
    ASSUME LogInv, Flush
    PROVE  LogInv'
<1>1. /\ now' = now /\ entries' = entries /\ reader' = reader /\ purged' = purged
      /\ log' \in Flushed(log)
    BY DEF Flush
<1>2. Fine(log, entries, now, reader, purged.to)
    BY DEF LogInv
<1>3. /\ Sound(log', entries, now) /\ Accounts(log, log')
      /\ InItsOrder(log') /\ Unread(log', reader)
    BY <1>1, <1>2, FlushedKeeps DEF Fine, Reads
<1>4. Fine(log', entries, now, reader, purged.to)
    BY <1>2, <1>3, FineMoved
<1> QED
    BY <1>1, <1>4 DEF LogInv

LEMMA PageFine ==
    ASSUME LogInv, Page
    PROVE  LogInv'
<1>1. now' = now /\ entries' = entries /\ log' = log /\ purged' = purged
    BY DEF Page
<1>2. Fine(log, entries, now, reader, purged.to)
    BY DEF LogInv
<1>3. Reads(reader', log, entries)
    BY <1>2, PageKeeps DEF Fine, Reads, EntriesSound, InItsOrder
<1>4. Fine(log, entries, now, reader', purged.to)
    BY <1>2, <1>3 DEF Fine
<1> QED
    BY <1>1, <1>4 DEF LogInv

LEMMA PurgeFine ==
    ASSUME LogInv, NEW before \in 1..now, Purge(before)
    PROVE  LogInv'
<1> DEFINE to == Max({purged.to, before})
<1>1. now' = now /\ reader' = reader /\ purged'.to = to
    BY DEF Purge
<1>2. Fine(log, entries, now, reader, purged.to)
    BY DEF LogInv
<1>3. PICK l \in FlushedForPurge(log) :
          /\ log' \in PurgeOutcomes(l, before)
          /\ \E G : entries' = [k \in DOMAIN entries |->
                IF k \in G THEN [entries[k] EXCEPT !.payload = "gone"] ELSE entries[k]]
    BY DEF Purge
<1>4. /\ Sound(l, entries, now) /\ Accounts(log, l) /\ l.buffer = <<>>
      /\ InItsOrder(l) /\ Unread(l, reader)
    BY <1>2, <1>3, FlushedKeeps DEF Fine, Reads, FlushedForPurge
<1>5. /\ Sound(log', entries, now) /\ l.lost \subseteq log'.lost
      /\ \A k \in HeldBy(l) : k \in HeldBy(log') \/ k \in log'.lost \/ Older(k, before)
      /\ \A k \in HeldBy(log') : k \in HeldBy(l) /\ (k \in log'.spared \/ ~Older(k, before))
      /\ \A k \in l.spared : k \in log'.spared \/ Older(k, before)
      /\ InItsOrder(log') /\ Unread(log', reader)
    BY <1>2, <1>3, <1>4, PurgeKeeps DEF Fine, Reads
<1>6. now \in Nat /\ purged.to \in 0..now /\ before \in 1..now
    BY <1>2, DayType DEF Fine, EntriesSound
<1>7. to \in 0..now /\ purged.to <= to /\ before <= to /\ (to = before \/ to = purged.to)
    <2>1. \E x \in {purged.to, before} : \A y \in {purged.to, before} : x >= y
        BY <1>6
    <2>2. to \in {purged.to, before} /\ \A y \in {purged.to, before} : to >= y
        BY <2>1 DEF Max
    <2> HIDE DEF to
    <2> QED
        BY <1>6, <2>2
<1> HIDE DEF to
<1>8. \A k \in DOMAIN entries : entries[k].at \in Nat
    BY <1>2, EntryAt DEF Fine
<1>9. Remembers(log', entries, now, to)
    <2> SUFFICES ASSUME NEW k \in DOMAIN entries
                 PROVE  \/ k \in HeldBy(log') \/ k \in log'.lost
                        \/ entries[k].at < to \/ now - entries[k].at > Retain
        BY DEF Remembers
    <2>1. \/ k \in HeldBy(log) \/ k \in log.lost
          \/ entries[k].at < purged.to \/ now - entries[k].at > Retain
        BY <1>2 DEF Fine, Remembers
    <2>2. CASE k \in HeldBy(log) \/ k \in log.lost
        <3>1. k \in HeldBy(l) \/ k \in l.lost
            BY <1>4, <2>2 DEF Accounts
        <3>2. k \in HeldBy(log') \/ k \in log'.lost \/ entries[k].at < before
            BY <1>5, <3>1 DEF Older
        <3> QED
            BY <1>6, <1>7, <1>8, <3>2
    <2>3. CASE entries[k].at < purged.to
        BY <1>6, <1>7, <1>8, <2>3
    <2> QED
        BY <2>1, <2>2, <2>3
<1>10. Purged0(log', entries, to)
    <2> SUFFICES ASSUME NEW k \in HeldBy(log'), k \notin log'.spared
                 PROVE  entries[k].at >= to
        BY DEF Purged0
    <2>1. k \in HeldBy(l) /\ ~(entries[k].at < before) /\ k \notin l.spared
        BY <1>5 DEF Older
    <2>2. k \in HeldBy(log) /\ k \in DOMAIN entries /\ k \notin log.spared
        BY <1>2, <1>4, <2>1, HeldLogged DEF Fine, Accounts
    <2>3. entries[k].at >= purged.to
        BY <1>2, <2>2 DEF Fine, Purged0
    <2> QED
        BY <1>6, <1>7, <1>8, <2>1, <2>2, <2>3
<1>11. Fine(log', entries, now, reader, to)
    BY <1>2, <1>5, <1>7, <1>9, <1>10 DEF Fine, Reads
<1>12. entries' \in [DOMAIN entries -> Entry] /\ Follows(entries, entries')
    <2>1. PICK G : entries' = [k \in DOMAIN entries |->
                         IF k \in G THEN [entries[k] EXCEPT !.payload = "gone"] ELSE entries[k]]
        BY <1>3
    <2>2. entries \in Seq(Entry)
        BY <1>2 DEF Fine, EntriesSound
    <2> QED
        BY <2>1, <2>2, Dropped
<1>13. Fine(log', entries', now, reader, to)
    BY <1>11, <1>12, FineRenewed
<1> QED
    BY <1>1, <1>13 DEF LogInv

LEMMA RestartFine ==
    ASSUME LogInv, Restart
    PROVE  LogInv'
<1> DEFINE m == log'
           gone == log.lost \cup ToSet(log.buffer)
<1>1. /\ now' = now /\ reader' = reader /\ purged' = purged
      /\ m = Faulted([log EXCEPT !.lost = gone, !.buffer = <<>>, !.name = FreshName(now)])
    BY DEF Restart
<1>2. Fine(log, entries, now, reader, purged.to)
    BY DEF LogInv
<1>3. now \in Times /\ entries \in Seq(Entry) /\ Sound(log, entries, now) /\ InItsOrder(log)
    BY <1>2 DEF Fine, EntriesSound
<1>4. /\ log \in Logger /\ log.name \in Nat /\ log.buffer \in Seq(Nat) /\ log.lost \in SUBSET Nat
    BY <1>3, SoundParts
<1>5. /\ DayOf(now) \in Days /\ DayOf(now) \in Nat /\ log.name <= DayOf(now)
    BY <1>3, DayType DEF Sound
<1>6. gone \in SUBSET Nat
    <2>1. ToSet(log.buffer) \subseteq Nat
        BY <1>4 DEF ToSet
    <2> QED
        BY <1>4, <2>1
<1> HIDE DEF gone, m
<1>7. /\ m \in Logger /\ m.lost = gone /\ m.buffer = <<>> /\ m.name = DayOf(now)
      /\ m.plain = log.plain /\ m.rotated = log.rotated /\ m.doubled = log.doubled
      /\ m.spared = log.spared
    <2>1. m = [log EXCEPT !.lost = gone, !.buffer = <<>>, !.name = DayOf(now),
                          !.faults = log.faults + 1]
        BY <1>1, <1>4 DEF Faulted, FreshName, Logger
    <2>2. log.faults + 1 \in Nat /\ <<>> \in Seq(Nat)
        BY <1>4 DEF Logger
    <2> QED
        BY <1>4, <1>5, <1>6, <2>1, <2>2 DEF Logger
<1>8. Sound(m, entries, now)
    <2>1. \A d \in Days : d > DayOf(now) => d > log.name
        BY <1>4, <1>5, DayType
    <2>2. ToSet(m.buffer) \subseteq DOMAIN entries /\ m.name <= DayOf(now)
        BY <1>5, <1>7, NoLines
    <2>3. \A d \in Days : /\ FileSound(m.plain[d], entries, now) /\ m.plain[d].is # "torn"
                          /\ d > m.name => m.plain[d].is = "missing"
        BY <1>3, <1>7, <2>1 DEF Sound
    <2> QED
        BY <1>3, <1>7, <2>2, <2>3 DEF Sound
<1>9. Accounts(log, m)
    <2>1. \A k \in HeldBy(log) : k \in HeldBy(m) \/ k \in m.lost
        BY <1>7, HeldIs DEF gone
    <2>2. \A k \in HeldBy(m) : k \in HeldBy(log)
        BY <1>7, NoLines, HeldIs
    <2> QED
        BY <1>7, <2>1, <2>2 DEF Accounts, gone
<1>10. InItsOrder(m)
    <2>1. Ascending(m)
        BY <1>3, <1>7, NoLines DEF InItsOrder, Ascending, All
    <2>2. m.plain[m.name].lines = log.plain[log.name].lines \/ m.plain[m.name].lines = <<>>
        <3>1. CASE m.name = log.name
            BY <1>7, <3>1
        <3>2. CASE m.name # log.name
            <4>1. m.name \in Days /\ m.name > log.name
                BY <1>4, <1>5, <1>7, <3>2
            <4> QED
                BY <1>3, <1>7, <4>1 DEF Sound, FileSound
        <3> QED
            BY <3>1, <3>2
    <2>3. ArchivesAscending(log) => ArchivesAscending(m)
        BY <1>7, <2>2, NoLines DEF ArchivesAscending, All
    <2> QED
        BY <1>3, <1>7, <2>1, <2>3 DEF InItsOrder
<1>11. Unread(m, reader)
    BY <1>2, <1>7, NoLines DEF Fine, Reads, Unread
<1>12. Fine(m, entries, now, reader, purged.to)
    BY <1>2, <1>8, <1>9, <1>10, <1>11, FineMoved
<1>13. entries' \in [DOMAIN entries -> Entry] /\ Follows(entries, entries')
    <2> DEFINE G == {k \in DOMAIN entries : entries[k].payload = "writing"}
    <2>1. entries' = [k \in DOMAIN entries |->
                         IF k \in G THEN [entries[k] EXCEPT !.payload = "gone"] ELSE entries[k]]
        BY DEF Restart
    <2> HIDE DEF G
    <2> QED
        BY <1>3, <2>1, Dropped
<1>14. Fine(m, entries', now, reader, purged.to)
    BY <1>12, <1>13, FineRenewed
<1> QED
    BY <1>1, <1>14 DEF LogInv, m

LEMMA CleanupFine ==
    ASSUME LogInv, CleanupExpired
    PROVE  LogInv'
<1> DEFINE m == log'
<1>1. now' = now /\ reader' = reader /\ purged' = purged
    BY DEF CleanupExpired
<1>2. Fine(log, entries, now, reader, purged.to)
    BY DEF LogInv
<1>3. now \in Times /\ entries \in Seq(Entry) /\ Sound(log, entries, now) /\ InItsOrder(log)
    BY <1>2 DEF Fine, EntriesSound
<1>4. log \in Logger /\ log.rotated \in [Times -> File] /\ log.name \in Days
    BY <1>3, SoundParts
<1>5. Missing \in File /\ Missing.lines = <<>> /\ Missing.is = "missing"
      /\ FileSound(Missing, entries, now)
    <2>1. <<>> \in Seq(Nat)
        OBVIOUS
    <2> QED
        BY <1>3, <2>1, WrittenIs
<1>5a. PICK files \in SUBSET {x \in Times : ExpiredFile(x)},
            payloads \in SUBSET {k \in DOMAIN entries : ExpiredPayload(k)} :
          LET left == [log EXCEPT !.rotated = [x \in Times |-> IF x \in files THEN Missing ELSE @[x]]]
          IN  /\ m = left \/ m = Faulted(left)
              /\ entries' = [k \in DOMAIN entries |->
                    IF k \in payloads THEN [entries[k] EXCEPT !.payload = "gone"] ELSE entries[k]]
    BY DEF CleanupExpired
<1> DEFINE rotated == [x \in Times |-> IF x \in files THEN Missing ELSE log.rotated[x]]
<1> HIDE DEF m
<1>6. /\ m \in Logger /\ m.rotated = rotated /\ m.plain = log.plain /\ m.buffer = log.buffer
      /\ m.lost = log.lost /\ m.name = log.name /\ m.doubled = log.doubled
      /\ m.spared = log.spared
    <2>1. rotated \in [Times -> File]
        BY <1>4, <1>5
    <2> DEFINE left == [log EXCEPT !.rotated = rotated]
    <2>2. m = left \/ m = Faulted(left)
        BY <1>4, <1>5a DEF Logger
    <2> HIDE DEF rotated
    <2>3. /\ left \in Logger /\ left.rotated = rotated /\ left.plain = log.plain
          /\ left.buffer = log.buffer /\ left.lost = log.lost /\ left.name = log.name
          /\ left.doubled = log.doubled /\ left.spared = log.spared
        BY <1>4, <2>1 DEF Logger
    <2> HIDE DEF left
    <2>4. left.faults + 1 \in Nat
        BY <2>3 DEF Logger
    <2>5. m = left \/ m = [left EXCEPT !.faults = left.faults + 1]
        BY <2>2 DEF Faulted
    <2> QED
        BY <2>3, <2>4, <2>5 DEF Logger
<1>7. \A x \in Times : \/ ExpiredFile(x) /\ m.rotated[x] = Missing
                       \/ m.rotated[x] = log.rotated[x]
    BY <1>6, <1>5a
<1> HIDE DEF rotated
<1>8. Sound(m, entries, now)
    <2>1. \A x \in Times : /\ FileSound(m.rotated[x], entries, now)
                           /\ x > now => m.rotated[x].is = "missing"
        BY <1>3, <1>5, <1>7 DEF Sound
    <2> QED
        BY <1>3, <1>6, <2>1 DEF Sound
<1>9. InItsOrder(m)
    <2>1. \A x \in Times : m.rotated[x].lines = log.rotated[x].lines \/ m.rotated[x].lines = <<>>
        BY <1>5, <1>7
    <2>2. ArchivesAscending(log) => ArchivesAscending(m)
        BY <1>6, <2>1, NoLines DEF ArchivesAscending, All
    <2> QED
        BY <1>3, <1>6, <2>2 DEF InItsOrder, Ascending
<1>10. HeldBy(m) \subseteq HeldBy(log)
    <2>1. \A x \in Times : ToSet(m.rotated[x].lines) \subseteq ToSet(log.rotated[x].lines)
        BY <1>5, <1>7, NoLines
    <2> SUFFICES ASSUME NEW k \in HeldBy(m) PROVE k \in HeldBy(log)
        OBVIOUS
    <2> QED
        BY <1>6, <2>1, HeldIs
<1>11. Remembers(m, entries, now, purged.to)
    <2> SUFFICES ASSUME NEW k \in DOMAIN entries
                 PROVE  \/ k \in HeldBy(m) \/ k \in m.lost
                        \/ entries[k].at < purged.to \/ now - entries[k].at > Retain
        BY DEF Remembers
    <2>1. \/ k \in HeldBy(log) \/ k \in log.lost
          \/ entries[k].at < purged.to \/ now - entries[k].at > Retain
        BY <1>2 DEF Fine, Remembers
    <2>2. ASSUME NEW x \in Times, k \in ToSet(log.rotated[x].lines)
          PROVE  k \in HeldBy(m) \/ now - entries[k].at > Retain
        <3>1. CASE m.rotated[x] = log.rotated[x]
            BY <2>2, <3>1, HeldIs
        <3>2. CASE ExpiredFile(x)
            <4>1. now - log.rotated[x].mtime > Retain
                BY <3>2 DEF ExpiredFile
            <4>2. entries[k].at <= log.rotated[x].mtime
                BY <1>3, <2>2 DEF Sound, FileSound
            <4>3. entries[k].at \in Nat /\ log.rotated[x].mtime \in Nat /\ now \in Nat
                BY <1>2, <1>4, EntryAt, DayType DEF Fine, EntriesSound, File
            <4> QED
                BY <4>1, <4>2, <4>3, LogBounds
        <3> QED
            BY <1>7, <3>1, <3>2
    <2>3. ASSUME NEW d \in Days, k \in ToSet(log.plain[d].lines) PROVE k \in HeldBy(m)
        BY <1>6, <2>3, HeldIs
    <2>4. k \in ToSet(log.buffer) => k \in HeldBy(m)
        BY <1>6, HeldIs
    <2>5. k \in HeldBy(log) => k \in HeldBy(m) \/ now - entries[k].at > Retain
        BY <2>2, <2>3, <2>4, HeldIs
    <2> QED
        BY <1>6, <2>1, <2>5
<1>12. Purged0(m, entries, purged.to)
    BY <1>2, <1>6, <1>10 DEF Fine, Purged0
<1>13. Reads(reader, m, entries)
    BY <1>2, <1>6 DEF Fine, Reads, Unread
<1>14. Fine(m, entries, now, reader, purged.to)
    BY <1>2, <1>8, <1>9, <1>11, <1>12, <1>13 DEF Fine
<1>15. entries' \in [DOMAIN entries -> Entry] /\ Follows(entries, entries')
    <2>1. entries' = [k \in DOMAIN entries |->
              IF k \in payloads THEN [entries[k] EXCEPT !.payload = "gone"] ELSE entries[k]]
        BY <1>5a
    <2> QED
        BY <1>3, <2>1, Dropped
<1>16. Fine(m, entries', now, reader, purged.to)
    BY <1>14, <1>15, FineRenewed
<1> QED
    BY <1>1, <1>16 DEF LogInv, m

\* What is below every line of a sequence and below one more number is below
\* the longer sequence.
LEMMA AllWithOneMore ==
    ASSUME NEW s, NEW t, NEW u, NEW n \in Nat, ToSet(u) = ToSet(t) \cup {n},
           \A x \in ToSet(s) : x \in Nat /\ x < n, All(s, t, Less)
    PROVE  All(s, u, Less)
BY DEF All, Less

LEMMA LogFine ==
    ASSUME LogInv, Log
    PROVE  LogInv'
<1> DEFINE n == Len(entries) + 1
           m == log'
           es == entries'
<1>1. now' = now /\ reader' = reader /\ purged' = purged
    BY DEF Log
<1>2. Fine(log, entries, now, reader, purged.to)
    BY DEF LogInv
<1>3. now \in Times /\ now \in Nat /\ entries \in Seq(Entry)
      /\ EntriesSound(entries, now) /\ Sound(log, entries, now)
    BY <1>2, DayType DEF Fine, EntriesSound
<1>4. log \in Logger /\ log.buffer \in Seq(Nat) /\ log.name \in Days
      /\ (\A d \in Days : log.plain[d].lines \in Seq(Nat))
      /\ (\A x \in Times : log.rotated[x].lines \in Seq(Nat))
    BY <1>3, SoundParts
<1>5. PICK e \in Entry : es = Append(entries, e) /\ e.at = now
    <2> DEFINE w == IF n \in Full THEN "writing" ELSE "none"
    <2>1. es = Append(entries, [at |-> now, since |-> now, payload |-> w])
        BY DEF Log
    <2>2. w \in {"none", "writing", "stored", "gone"}
        OBVIOUS
    <2> HIDE DEF w
    <2>3. [at |-> now, since |-> now, payload |-> w] \in Entry
        BY <1>3, <2>2 DEF Entry
    <2> QED
        BY <2>1, <2>3
<1>6. Len(entries) \in Nat /\ n \in Nat /\ DOMAIN entries = 1..Len(entries) /\ n \notin DOMAIN entries
    BY <1>3
<1>7. /\ es \in Seq(Entry) /\ DOMAIN es = DOMAIN entries \cup {n}
      /\ Follows(entries, es) /\ es[n].at = now
    <2>1. /\ Append(entries, e) \in Seq(Entry) /\ Len(Append(entries, e)) = n
          /\ \A i \in 1..Len(entries) : Append(entries, e)[i] = entries[i]
          /\ Append(entries, e)[n] = e
        BY <1>3, AppendProperties
    <2>2. DOMAIN Append(entries, e) = 1..n
        BY <2>1
    <2>3. 1..n = 1..Len(entries) \cup {n}
        BY <1>6
    <2> QED
        BY <1>5, <1>6, <2>1, <2>2, <2>3 DEF Follows
<1>8. m = [log EXCEPT !.buffer = Append(log.buffer, n)]
    BY <1>4 DEF Log, Logger
<1>9. \A k \in DOMAIN entries : k \in Nat /\ k < n
    BY <1>6
<1> HIDE DEF n, m, es
<1>10. /\ Append(log.buffer, n) \in Seq(Nat)
       /\ ToSet(Append(log.buffer, n)) = ToSet(log.buffer) \cup {n}
       /\ Sorted(log.buffer, Less) => Sorted(Append(log.buffer, n), Less)
    <2> DEFINE t == <<n>>
    <2>1. t \in Seq(Nat) /\ ToSet(t) = {n} /\ Sorted(t, Less)
        <3>1. t \in Seq(Nat) /\ DOMAIN t = {1} /\ t[1] = n
            BY <1>6
        <3> HIDE DEF t
        <3> QED
            BY <3>1 DEF ToSet, Sorted
    <2>2. Append(log.buffer, n) = log.buffer \o t
        BY <1>4, <1>6, AppendIsConcat
    <2> HIDE DEF t
    <2>3. ToSet(log.buffer) \subseteq DOMAIN entries
        BY <1>3 DEF Sound
    <2>4. All(log.buffer, t, Less)
        BY <1>6, <1>9, <2>1, <2>3 DEF All, Less
    <2> QED
        BY <1>4, <2>1, <2>2, <2>4, ConcatSorted
<1>11. /\ m \in Logger /\ m.buffer = Append(log.buffer, n) /\ m.rotated = log.rotated
       /\ m.spared = log.spared
       /\ m.plain = log.plain /\ m.lost = log.lost /\ m.name = log.name /\ m.doubled = log.doubled
    BY <1>4, <1>8, <1>10 DEF Logger
<1>12. EntriesSound(es, now)
    BY <1>3, <1>7 DEF EntriesSound, Follows
<1>13. Sound(m, es, now)
    <2>1. now <= now
        BY <1>3
    <2>2. Sound(log, es, now)
        BY <1>3, <1>7, <2>1, SoundLater
    <2>3. ToSet(m.buffer) \subseteq DOMAIN es
        BY <1>7, <1>10, <1>11, <2>2 DEF Sound
    <2> QED
        BY <1>11, <2>2, <2>3 DEF Sound
\* Every line of a file is older than the new entry.
<1>14. \A s : ToSet(s) \subseteq DOMAIN entries /\ All(s, log.buffer, Less) => All(s, m.buffer, Less)
    <2>1. ToSet(m.buffer) = ToSet(log.buffer) \cup {n}
        BY <1>10, <1>11, SMT
    <2> QED
        BY <1>6, <1>9, <2>1, AllWithOneMore
<1>15. /\ \A d \in Days : ToSet(log.plain[d].lines) \subseteq DOMAIN entries
       /\ \A x \in Times : ToSet(log.rotated[x].lines) \subseteq DOMAIN entries
    BY <1>3 DEF Sound, FileSound
<1>16. InItsOrder(m)
    <2>1. Ascending(m)
        BY <1>2, <1>10, <1>11, <1>14, <1>15 DEF Fine, InItsOrder, Ascending
    <2>2. ArchivesAscending(log) => ArchivesAscending(m)
        BY <1>11, <1>14, <1>15 DEF ArchivesAscending
    <2> QED
        BY <1>2, <1>11, <2>1, <2>2 DEF Fine, InItsOrder
<1>17. \A k : k \in HeldBy(m) <=> k \in HeldBy(log) \/ k = n
    BY <1>10, <1>11, HeldIs
<1>18. Remembers(m, es, now, purged.to)
    <2> SUFFICES ASSUME NEW k \in DOMAIN es
                 PROVE  \/ k \in HeldBy(m) \/ k \in m.lost
                        \/ es[k].at < purged.to \/ now - es[k].at > Retain
        BY DEF Remembers
    <2>1. CASE k = n
        BY <1>17, <2>1
    <2>2. CASE k # n
        <3>1. k \in DOMAIN entries /\ es[k].at = entries[k].at
            BY <1>7, <2>2 DEF Follows
        <3>2. \/ k \in HeldBy(log) \/ k \in log.lost
              \/ entries[k].at < purged.to \/ now - entries[k].at > Retain
            BY <1>2, <3>1 DEF Fine, Remembers
        <3> QED
            BY <1>11, <1>17, <3>1, <3>2
    <2> QED
        BY <2>1, <2>2
<1>19. Purged0(m, es, purged.to)
    <2> SUFFICES ASSUME NEW k \in HeldBy(m) PROVE es[k].at >= purged.to \/ k \in m.spared
        BY DEF Purged0
    <2>1. CASE k = n
        BY <1>2, <1>3, <1>7, <2>1 DEF Fine
    <2>2. CASE k # n
        <3>1. k \in HeldBy(log) /\ k \in DOMAIN entries
            BY <1>3, <1>17, <2>2, HeldLogged
        <3> QED
            BY <1>2, <1>7, <1>11, <3>1 DEF Fine, Purged0, Follows
    <2> QED
        BY <2>1, <2>2
<1>20. Reads(reader, m, es)
    <2>1. ToSet(reader.shown) \subseteq DOMAIN es /\ n \notin ToSet(reader.shown)
        BY <1>2, <1>6, <1>7 DEF Fine, Reads
    <2>2. Unread(m, reader)
        BY <1>2, <1>10, <1>11, <2>1 DEF Fine, Reads, Unread
    <2> QED
        BY <1>2, <2>1, <2>2 DEF Fine, Reads
<1>21. Fine(m, es, now, reader, purged.to)
    BY <1>2, <1>12, <1>13, <1>16, <1>18, <1>19, <1>20 DEF Fine
<1> QED
    BY <1>1, <1>21 DEF LogInv, m, es

\* The invariant of every behaviour.
THEOREM LogFineAlways == Spec => []LogInv
<1>1. ASSUME LogInv, [Next]_vars PROVE LogInv'
    <2>1. CASE UNCHANGED vars
        BY <1>1, <2>1 DEF LogInv, vars
    <2>2. ASSUME NEW k \in DOMAIN entries, PayloadSettles(k) PROVE LogInv'
        BY <1>1, <2>2, PayloadFine
    <2>3. ASSUME NEW before \in 1..now, Purge(before) PROVE LogInv'
        BY <1>1, <2>3, PurgeFine
    <2> QED
        BY <1>1, <2>1, <2>2, <2>3, LogFine, FlushFine, CleanupFine, PageFine, RestartFine, TickFine
           DEF Next
<1> QED
    BY <1>1, InitFine, PTL DEF Spec

-----------------------------------------------------------------------------
(* What follows from it.                                                     *)

LEMMA HeldSame == Held = HeldBy(log)
    BY DEF Held, HeldBy

\* An entry is in memory or in a file until a fault, a restart or an archive of the
\* same second takes it, a purge of what is older, or the retention period.
THEOREM EntriesKept == Spec => []NothingForgotten
<1>1. LogInv => NothingForgotten
    BY HeldSame DEF LogInv, Fine, Remembers, NothingForgotten
<1> QED
    BY <1>1, LogFineAlways, PTL

\* Nothing older than the date of a purge is held afterwards, but for what was in the
\* files a purge failed on, and that until a purge of the date goes well.
THEOREM PurgesKept == Spec => []PurgeComplete
<1>1. LogInv => PurgeComplete
    BY HeldSame DEF LogInv, Fine, Purged0, PurgeComplete
<1> QED
    BY <1>1, LogFineAlways, PTL

\* A client that turns the pages sees no entry twice.
THEOREM PagesOnce == Spec => []ShownOnce
<1>1. LogInv => ShownOnce
    <2> SUFFICES ASSUME LogInv, NEW i \in DOMAIN reader.shown, NEW j \in DOMAIN reader.shown, i # j
                 PROVE  reader.shown[i] # reader.shown[j]
        BY DEF ShownOnce
    <2>1. reader.shown \in Seq(Nat) /\ Sorted(reader.shown, Differ)
        BY DEF LogInv, Fine, Reads
    <2>2. i \in Nat /\ j \in Nat
        BY <2>1
    <2>3. CASE i < j
        BY <2>1, <2>3 DEF Sorted, Differ
    <2>4. CASE j < i
        BY <2>1, <2>4 DEF Sorted, Differ
    <2> QED
        BY <2>2, <2>3, <2>4
<1> QED
    BY <1>1, LogFineAlways, PTL

\* The files in the order of their names, and the buffer after them, have every entry
\* once and in the order of logging.
THEOREM LogInOrder == Spec => []InOrder
<1>1. LogInv => InOrder
    <2> SUFFICES ASSUME LogInv, ~log.doubled PROVE \A i, j \in DOMAIN Trail : i < j => Trail[i] < Trail[j]
        BY DEF InOrder
    <2> DEFINE N == Horizon + 1
               ss == [i \in 1..N |-> log.rotated[i - 1].lines]
               a == log.plain[log.name].lines
               b == log.buffer
    <2>1. Sound(log, entries, now) /\ now \in Times /\ Ascending(log) /\ ArchivesAscending(log)
        BY DEF LogInv, Fine, EntriesSound, InItsOrder
    <2>2. N \in Nat /\ \A i \in 1..N : i - 1 \in Times
        BY LogBounds DEF Times
    <2>3. /\ a \in Seq(Nat) /\ b \in Seq(Nat) /\ log.name \in Days
          /\ \A x \in Times : log.rotated[x].lines \in Seq(Nat)
        BY <2>1, SoundParts
    <2> HIDE DEF N
    <2>4. \A i \in 1..N : ss[i] = log.rotated[i - 1].lines /\ ss[i] \in Seq(Nat)
        BY <2>2, <2>3
    <2>5. DOMAIN ss = 1..N /\ ss \in [1..N -> Seq(Nat)]
        BY <2>4
    <2>6. Trail = FlattenSeq(ss) \o a \o b
        BY DEF Trail, N
    <2> HIDE DEF ss
    <2>7. ss \in Seq(Seq(Nat))
        BY <2>2, <2>5
    <2>8. \A i \in 1..N : /\ Sorted(ss[i], Less) /\ All(ss[i], a, Less) /\ All(ss[i], b, Less)
        BY <2>1, <2>2, <2>4 DEF ArchivesAscending
    <2>9. \A i, j \in 1..N : i < j => All(ss[i], ss[j], Less)
        <3> SUFFICES ASSUME NEW i \in 1..N, NEW j \in 1..N, i < j PROVE All(ss[i], ss[j], Less)
            OBVIOUS
        <3>1. i - 1 \in Times /\ j - 1 \in Times /\ i - 1 < j - 1
            BY <2>2
        <3> QED
            BY <2>1, <2>4, <3>1 DEF ArchivesAscending
    <2> DEFINE f == FlattenSeq(ss)
    <2>10. f \in Seq(Nat) /\ Sorted(f, Less) /\ ToSet(f) = UNION {ToSet(ss[i]) : i \in 1..N}
        BY <2>5, <2>7, <2>8, <2>9, Flattened
    <2> HIDE DEF f
    <2>11. All(f, a, Less) /\ All(f, b, Less)
        BY <2>8, <2>10 DEF All
    <2>12. Sorted(a, Less) /\ Sorted(b, Less) /\ All(a, b, Less)
        BY <2>1, <2>3 DEF Ascending
    <2> HIDE DEF a, b
    <2>13. f \o a \in Seq(Nat) /\ Sorted(f \o a, Less) /\ ToSet(f \o a) = ToSet(f) \cup ToSet(a)
        BY <2>3, <2>10, <2>11, <2>12, ConcatSorted
    <2>14. All(f \o a, b, Less)
        BY <2>11, <2>12, <2>13 DEF All
    <2>15. (f \o a) \o b \in Seq(Nat) /\ Sorted((f \o a) \o b, Less)
        BY <2>3, <2>12, <2>13, <2>14, ConcatSorted
    <2>16. Trail = (f \o a) \o b
        BY <2>6 DEF f
    <2>17. Trail \in Seq(Nat) /\ Sorted(Trail, Less)
        BY <2>15, <2>16
    <2> QED
        BY <2>17 DEF Sorted, Less
<1> QED
    BY <1>1, LogFineAlways, PTL

-----------------------------------------------------------------------------
(* The types.                                                                *)

\* What the invariant does not say of them.
Stamped ==
    /\ due \in BOOLEAN
    /\ reader = [cursor |-> reader.cursor, shown |-> reader.shown]
    /\ purged = [to |-> purged.to, count |-> purged.count] /\ purged.count \in Nat

LEMMA StampedNext ==
    ASSUME Stamped, [Next]_vars
    PROVE  Stamped'
<1>1. due' = due \/ due' \in BOOLEAN
    BY DEF Next, vars, Log, PayloadSettles, Flush, CleanupExpired, Page, Restart, Tick, Purge
<1>2. reader' = reader \/ \E c, s : reader' = [cursor |-> c, shown |-> s]
    BY DEF Next, vars, Log, PayloadSettles, Flush, CleanupExpired, Page, Restart, Tick, Purge
<1>3. purged' = purged \/ \E t : purged' = [to |-> t, count |-> purged.count + 1]
    BY DEF Next, vars, Log, PayloadSettles, Flush, CleanupExpired, Page, Restart, Tick, Purge
<1>4. reader' = [cursor |-> reader'.cursor, shown |-> reader'.shown]
    BY <1>2 DEF Stamped
<1>5. purged' = [to |-> purged'.to, count |-> purged'.count] /\ purged'.count \in Nat
    BY <1>3 DEF Stamped
<1> QED
    BY <1>1, <1>4, <1>5 DEF Stamped

\* The types of the clock, the entries, the log, the reader and the purges, and that no
\* file is younger than the clock or older than one of its lines.
THEOREM LogTyped == Spec => []TypeOK
<1>1. Init => Stamped
    <2> SUFFICES ASSUME Init PROVE Stamped
        OBVIOUS
    <2>1. \E c, s : reader = [cursor |-> c, shown |-> s]
        BY DEF Init
    <2>2. reader = [cursor |-> reader.cursor, shown |-> reader.shown]
        BY <2>1
    <2>3. purged = [to |-> 0, count |-> 0] /\ due = FALSE
        BY DEF Init
    <2> QED
        BY <2>2, <2>3 DEF Stamped
<1>2. LogInv /\ Stamped => TypeOK
    <2> SUFFICES ASSUME LogInv, Stamped PROVE TypeOK
        OBVIOUS
    <2>1. now \in Times /\ entries \in Seq(Entry) /\ Sound(log, entries, now) /\ purged.to \in 0..now
        BY DEF LogInv, Fine, EntriesSound
    <2>2. log \in Logger /\ log.name <= DayOf(now)
        BY <2>1 DEF Sound
    <2>3. reader \in [cursor : Cursor, shown : Seq(Nat)]
        BY DEF LogInv, Fine, Reads, Stamped
    <2>4. purged \in [to : Times, count : Nat]
        <3>1. purged.to \in Times
            BY <2>1, LogBounds DEF Times
        <3> QED
            BY <3>1 DEF Stamped
    <2>5. ASSUME NEW f \in {log.plain[d] : d \in Days} \cup {log.rotated[t] : t \in Times}
          PROVE  f.mtime <= now /\ \A i \in DOMAIN f.lines : entries[f.lines[i]].at <= f.mtime
        <3>1. FileSound(f, entries, now)
            BY <2>1 DEF Sound
        <3>2. \A i \in DOMAIN f.lines : f.lines[i] \in ToSet(f.lines)
            BY <3>1 DEF FileSound, File, ToSet
        <3> QED
            BY <3>1, <3>2 DEF FileSound
    <2> QED
        BY <2>1, <2>2, <2>3, <2>4, <2>5 DEF TypeOK, Stamped
<1>3. Stamped /\ [Next]_vars => Stamped'
    BY StampedNext
<1> QED
    BY <1>1, <1>2, <1>3, LogFineAlways, PTL DEF Spec
==============================================================================

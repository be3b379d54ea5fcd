----------------------------- MODULE ActionLog -----------------------------
(***************************************************************************)
(* The action log: entries wait in memory for the flush of the next second,*)
(* the active file is rotated into a compressed one, expired files are     *)
(* deleted, an operator purges what is older than a date, and a reader     *)
(* turns the pages of the query API, all of it on one directory.           *)
(*                                                                         *)
(* Every file operation is synchronous but the payload write.  An entry is *)
(* its number in the order of logging.  The unit of time is the second of  *)
(* the flush interval.                                                     *)
(***************************************************************************)
EXTENDS Naturals, SequencesExt, Filters

CONSTANTS
    Limit,              \* how many entries are logged
    Full,               \* those of them of agents in full-payload mode
    DayLength,          \* in seconds
    MaxLines, Interval, \* rotationMaxSizeMb and rotationIntervalHours
    Retain, PayloadRetain,
    PageSize,
    MaxTime, Horizon, MaxFaults, MaxPurges  \* bounds of the model

ASSUME LogConstants ==
    /\ Full \subseteq 1..Limit
    /\ {Limit, MaxLines, Interval, Retain, PayloadRetain} \subseteq Nat
    /\ {DayLength, PageSize} \subseteq Nat \ {0}
    /\ {MaxTime, Horizon, MaxFaults, MaxPurges} \subseteq Nat /\ MaxTime < Horizon

VARIABLES
    now,
    due,      \* the flush of this second is still to come
    entries,  \* per entry logged: when, and its payload file
    log,      \* the logger, its directory, and what became of them
    reader,   \* the cursor of a client of the query API, and what it has been shown
    purged    \* history: the latest date of a purge, and how many there were

vars == <<now, due, entries, log, reader, purged>>

-----------------------------------------------------------------------------
Times == 0..Horizon
DayOf(t) == t \div DayLength
Days == 0..DayOf(Horizon)

\* The state of a file: its lines and when it was last written.  A "torn" file is
\* one whose writing broke off and which gunzip rejects.
File == [is : {"missing", "file", "torn"}, lines : Seq(Nat), mtime : Times]

Missing == [is |-> "missing", lines |-> <<>>, mtime |-> 0]
Written(lines) == [is |-> "file", lines |-> lines, mtime |-> now]
Torn == [is |-> "torn", lines |-> <<>>, mtime |-> now]

\* plain[d] is govyn-<d>.jsonl, rotated[t] is govyn-<t>.jsonl.gz: its name has the
\* second of the rotation.
Logger == [name : Days,             \* currentFilePath
           buffer : Seq(Nat),
           plain : [Days -> File], rotated : [Times -> File],
           lost : SUBSET Nat,       \* history: entries a fault, a restart or an overwriting took
           doubled : BOOLEAN,       \* history: an archive was written, its original not deleted
           spared : SUBSET Nat,     \* history: entries purged from a file the purge failed on
           faults : Nat]

Entry == [at : Times, payload : {"none", "writing", "stored", "gone"}, since : Times]

\* "line" points to the first entry of the next page, by file and line.
Cursor == [at : {"start", "line", "end"}, file : Days, line : Nat]

TypeOK ==
    /\ now \in Times /\ due \in BOOLEAN
    /\ entries \in Seq(Entry)
    /\ log \in Logger
    /\ reader \in [cursor : Cursor, shown : Seq(Nat)]
    /\ purged \in [to : Times, count : Nat]
    /\ \A f \in {log.plain[d] : d \in Days} \cup {log.rotated[t] : t \in Times} :
          f.mtime <= now /\ \A i \in DOMAIN f.lines : entries[f.lines[i]].at <= f.mtime
    /\ log.name <= DayOf(now)

Init ==
    /\ now = 0 /\ due = FALSE
    /\ entries = <<>>
    /\ log = [name |-> 0, buffer |-> <<>>,
              plain |-> [d \in Days |-> Missing], rotated |-> [t \in Times |-> Missing],
              lost |-> {}, doubled |-> FALSE, spared |-> {}, faults |-> 0]
    /\ reader = [cursor |-> [at |-> "start", file |-> 0, line |-> 0], shown |-> <<>>]
    /\ purged = [to |-> 0, count |-> 0]

-----------------------------------------------------------------------------
(* Logging.                                                                  *)

\* log, and storePayload with full payloads: the end of the handler of a request.
Log ==
    /\ Len(entries) < Limit /\ now <= MaxTime
    /\ LET k == Len(entries) + 1
       IN  /\ entries' = Append(entries, [at |-> now, since |-> now,
                                          payload |-> IF k \in Full THEN "writing" ELSE "none"])
           /\ log' = [log EXCEPT !.buffer = Append(@, k)]
    /\ UNCHANGED <<now, due, reader, purged>>

\* The asynchronous write of the payload file, or its failure.
PayloadSettles(k) ==
    /\ entries[k].payload = "writing"
    /\ \/ entries' = [entries EXCEPT ![k] = [@ EXCEPT !.payload = "stored", !.since = now]]
       \/ entries' = [entries EXCEPT ![k].payload = "gone"]
    /\ UNCHANGED <<now, due, log, reader, purged>>

-----------------------------------------------------------------------------
(* The flush: what may come of a logger l.                                   *)

Faulted(l) == [l EXCEPT !.faults = @ + 1]
MayFault(l) == l.faults < MaxFaults

\* The name of the file a start or a rotation begins with.
FreshName(t) == DayOf(t)

\* checkRotation: by size, or by the time since the last write.
ShouldRotate(f) == f.is = "file" /\ (Len(f.lines) > MaxLines \/ now - f.mtime > Interval)

\* The archive of the active file takes the place of one of the same second.
Archive(l, file) ==
    [l EXCEPT !.rotated[now] = file, !.lost = @ \cup ToSet(l.rotated[now].lines)]

\* Mutant: the original stays.
Rotated_Copied(l) == {Archive(l, l.plain[l.name])}

\* rotate: reading the file or writing the archive may fail, and so may deleting the
\* original; the active file then stays the same.
Rotated(l) ==
    LET whole == Archive(l, Written(l.plain[l.name].lines))
    IN  {[whole EXCEPT !.plain[l.name] = Missing, !.name = FreshName(now)]}
        \cup IF MayFault(l)
             THEN {Faulted(l), Faulted(Archive(l, Torn)), Faulted([whole EXCEPT !.doubled = TRUE])}
             ELSE {}

\* The buffer is emptied before the append, which may fail.
Appended(l) ==
    {[l EXCEPT !.plain[l.name] = Written(@.lines \o l.buffer), !.buffer = <<>>]}
    \cup IF MayFault(l)
         THEN {Faulted([l EXCEPT !.buffer = <<>>, !.lost = @ \cup ToSet(l.buffer)])}
         ELSE {}

\* Mutant: small batches wait.
Flushed_Batched(l) ==
    IF Len(l.buffer) < 2 THEN {l}
    ELSE UNION {Appended(m) : m \in IF ShouldRotate(l.plain[l.name]) THEN Rotated(l) ELSE {l}}

Flushed(l) ==
    IF l.buffer = <<>> THEN {l}
    ELSE UNION {Appended(m) : m \in IF ShouldRotate(l.plain[l.name]) THEN Rotated(l) ELSE {l}}

\* The interval.
Flush ==
    /\ due
    /\ due' = FALSE
    /\ log' \in Flushed(log)
    /\ UNCHANGED <<now, entries, reader, purged>>

-----------------------------------------------------------------------------
(* Purge and retention.                                                      *)

\* Mutant: entries of the date go too.
Older_Inclusive(k, before) == entries[k].at <= before

Older(k, before) == entries[k].at < before

Kept(lines, before) == Filtered(lines, {i \in DOMAIN lines : ~Older(lines[i], before)})

OnDisk(l) ==
    UNION ({ToSet(l.plain[d].lines) : d \in Days} \cup {ToSet(l.rotated[t].lines) : t \in Times})

Readable(l) == {<<"plain", d>> : d \in {x \in Days : l.plain[x].is = "file"}}
               \cup {<<"rotated", t>> : t \in {x \in Times : l.rotated[x].is = "file"}}
EntriesIn(l, f) == ToSet(IF f[1] = "plain" THEN l.plain[f[2]].lines ELSE l.rotated[f[2]].lines)

\* purgeBefore on a flushed logger: every file is rewritten without the entries
\* that are older; an archive left empty is deleted, one that is torn is skipped.
\* The files are done one by one and the failure of one ends with that file: those
\* in `spared` cannot be read, unpacked, opened or deleted and stay as they are,
\* those in `broken` lose their lines when the rewriting breaks off.
Purged(l, before, broken, spared) ==
    [l EXCEPT
        !.plain = [d \in Days |->
            IF @[d].is = "missing" \/ <<"plain", d>> \in spared THEN @[d]
            ELSE Written(IF <<"plain", d>> \in broken THEN <<>> ELSE Kept(@[d].lines, before))],
        !.rotated = [t \in Times |->
            IF @[t].is # "file" \/ <<"rotated", t>> \in spared THEN @[t]
            ELSE IF <<"rotated", t>> \in broken THEN Torn
            ELSE LET kept == Kept(@[t].lines, before)
                 IN  IF kept = <<>> THEN Missing ELSE Written(kept)],
        !.lost = @ \cup UNION {EntriesIn(l, f) : f \in broken},
        !.spared = {k \in @ : ~Older(k, before)}
            \cup {k \in UNION {EntriesIn(l, f) : f \in spared} : Older(k, before)}]

\* What a purge makes of the logger: with or without a fault, on any of the files.
PurgeOutcomes(l, before) ==
    {Purged(l, before, {}, {})}
    \cup IF MayFault(l)
         THEN {Faulted(Purged(l, before, bad[1], bad[2])) :
                  bad \in {b \in (SUBSET Readable(l)) \X (SUBSET Readable(l)) : b[1] \cap b[2] = {}}}
         ELSE {}

\* Mutant: the buffer is not flushed first.
FlushedForPurge_Not(l) == {l}

FlushedForPurge(l) == Flushed(l)

\* DELETE /api/logs for a date that is past: flush, rewrite, and delete the payload
\* files of the entries removed, of which a fault leaves some.  The answer is the
\* same when files failed.
Purge(before) ==
    /\ purged.count < MaxPurges /\ now <= MaxTime
    /\ \E l \in FlushedForPurge(log) :
          LET old == {k \in DOMAIN entries \cap OnDisk(l) :
                         Older(k, before) /\ entries[k].payload = "stored"}
          IN  \E erased \in SUBSET old :
                /\ log' \in PurgeOutcomes(l, before)
                /\ log'.faults = l.faults => erased = old
                /\ entries' = [k \in DOMAIN entries |->
                      IF k \in erased THEN [entries[k] EXCEPT !.payload = "gone"] ELSE entries[k]]
    /\ purged' = [to |-> Max({purged.to, before}), count |-> purged.count + 1]
    /\ UNCHANGED <<now, due, reader>>

ExpiredFile(t) == log.rotated[t].is # "missing" /\ now - log.rotated[t].mtime > Retain
ExpiredPayload(k) == entries[k].payload = "stored" /\ now - entries[k].since > PayloadRetain

\* Mutant: payload files are not looked at once the archives are done.
Expired_FilesOnly == \E t \in Times : ExpiredFile(t)

Expired == (\E t \in Times : ExpiredFile(t)) \/ (\E k \in DOMAIN entries : ExpiredPayload(k))

\* The hourly interval, when there is something for it to do: by the time of the
\* last write, and of the log only the archives.  A file that cannot be deleted stays
\* for the next hour.
CleanupExpired ==
    /\ Expired
    /\ \E files \in SUBSET {t \in Times : ExpiredFile(t)},
          payloads \in SUBSET {k \in DOMAIN entries : ExpiredPayload(k)} :
          LET left == [log EXCEPT !.rotated = [t \in Times |-> IF t \in files THEN Missing ELSE @[t]]]
          IN  /\ \/ /\ files = {t \in Times : ExpiredFile(t)}
                    /\ payloads = {k \in DOMAIN entries : ExpiredPayload(k)}
                    /\ log' = left
                 \/ MayFault(log) /\ log' = Faulted(left)
              /\ entries' = [k \in DOMAIN entries |->
                    IF k \in payloads THEN [entries[k] EXCEPT !.payload = "gone"] ELSE entries[k]]
    /\ UNCHANGED <<now, due, reader, purged>>

-----------------------------------------------------------------------------
(* The query API.                                                            *)

\* The lines a list of entries runs through: the uncompressed files by name, the
\* newest first, and each from its first line.
Lines ==
    FlattenSeq([i \in 1..Cardinality(Days) |->
        LET d == DayOf(Horizon) + 1 - i
        IN  [j \in 1..Len(log.plain[d].lines) |-> [at |-> "line", file |-> d, line |-> j]]])

\* Mutant: the cursor is the last entry of the page.
PageAfter_Last(lines) ==
    IF Len(lines) > PageSize THEN lines[PageSize]
    ELSE [at |-> "end", file |-> 0, line |-> 0]

\* The cursor of the page after the one that begins `lines`.
PageAfter(lines) ==
    IF Len(lines) > PageSize THEN lines[PageSize + 1]
    ELSE [at |-> "end", file |-> 0, line |-> 0]

\* From the cursor on; nothing, if it points to no line any more.
Remaining ==
    LET from == IF reader.cursor.at = "start" THEN 1
                ELSE SelectInSeq(Lines, LAMBDA p : p = reader.cursor)
    IN  IF from = 0 THEN <<>> ELSE SubSeq(Lines, from, Len(Lines))

\* GET /api/logs with the cursor of the previous page.
Page ==
    /\ reader.cursor.at # "end"
    /\ reader' =
          LET page == SubSeq(Remaining, 1, Min({PageSize, Len(Remaining)}))
          IN  [cursor |-> PageAfter(Remaining),
               shown |-> reader.shown \o
                   [i \in DOMAIN page |-> log.plain[page[i].file].lines[page[i].line]]]
    /\ UNCHANGED <<now, due, entries, log, purged>>

-----------------------------------------------------------------------------
\* The process ends, by a signal too, and starts again: nothing flushes the buffer.
Restart ==
    /\ MayFault(log)
    /\ log' = Faulted([log EXCEPT !.lost = @ \cup ToSet(log.buffer), !.buffer = <<>>,
                                  !.name = FreshName(now)])
    /\ entries' = [k \in DOMAIN entries |->
          IF entries[k].payload = "writing" THEN [entries[k] EXCEPT !.payload = "gone"]
          ELSE entries[k]]
    /\ due' = FALSE
    /\ UNCHANGED <<now, reader, purged>>

\* Assumed of the event loop and the disk, to keep the clock within its bounds: the
\* flush is not a second late, and after MaxTime time passes only for what waits.
Punctual == ~due
Waiting == /\ \/ log.buffer # <<>>
              \/ \E t \in Times : log.rotated[t].is # "missing"
              \/ \E k \in DOMAIN entries : entries[k].payload = "stored"
           /\ \A k \in DOMAIN entries : entries[k].payload # "writing"

Tick ==
    /\ Punctual /\ now < Horizon /\ (now < MaxTime \/ Waiting)
    /\ now' = now + 1 /\ due' = TRUE
    /\ UNCHANGED <<entries, log, reader, purged>>

Next ==
    \/ Log \/ \E k \in DOMAIN entries : PayloadSettles(k)
    \/ Flush \/ CleanupExpired \/ Page \/ Restart \/ Tick
    \/ \E before \in 1..now : Purge(before)

Spec == Init /\ [][Next]_vars

\* The intervals fire, file writes are answered, time passes.
FairSpec ==
    /\ Spec
    /\ WF_vars(Flush) /\ WF_vars(CleanupExpired) /\ WF_vars(Tick)
    /\ \A k \in Full : WF_vars(k \in DOMAIN entries /\ PayloadSettles(k))

-----------------------------------------------------------------------------
(* Correctness.                                                              *)

Held == ToSet(log.buffer) \cup OnDisk(log)

\* An entry logged is held in memory or in a file until a fault, a restart or the
\* next archive of the same second takes it, a purge is asked for what is older, or
\* the retention period has passed since it was logged.
NothingForgotten ==
    \A k \in DOMAIN entries :
        k \in Held \/ k \in log.lost \/ entries[k].at < purged.to \/ now - entries[k].at > Retain

\* What was purged stays purged: no entry older than the date of a purge is held,
\* also not one that was in memory at the time, or in two files, unless a purge failed
\* on a file it was in and none of its date or a later one went well since.
PurgeComplete == \A k \in Held : entries[k].at >= purged.to \/ k \in log.spared

\* The archives by name, then the active file, then the buffer.
Trail ==
    FlattenSeq([i \in 1..(Horizon + 1) |-> log.rotated[i - 1].lines])
        \o log.plain[log.name].lines \o log.buffer

\* Read in the order of its files the log has every entry once and in the order of
\* logging, unless an archive was written whose original could not be deleted.
InOrder == ~log.doubled => \A i, j \in DOMAIN Trail : i < j => Trail[i] < Trail[j]

\* Turning the pages shows no entry twice, whatever is logged, rotated or purged
\* between two of them.
ShownOnce == \A i, j \in DOMAIN reader.shown : i # j => reader.shown[i] # reader.shown[j]

\* No entry stays in memory: a flush takes the whole buffer.
BufferDrains == []<>(log.buffer = <<>>)

PayloadStored(k) == k \in DOMAIN entries /\ entries[k].payload = "stored"

\* Every archive and every payload file is deleted at last, those of entries that
\* are no longer in the log included.
RetentionEnds ==
    /\ \A t \in Times : []<>(log.rotated[t].is = "missing")
    /\ \A k \in Full : []<>~PayloadStored(k)
=============================================================================

----------------------------- MODULE PolicyStore -----------------------------
(***************************************************************************)
(* The policy file and everybody who writes it.  The API reads, changes and*)
(* writes the file and then loads it into the engine; people edit it in    *)
(* place, replace it or delete it; a watcher loads it again a debounce     *)
(* after the last change it hears of; a restart loads it anew.             *)
(*                                                                         *)
(* A handler of the API awaits its body first and is synchronous from then *)
(* on: it is one action.                                                   *)
(***************************************************************************)
EXTENDS PolicyEngine

CONSTANTS
    Submissions,         \* the policies clients submit
    Drafts,              \* the contents people save
    MaxItems, MaxChanges, MaxFaults  \* bounds of the model

ASSUME StoreConstants ==
    /\ Submissions \subseteq Entry /\ \A p \in Submissions : Loadable(<<p>>)
    /\ Drafts \subseteq Seq(Entry)
    /\ {MaxItems, MaxChanges, MaxFaults} \subseteq Nat

VARIABLES
    file,
    phase,    \* of startProxyRuntime and the process it starts
    watcher,  \* the inode fs.watch is on, events under way, the debounce timer
    unheard,  \* history: a change since the last load that the watch could not see
    changes,
    faults    \* crashes and writes that failed

vars == <<policies, windows, now, seen, file, phase, watcher, unheard, changes, faults>>
fileVars == <<file, watcher, unheard>>

-----------------------------------------------------------------------------
\* A "broken" file is no YAML, or has no sequence of policies: empty, torn, or mistyped.
File == [is : {"missing", "broken", "list"}, items : Seq(Entry)]

Missing == [is |-> "missing", items |-> <<>>]
Broken == [is |-> "broken", items |-> <<>>]
Listed(items) == [is |-> "list", items |-> items]

\* An entry of which only the first lines are there: the parser misses a field, or it
\* takes it for a policy without criteria that is for everybody.
Cut(e) == {[e EXCEPT !.terms = Incomplete],
           [e EXCEPT !.scope = Agents \X Providers, !.match = {}]}

\* What may be in a file of which the writing has begun: a part that parses is the
\* whole to everybody who reads it.
Begun(items) ==
    {Broken} \cup UNION {{Listed([SubSeq(items, 1, n) EXCEPT ![n] = e]) :
                            e \in Cut(items[n]) \cup {items[n]}} : n \in DOMAIN items}

NoWatch == [on |-> "nothing", event |-> FALSE, timer |-> FALSE]

TypeOK ==
    /\ EngineTypeOK
    /\ file \in File
    /\ phase \in {"down", "loaded", "up"}
    /\ watcher \in [on : {"nothing", "file", "old inode"}, event : BOOLEAN, timer : BOOLEAN]
    /\ unheard \in BOOLEAN
    /\ changes \in Nat /\ faults \in Nat

Init ==
    /\ EngineInit
    /\ file \in {Missing, Broken} \cup {Listed(d) : d \in Drafts}
    /\ phase = "down"
    /\ watcher = NoWatch
    /\ unheard = FALSE
    /\ changes = 0 /\ faults = 0

-----------------------------------------------------------------------------
(* Loading and the watcher.                                                  *)

Parses(f) == f.is = "list" /\ Loadable(f.items)

\* loadFromFile: the policies in force once f was read.
Loaded(f) == IF Parses(f) THEN f.items ELSE policies

\* Mutant: as at the start, from the empty document.
Ensured_Empty(f, given) == IF f.is = "missing" THEN Listed(<<>>) ELSE f

\* ensurePolicyFile: a missing file is written from the policies given.
Ensured(f, given) == IF f.is = "missing" THEN Listed(given) ELSE f

\* Mutant: a 'rename' event is passed over.
Orphaned_Silent == [watcher EXCEPT !.on = IF @ = "file" THEN "old inode" ELSE @]

\* What the watch notices of a file that is written, and of one that is replaced or
\* deleted: the inode it is on.
Notified == [watcher EXCEPT !.event = @ \/ watcher.on = "file"]
Orphaned == [Notified EXCEPT !.on = IF @ = "file" THEN "old inode" ELSE @]

\* startProxyRuntime creates and loads the file ...
Start ==
    /\ phase = "down"
    /\ phase' = "loaded"
    /\ file' = Ensured(file, <<>>)
    /\ policies' = Loaded(file')
    /\ unheard' = FALSE
    /\ UNCHANGED <<windows, now, seen, watcher, changes, faults>>

\* ... and starts the watcher, which does without the file if there is none or if
\* fs.watch throws.
Watch ==
    /\ phase = "loaded"
    /\ phase' = "up"
    /\ \E on \in {"nothing"} \cup IF file.is = "missing" THEN {} ELSE {"file"} :
          watcher' = [watcher EXCEPT !.on = on]
    /\ UNCHANGED <<engineVars, file, unheard, changes, faults>>

\* Mutant: a callback while the timer runs only clears it.
Noticed_Toggled ==
    /\ watcher.event
    /\ watcher' = [watcher EXCEPT !.event = FALSE, !.timer = ~@]
    /\ UNCHANGED <<engineVars, file, phase, unheard, changes, faults>>

\* The callback of fs.watch: scheduleReload sets the timer anew.
Noticed ==
    /\ watcher.event
    /\ watcher' = [watcher EXCEPT !.event = FALSE, !.timer = TRUE]
    /\ UNCHANGED <<engineVars, file, phase, unheard, changes, faults>>

\* The timer fires.
Reload ==
    /\ watcher.timer
    /\ watcher' = [watcher EXCEPT !.timer = FALSE]
    /\ policies' = Loaded(file)
    /\ unheard' = FALSE
    /\ UNCHANGED <<windows, now, seen, file, phase, changes, faults>>

-----------------------------------------------------------------------------
(* The API.  Each handler makes sure that the file exists, reads it and      *)
(* answers 500 to a broken one and 404 if the name is not in it.             *)

\* The document a handler changes.
Document == Ensured(file, policies)

Found(n) == {i \in DOMAIN Document.items : Document.items[i].name = n}

\* findPolicyIndex: the first.
IndexOf(n) == FirstOf(Found(n))

\* What the calls write: PATCH; PUT, whose submission may have another name; DELETE;
\* and POST.
Toggled(n, on) == [Document.items EXCEPT ![IndexOf(n)] = [@ EXCEPT !.enabled = on]]
Exchanged(n, p) == [Document.items EXCEPT ![IndexOf(n)] = p]
Without(n) == RemoveAt(Document.items, IndexOf(n))
With(p) == Append(Document.items, p)

\* The file is written as f.  A file that was missing has a new inode.
Rewrite(f) ==
    /\ file' = f
    /\ watcher' = IF file.is = "missing" THEN watcher ELSE Notified

\* A change that the watch does not see.
Hidden == watcher.on # "file" \/ file.is = "missing"

\* After the edit the handler loads the file and answers 2xx whether it parses or not.
Written(items) ==
    /\ Rewrite(Listed(items))
    /\ policies' = Loaded(Listed(items))
    /\ unheard' = FALSE
    /\ UNCHANGED faults

\* writeFileSync empties the file and then throws, in the handler or when it creates
\* the file: the answer is 500 and nothing is loaded.
WriteFails(items) ==
    /\ faults < MaxFaults /\ faults' = faults + 1
    /\ \E f \in Begun(items) \cup IF file.is = "missing" THEN Begun(policies) ELSE {} : Rewrite(f)
    /\ unheard' = (unheard \/ Hidden)
    /\ UNCHANGED policies

Store(items) == Written(items) \/ WriteFails(items)

\* The name is not in the file: all that a 404 may leave is the file, if it was missing.
NotFound(n) ==
    /\ Found(n) = {}
    /\ \/ file' = Document /\ UNCHANGED <<policies, watcher, unheard, faults>>
       \/ file.is = "missing" /\ WriteFails(policies)

Served ==
    /\ phase = "up" /\ changes < MaxChanges
    /\ changes' = changes + 1
    /\ UNCHANGED <<windows, now, seen, phase>>

Patch(n, on) == Served /\ ((Found(n) # {} /\ Store(Toggled(n, on))) \/ NotFound(n))

Put(n, p) == Served /\ ((Found(n) # {} /\ Store(Exchanged(n, p))) \/ NotFound(n))

Delete(n) == Served /\ ((Found(n) # {} /\ Store(Without(n))) \/ NotFound(n))

\* POST looks for the name among the policies in force, not in the file.
Taken(p) == \E i \in DOMAIN policies : policies[i].name = p.name

Post(p) ==
    /\ Served /\ ~Taken(p)
    /\ \/ Document.is = "list" /\ Len(Document.items) < MaxItems /\ Store(With(p))
       \/ Document.is = "broken" /\ UNCHANGED <<policies, fileVars, faults>>

-----------------------------------------------------------------------------
(* People, and the process.                                                  *)

\* What is saved may be half of a file, and the other half follow.
Content == UNION {Begun(d) \cup {Listed(d)} : d \in Drafts}

\* An editor writes the file in place, ...
Edit(f) ==
    /\ changes < MaxChanges /\ f # file
    /\ changes' = changes + 1
    /\ Rewrite(f)
    /\ unheard' = (unheard \/ Hidden)
    /\ UNCHANGED <<engineVars, phase, faults>>

\* ... or renames a new one over it, or somebody deletes it: the last the watch sees.
Replace(f) ==
    /\ changes < MaxChanges /\ f # file /\ file.is # "missing"
    /\ changes' = changes + 1
    /\ file' = f
    /\ watcher' = Orphaned
    /\ unheard' = (unheard \/ watcher.on # "file")
    /\ UNCHANGED <<engineVars, phase, faults>>

\* What the call under way may be writing.
Writings ==
    LET known == {n \in Names : Found(n) # {}}
    IN  {Toggled(n, on) : n \in known, on \in BOOLEAN}
        \cup {Exchanged(n, p) : n \in known, p \in Submissions}
        \cup {Without(n) : n \in known}
        \cup {With(p) : p \in {x \in Submissions : Document.is = "list" /\ ~Taken(x)}}
        \cup (IF file.is = "missing" THEN {policies} ELSE {})

\* The process dies, between two steps or while it writes the file.
Crash ==
    /\ phase # "down" /\ faults < MaxFaults
    /\ faults' = faults + 1
    /\ phase' = "down"
    /\ policies' = <<>> /\ windows' = NoWindows /\ seen' = <<>>
    /\ watcher' = NoWatch /\ unheard' = FALSE
    /\ \/ file' = file
       \/ phase = "up" /\ \E items \in Writings : file' \in Begun(items)
    /\ UNCHANGED <<now, changes>>

Request(r) == phase = "up" /\ Evaluate(r) /\ UNCHANGED <<fileVars, phase, changes, faults>>
Clock == Tick /\ UNCHANGED <<fileVars, phase, changes, faults>>

Api ==
    \/ \E n \in Names, on \in BOOLEAN : Patch(n, on)
    \/ \E n \in Names, p \in Submissions : Put(n, p)
    \/ \E n \in Names : Delete(n)
    \/ \E p \in Submissions : Post(p)

Next ==
    \/ Start \/ Watch \/ Noticed \/ Reload
    \/ Api
    \/ \E f \in Content : Edit(f)
    \/ \E f \in Content \cup {Missing} : Replace(f)
    \/ Crash
    \/ \E r \in Requests : Request(r)
    \/ Clock

Spec == Init /\ [][Next]_vars

\* The event loop and the kernel deliver; the debounce ends because changes do.
FairSpec == Spec /\ WF_vars(Start) /\ WF_vars(Watch) /\ WF_vars(Noticed) /\ WF_vars(Reload)

-----------------------------------------------------------------------------
(* Properties.                                                               *)

\* "Each policy must have a unique name": otherwise two rate limits would share a
\* window, and the API could reach only the first.
OneOfEachName ==
    \A i, j \in DOMAIN policies : policies[i].name = policies[j].name => i = j

\* The file says what is in force, or is missing and would be written from it.
InSync == file.is = "missing" \/ (Parses(file) /\ file.items = policies)

\* PUT and POST do not look whether the file has the name already.
Doubled(f) == \E i, j \in DOMAIN f.items : i # j /\ f.items[i].name = f.items[j].name

Among(p, ps) == \E i \in DOMAIN ps : ps[i] = p

\* What is in force afterwards is in the file, or was in force before; file and engine
\* part only by a write that fails or by a name that is there twice, and at most one
\* policy goes.
StaysInSync ==
    /\ InSync' \/ policies' = policies
    /\ InSync =>
          /\ InSync' \/ Doubled(file') \/ faults' # faults
          /\ \A i, j \in DOMAIN policies :
                ~Among(policies[i], policies') /\ ~Among(policies[j], policies') => i = j

\* A call puts in force what it leaves in the file, or leaves in force what was,
\* whatever was in the file before.  From a file in step with the engine it can only
\* fall out of step by a write that fails or by a name that is there twice, and it takes
\* no policy out of force but the one it names, also when the file was deleted in between.
SyncKept == [][StaysInSync \/ ~Api]_vars

Stale == phase = "up" /\ Parses(file) /\ file.items # policies

\* A file that parses and is not in force is on its way, unless it was changed where
\* the watch could not see it: between load and watch, or after the file was replaced.
ReloadOwed == Stale => watcher.event \/ watcher.timer \/ unheard

\* And it arrives.
EditTakesEffect == []<>(~Stale \/ unheard)
=============================================================================

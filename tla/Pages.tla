-------------------------------- MODULE Pages --------------------------------
(***************************************************************************)
(* The dashboard's pages about policies, alert rules and held requests:    *)
(* the lists with their switches and buttons, the detail page of a policy  *)
(* with its editor, and the calls under way between a page and the proxy.  *)
(*                                                                         *)
(* One page is open at a time, and one thing on it is followed: a policy,  *)
(* a rule or a held request.  The proxy serves a call at once; its answer  *)
(* is made use of when it comes, by the page that is open then.            *)
(*                                                                         *)
(* The page of settings has no calls: beside it the connection runs as in  *)
(* Connection.  To the others it comes and goes in any way at all.         *)
(***************************************************************************)
EXTENDS FiniteSets, Connection

CONSTANTS
    Texts,       \* what a policy or a rule may say
    Absent,
    MaxPageCalls \* calls of a page under way when somebody makes another

VARIABLES
    thing,      \* what the proxy has: its text, and whether it is on (or pending)
    page,       \* the page that is open and what it shows
    editor,     \* the editor of the detail page
    pageCalls,  \* its calls under way, a bag
    pageBelied  \* history: what the page shows may be out of date

pageVars == <<page, editor, pageCalls, pageBelied>>
pagesVars == <<linkVars, thing, pageVars>>

-----------------------------------------------------------------------------
Value == [text : Texts, on : BOOLEAN]

\* "on" is a state of its own, because a switch does not rewrite the YAML.
Shown == [yaml : Value, on : BOOLEAN]

ASSUME PageConstants == Absent \notin Value /\ Absent \notin Shown

\* Only the detail page makes anything of an error.
Page == [subject : {"settings", "policy", "rule", "request"}, name : {"list", "detail", "new"},
         shown : Shown \cup {Absent}, loading : BOOLEAN, error : BOOLEAN]

Editor == [text : Value \cup {Absent}, saved : Value \cup {Absent}, dirty : BOOLEAN]

\* A call waits, was served with an answer, or is of a page that was left.  A save knows
\* whether the dashboard was "linked" to the proxy when it was sent.
PageCall == [kind : {"get", "reload", "switch", "save", "create", "delete", "decide"},
         arg : Value \cup {Absent},
         state : {"sent", "ok", "refused", "orphan"}, linked : BOOLEAN,
         got : Value \cup {Absent}]

PagesTypeOK ==
    /\ LinkTypeOK
    /\ thing \in Value \cup {Absent}
    /\ page \in Page /\ editor \in Editor
    /\ IsABag(pageCalls) /\ BagToSet(pageCalls) \subseteq PageCall
    /\ pageBelied \in BOOLEAN

AsShown(v) == IF v = Absent THEN Absent ELSE [yaml |-> v, on |-> v.on]

\* The queue of held requests lists what is pending; the other lists list everything.
Listed(v) ==
    IF v = Absent \/ (page.subject = "request" /\ ~v.on) THEN Absent ELSE v

Under(kinds) == \E c \in BagToSet(pageCalls) : c.kind \in kinds

RoomToCall == BagCardinality(pageCalls) < MaxPageCalls

\* A page that comes or goes, or a connection, may find a call under way.
RoomToFetch == BagCardinality(pageCalls) <= MaxPageCalls

NewCall(kind, arg) ==
    [kind |-> kind, arg |-> arg, state |-> "sent", got |-> Absent,
     linked |-> kind # "save" \/ isConnected]

Nothing == [text |-> Absent, saved |-> Absent, dirty |-> FALSE]

-----------------------------------------------------------------------------
(* Fetching.                                                                 *)

\* A page that asks with nothing else under way will know how things are.
Loads(rest, kind, p, arg) ==
    /\ pageCalls' = BagAdd(rest, NewCall(kind, arg))
    /\ page' = [p EXCEPT !.loading = TRUE, !.error = FALSE]
    /\ pageBelied' = (rest # EmptyBag)

\* What comes with a new page, or with a page that is mounted again.
Mounted(subject, name) ==
    [subject |-> subject, name |-> name, shown |-> Absent, loading |-> FALSE, error |-> FALSE]

\* Calls that the proxy has not served are served all the same, but for fetches, whose
\* answers nobody waits for.
Left(bag) ==
    LET orphans == {c \in BagToSet(bag) : c.state \in {"sent", "orphan"} /\ c.kind \notin {"get", "reload"}}
    IN  SetToBag({[c EXCEPT !.state = "orphan"] : c \in orphans})

\* Another page, or the same one after AuthGate has looked at the session.
Goes(name, bag) ==
    /\ editor' = Nothing
    /\ IF isConnected /\ name # "new"
       THEN Loads(Left(bag), "get", Mounted(page.subject, name), Absent)
       ELSE /\ page' = Mounted(page.subject, name)
            /\ pageCalls' = Left(bag)
            /\ pageBelied' = TRUE

Open(name) ==
    /\ page.subject # "settings" /\ (name # "list" => page.subject = "policy")
    /\ RoomToFetch
    /\ Goes(name, pageCalls)
    /\ UNCHANGED <<linkVars, thing>>

\* What a page may see of LinkNext, and more.
ComesOrGoes ==
    \/ UpOrDown
    \/ /\ link' = [link EXCEPT !.status = IF isConnected THEN "disconnected" ELSE "connected"]
       /\ UNCHANGED <<up, pings>>

\* With every new connection the hook of the page fetches again.
LinkStep ==
    /\ page.subject # "settings"
    /\ ComesOrGoes
    /\ IF ~isConnected /\ isConnected' /\ page.name # "new"
       THEN RoomToFetch /\ Loads(pageCalls, "get", page, Absent)
       ELSE UNCHANGED <<page, pageCalls, pageBelied>>
    /\ UNCHANGED <<thing, editor>>

Beside(A) == page.subject = "settings" /\ A /\ UNCHANGED <<thing, pageVars>>

Settings == Beside(LinkNext)

\* Mutant: it is the history that is refreshed.
Polled_History == FALSE

\* Every ten seconds, where something is pending.
Polled == page.subject = "request" /\ isConnected

Refresh ==
    /\ Polled
    /\ RoomToFetch
    /\ Loads(pageCalls, "get", page, Absent)
    /\ UNCHANGED <<linkVars, thing, editor>>

-----------------------------------------------------------------------------
(* What people do with a page.                                               *)

\* A list is there with the connection, the detail page without an error, and neither
\* during a load; but with two loads under way, the first answer ends it.
Ready ==
    /\ page.shown # Absent /\ ~page.loading
    /\ IF page.name = "list" THEN isConnected ELSE ~page.error

Calls(kind, arg) ==
    /\ RoomToCall
    /\ pageCalls' = BagAdd(pageCalls, NewCall(kind, arg))
    /\ pageBelied' = (pageBelied \/ pageCalls # EmptyBag)
    /\ UNCHANGED <<linkVars, thing>>

\* toggleEnabled shows the new state before the proxy has heard of it.
Switch ==
    /\ Ready /\ page.subject # "request"
    /\ page' = [page EXCEPT !.shown.on = ~@]
    /\ Calls("switch", [page.shown.yaml EXCEPT !.on = ~page.shown.on])
    /\ UNCHANGED editor

\* AlertRuleForm sends every field, and "enabled: true" among them.  It may have been
\* open since before the rule was gone.
Update(text) ==
    /\ page.subject = "rule" /\ isConnected
    /\ Calls("save", [text |-> text, on |-> TRUE])
    /\ UNCHANGED <<page, editor>>

\* The page for a new policy and the form for rules.
Create(text) ==
    /\ page.name = "new" \/ (page.subject = "rule" /\ isConnected)
    /\ Calls("create", [text |-> text, on |-> TRUE])
    /\ UNCHANGED <<page, editor>>

Delete ==
    /\ Ready /\ (page.subject = "rule" \/ page.name = "detail")
    /\ Calls("delete", Absent)
    /\ UNCHANGED <<page, editor>>

\* The modal approves or denies a request, that may not be pending any more.
Decide ==
    /\ page.subject = "request" /\ isConnected
    /\ Calls("decide", Absent)
    /\ UNCHANGED <<page, editor>>

\* Mutant: the text is taken over whether or not there are edits.
Taken_Always(e, shown) ==
    IF shown = Absent THEN e
    ELSE [e EXCEPT !.text = shown.yaml, !.saved = shown.yaml]

\* The effect that fills the editor, when there are no edits.
Taken(e, shown) ==
    IF shown = Absent \/ e.dirty THEN e
    ELSE [e EXCEPT !.text = shown.yaml, !.saved = shown.yaml]

\* The editor is there while nothing loads.  Who comes back to the text that was saved
\* has no edits any more.
Type(v) ==
    /\ page.name = "detail" /\ Ready
    /\ editor' = Taken([editor EXCEPT !.text = v, !.dirty = v # editor.saved], page.shown)
    /\ UNCHANGED <<linkVars, thing, page, pageCalls, pageBelied>>

Save ==
    /\ page.name = "detail" /\ Ready
    /\ editor.dirty /\ ~Under({"save", "reload"})
    /\ Calls("save", editor.text)
    /\ UNCHANGED <<page, editor>>

-----------------------------------------------------------------------------
(* What the proxy does with a call.                                          *)

\* What a call may make of the thing.  A policy that is saved with another name is not
\* there any more under the old one.
Changed(c) ==
    CASE c.kind = "switch" -> {[thing EXCEPT !.on = c.arg.on]}
      [] c.kind = "save" -> {c.arg} \cup (IF page.subject = "policy" THEN {Absent} ELSE {})
      [] c.kind = "create" -> {IF thing = Absent THEN c.arg ELSE thing}
      [] c.kind = "delete" -> {Absent}
      [] c.kind = "decide" -> {[thing EXCEPT !.on = FALSE]}
      [] OTHER -> {thing}

Accepted(c) ==
    CASE c.kind = "create" -> thing = Absent \/ page.subject = "rule"
      [] c.kind = "decide" -> thing # Absent /\ thing.on
      [] c.kind \in {"get", "reload"} -> TRUE
      [] OTHER -> thing # Absent

\* The proxy may also refuse, for want of a token or of a database, and a fetch as well.
\* A change that is refused may have been made: a rule is written and then the rules
\* cannot be loaded, a decision is written and the database does not say so.
Served(c, ok) ==
    /\ up
    /\ c.state \in {"sent", "orphan"}
    /\ ok => Accepted(c)
    /\ \E changes \in {ok, Accepted(c)} :
        /\ IF changes THEN thing' \in Changed(c) ELSE UNCHANGED thing
        /\ pageBelied' = \/ pageBelied \/ c.state = "orphan"
                         \/ ~ok /\ (changes \/ c.kind \in {"get", "reload"})
    /\ pageCalls' =
          IF c.state = "orphan" THEN BagRemove(pageCalls, c)
          ELSE BagAdd(BagRemove(pageCalls, c),
                      [c EXCEPT !.state = IF ok THEN "ok" ELSE "refused",
                                !.got = IF c.kind \in {"get", "reload"} THEN Listed(thing)
                                        ELSE Absent])
    /\ UNCHANGED <<linkVars, page, editor>>

Serves(c) == \E ok \in BOOLEAN : Served(c, ok)

-----------------------------------------------------------------------------
(* What a page does with an answer.                                          *)

\* After a save, once its fetch has ended in whatever way or was not made for want of a
\* connection, what was saved counts as clean, and the editor takes on what the page has.
Cleared(c, shown) ==
    IF c.kind \in {"save", "reload"}
    THEN Taken([editor EXCEPT !.saved = c.arg, !.dirty = FALSE], shown)
    ELSE Taken(editor, shown)

Fetched(c) ==
    /\ c.kind \in {"get", "reload"} /\ c.state = "ok"
    /\ LET shown == AsShown(c.got)
       IN  /\ page' = [page EXCEPT !.shown = shown, !.loading = FALSE,
                           !.error = @ \/ (page.name = "detail" /\ shown = Absent)]
           /\ editor' = IF page.name = "detail" THEN Cleared(c, shown) ELSE editor
    /\ pageCalls' = BagRemove(pageCalls, c)
    /\ UNCHANGED pageBelied

\* Mutant: the row of a deleted rule waits for the next load.
Refetched_NotDeleted(c) ==
    IF page.name = "list" THEN IF c.kind = "delete" THEN "none" ELSE "get"
    ELSE IF c.kind = "save" THEN "reload" ELSE "none"

\* The fetch that follows a call which the proxy accepted.
Refetched(c) ==
    IF page.name = "list" THEN "get"
    ELSE IF c.kind = "save" THEN "reload" ELSE "none"

Succeeded(c) ==
    /\ c.kind \notin {"get", "reload"} /\ c.state = "ok"
    /\ LET rest == BagRemove(pageCalls, c)
       IN  IF page.name # "list" /\ c.kind \in {"create", "delete"}
           THEN Goes(IF c.kind = "create" THEN "detail" ELSE "list", rest)
           ELSE IF Refetched(c) # "none" /\ c.linked
           THEN Loads(rest, Refetched(c), page, c.arg) /\ UNCHANGED editor
           ELSE /\ pageCalls' = rest
                /\ editor' = IF c.kind = "save" THEN Cleared(c, page.shown) ELSE editor
                /\ UNCHANGED <<page, pageBelied>>

\* A switch that failed goes back to what it was.
Reverted(c) ==
    IF c.kind = "switch" /\ page.shown # Absent
    THEN [page.shown EXCEPT !.on = ~c.arg.on] ELSE page.shown

\* On the detail page a load, save or deletion that fails hides everything behind an
\* error, until the connection comes anew.  A text that is refused does not.
CallFails(c, hides) ==
    /\ page' = [page EXCEPT
                  !.shown = Reverted(c),
                  !.loading = @ /\ c.kind \notin {"get", "reload"},
                  !.error = @ \/ (page.name = "detail" /\ c.kind # "switch" /\ hides)]
    /\ editor' = IF c.kind = "reload" THEN Cleared(c, page.shown) ELSE editor
    /\ pageCalls' = BagRemove(pageCalls, c)

AnswerComes(c) ==
    /\ \/ Fetched(c) \/ Succeeded(c)
       \/ /\ c.state = "refused"
          /\ \E hides \in {TRUE, c.kind # "save"} : CallFails(c, hides)
          /\ UNCHANGED pageBelied
    /\ UNCHANGED <<linkVars, thing>>

\* The proxy is not there, or is gone when it should answer.
Lost(c) ==
    /\ c.state # "orphan"
    /\ ~up
    /\ CallFails(c, TRUE)
    /\ pageBelied' = TRUE
    /\ UNCHANGED <<linkVars, thing>>

\* People with another browser or an editor, agents, and the timeout of a request.
Others ==
    /\ page.subject # "settings"
    /\ thing' \in Value \cup {Absent}
    /\ thing' # thing
    /\ pageBelied' = TRUE
    /\ UNCHANGED <<linkVars, page, editor, pageCalls>>

-----------------------------------------------------------------------------
PagesInit ==
    \/ /\ LinkInit
       /\ page = Mounted("settings", "list") /\ thing = Absent
       /\ editor = Nothing /\ pageCalls = EmptyBag /\ pageBelied = TRUE
    \/ /\ up = TRUE /\ pings = EmptyBag
       /\ link = [address |-> "proxy", failures |-> 0, status |-> "disconnected"]
       /\ page \in {Mounted(s, "list") : s \in {"policy", "rule", "request"}}
       /\ thing \in Value \cup {Absent}
       /\ editor = Nothing /\ pageCalls = EmptyBag /\ pageBelied = TRUE

PagesNext ==
    \/ Settings \/ LinkStep \/ \E name \in {"list", "detail", "new"} : Open(name)
    \/ Refresh \/ Switch \/ Delete \/ Decide \/ Save
    \/ \E text \in Texts : Update(text) \/ Create(text)
    \/ \E v \in Value : Type(v)
    \/ \E c \in BagToSet(pageCalls) : Serves(c) \/ Lost(c) \/ AnswerComes(c)
    \/ Others

PagesSpec == PagesInit /\ [][PagesNext]_pagesVars

\* The interval fires for ever, and every ping ends within five seconds.
LinkFairness ==
    /\ WF_pagesVars(Beside(Interval))
    /\ \A a \in Addresses : WF_pagesVars(Beside(PingServed(a)))
    /\ WF_pagesVars(Beside(PingSucceeded)) /\ WF_pagesVars(Beside(PingFailed))

\* The interval of a page fires, the proxy serves its fetches and their answers come.
PageFairness ==
    /\ WF_pagesVars(Refresh)
    /\ WF_pagesVars(\E c \in BagToSet(pageCalls) : c.kind = "get" /\ Serves(c))
    /\ WF_pagesVars(\E c \in BagToSet(pageCalls) : c.kind = "get" /\ AnswerComes(c))

PagesFairSpec == PagesSpec /\ LinkFairness /\ PageFairness

-----------------------------------------------------------------------------
\* A page at rest with a connection shows what the proxy has, switches included, unless
\* since it last asked somebody else changed it, calls overlapped or were lost, the
\* fetch was refused, or a change was refused that had been made all the same
\* (usePolicies.ts:55-80, useAlerts.ts:73-160, usePolicy.ts:170-300).
ShownFits ==
    pageCalls = EmptyBag /\ isConnected /\ ~pageBelied =>
        IF page.shown = Absent THEN Listed(thing) = Absent
        ELSE thing # Absent /\ page.shown.on = thing.on

\* Nothing but a save takes edits out of the editor while its page is open: no load,
\* switch, error or new connection does (PolicyDetailPage.tsx:78-83).
EditsKept ==
    [][editor.dirty /\ editor'.text # editor.text =>
          \/ \E v \in Value : Type(v)
          \/ Under({"save", "reload"}) /\ ~editor'.dirty
          \/ editor' = Nothing]_pagesVars

FetchRefused == \E c \in BagToSet(pageCalls) : c.kind = "get" /\ Served(c, FALSE)

Pending == thing # Absent /\ thing.on

\* With a connection that lasts and fetches that are not refused any more, a page that
\* stays open comes to show a request that is pending, and to take away one that is not,
\* however fetches overtake each other (useApprovals.ts:47-98).
QueueFollows ==
    page.subject = "request" /\ <>[](up /\ isConnected) /\ <>[][~Open("list") /\ ~FetchRefused]_pagesVars =>
        /\ [](Pending /\ page.shown = Absent => <>(~Pending \/ page.shown # Absent))
        /\ [](~Pending /\ page.shown # Absent => <>(Pending \/ page.shown = Absent))

\* ConnectionSettles of Connection, beside a page without calls.
LinkSettles == page.subject = "settings" => ConnectionSettles
=============================================================================
